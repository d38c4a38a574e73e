--------------------------- MODULE Delivery_proofs ---------------------------
(***************************************************************************)
(* From the text an agent writes to the messages in the chat, for every    *)
(* threshold, every limit and every set of chunks.  The stream buffer      *)
(* keeps its types, loses nothing but white space, cuts segments that fit, *)
(* and comes to an end; sendReply takes what the buffer sends and no more, *)
(* and every message it makes fits and is not of line breaks alone.        *)
(***************************************************************************)
EXTENDS Delivery, SequenceTheorems, WellFoundedInduction, TLAPS

\* The threshold in use is positive, whatever was configured.
LEMMA ThresholdPositive == threshold \in Nat \ {0}
BY ThresholdAssumption DEF threshold

\* A non-empty set of naturals has a least element.
LEMMA LeastExists ==
    ASSUME NEW S \in SUBSET Nat, S # {}
    PROVE  \E x \in S : \A y \in S : x <= y
<1>1. PICK x \in S : \A y \in S : ~(<<y, x>> \in OpToRel(<, Nat))
  <2>1. IsWellFoundedOn(OpToRel(<, Nat), Nat)
    BY NatLessThanWellFounded
  <2>2. QED BY <2>1, WFMin
<1>2. ASSUME NEW y \in S PROVE x <= y
  <2>1. <<y, x>> \in Nat \X Nat /\ <<y, x>>[1] = y /\ <<y, x>>[2] = x
    OBVIOUS
  <2>2. ~(y < x)
    BY <1>1, <2>1, Zenon DEF OpToRel
  <2>3. QED BY <2>2
<1>3. QED BY <1>2

\* A set of naturals with 0, and with every successor of its members, is Nat.
LEMMA InductiveSet ==
    ASSUME NEW S \in SUBSET Nat, 0 \in S, \A n \in S : n + 1 \in S
    PROVE  S = Nat
<1> SUFFICES ASSUME Nat \ S # {} PROVE FALSE
  OBVIOUS
<1>1. PICK x \in Nat \ S : \A y \in Nat \ S : x <= y
  BY LeastExists
<1>2. x # 0 /\ x - 1 \in Nat /\ x - 1 \in S
  BY <1>1
<1>3. x - 1 + 1 \in S
  BY <1>2
<1>4. QED BY <1>1, <1>3

\* The first and the last of some places in a text.
LEMMA MinMaxOfPlaces ==
    ASSUME NEW n \in Nat, NEW S \in SUBSET (1 .. n), S # {}
    PROVE  /\ Min(S) \in S /\ Max(S) \in S
           /\ Min(S) <= Max(S)
           /\ \A y \in S : Min(S) <= y /\ y <= Max(S)
<1>1. \E x \in S : \A y \in S : x =< y
  BY LeastExists
<1>2. \E x \in S : \A y \in S : x >= y
  <2> DEFINE R == {n - s : s \in S}
  <2>1. R \in SUBSET Nat /\ R # {}
    <3>1. \A s \in S : n - s \in Nat
      OBVIOUS
    <3>2. QED BY <3>1
  <2>2. PICK r \in R : \A y \in R : r <= y
    BY <2>1, LeastExists
  <2>3. PICK x \in S : r = n - x
    OBVIOUS
  <2>4. ASSUME NEW y \in S PROVE x >= y
    <3>1. n - y \in R
      OBVIOUS
    <3>2. n - x <= n - y
      BY <2>2, <2>3, <3>1
    <3>3. x \in Int /\ y \in Int
      OBVIOUS
    <3> HIDE DEF R
    <3>4. QED BY <3>2, <3>3
  <2>5. QED BY <2>4
<1>3. Min(S) \in S /\ \A y \in S : Min(S) =< y
  BY <1>1 DEF Min
<1>4. Max(S) \in S /\ \A y \in S : Max(S) >= y
  BY <1>2 DEF Max
<1>5. QED BY <1>3, <1>4

\* Trimming a text gives a text that is not longer.
LEMMA TrimProperties ==
    ASSUME NEW text \in Seq(Bytes)
    PROVE  /\ TrimSpace(text) \in Seq(Bytes)
           /\ Len(TrimSpace(text)) <= Len(text)
<1> DEFINE kept == {i \in 1 .. Len(text) : text[i] \notin White}
<1>1. CASE kept = {}
  BY <1>1 DEF TrimSpace
<1>2. CASE kept # {}
  <2>1. kept \in SUBSET (1 .. Len(text)) /\ Len(text) \in Nat
    BY LenProperties
  <2>2. TrimSpace(text) = SubSeq(text, Min(kept), Max(kept))
    BY <1>2 DEF TrimSpace
  <2> HIDE DEF kept
  <2>4. /\ Min(kept) \in 1 .. Len(text) /\ Max(kept) \in 1 .. Len(text)
        /\ Min(kept) <= Max(kept)
    BY <1>2, <2>1, MinMaxOfPlaces
  <2>3. QED BY <2>1, <2>2, <2>4, SubSeqProperties, ElementOfSeq
<1>3. QED BY <1>1, <1>2

\* The region is the beginning of the text, up to the threshold.
LEMMA RegionProperties ==
    ASSUME NEW text \in Seq(Bytes)
    PROVE  /\ Region(text) \in Seq(Bytes)
           /\ Len(Region(text)) <= Len(text)
           /\ Len(Region(text)) <= threshold
           /\ text # << >> => Len(Region(text)) > 0
<1> DEFINE n == IF Len(text) < threshold THEN Len(text) ELSE threshold
<1>1. n \in 0 .. Len(text) /\ n <= threshold /\ (text # << >> => n > 0)
  BY ThresholdPositive
<1>2. Region(text) = SubSeq(text, 1, n)
  BY DEF Region
<1> HIDE DEF n
<1>3. Region(text) \in Seq(Bytes) /\ Len(Region(text)) = n
  BY <1>1, <1>2, SubSeqProperties, ElementOfSeq
<1>4. QED BY <1>1, <1>3

\* A place to cut lies within the region, and not at its beginning.
LEMMA CutWithinRegion ==
    ASSUME NEW text \in Seq(Bytes), text # << >>,
           NEW cut, SplitsAt(text, cut)
    PROVE  cut \in 1 .. Len(text) /\ cut <= threshold
<1> USE RegionProperties
<1>1. CASE IsLastOf(cut, ParagraphCuts(Region(text)))
  BY <1>1, ThresholdPositive DEF IsLastOf, ParagraphCuts
<1>2. CASE IsLastOf(cut, LineCuts(Region(text)))
  BY <1>2, ThresholdPositive DEF IsLastOf, LineCuts
<1>3. CASE cut = HardBreak(text)
  BY <1>3, ThresholdPositive DEF HardBreak
<1>4. QED BY <1>1, <1>2, <1>3 DEF SplitsAt

\* Cutting a text splits it in two texts, the second one shorter.
LEMMA CutProperties ==
    ASSUME NEW text \in Seq(Bytes), NEW cut \in 1 .. Len(text)
    PROVE  /\ SubSeq(text, 1, cut) \in Seq(Bytes)
           /\ Len(SubSeq(text, 1, cut)) = cut
           /\ Remainder(text, cut) \in Seq(Bytes)
           /\ Len(Remainder(text, cut)) < Len(text)
<1>1. SubSeq(text, 1, cut) \in Seq(Bytes) /\ Len(SubSeq(text, 1, cut)) = cut
  BY SubSeqProperties, ElementOfSeq
<1>2. /\ Remainder(text, cut) \in Seq(Bytes)
      /\ Len(Remainder(text, cut)) < Len(text)
  BY SubSeqProperties, ElementOfSeq DEF Remainder
<1>3. QED BY <1>1, <1>2

\* What a turn of the loop sends, when it sends anything, fits.
LEMMA SegmentProperties ==
    ASSUME NEW text \in Seq(Bytes), NEW cut \in 1 .. Len(text), cut <= threshold
    PROVE  /\ TrimSpace(SubSeq(text, 1, cut)) \in Seq(Bytes)
           /\ Len(TrimSpace(SubSeq(text, 1, cut))) <= threshold
<1> DEFINE start == SubSeq(text, 1, cut)
<1>1. start \in Seq(Bytes) /\ Len(start) = cut
  BY CutProperties
<1> HIDE DEF start
<1>2. TrimSpace(start) \in Seq(Bytes) /\ Len(TrimSpace(start)) <= cut
  BY <1>1, TrimProperties
<1>3. Len(TrimSpace(start)) <= threshold
  BY <1>2, ThresholdPositive, LenProperties
<1>4. QED BY <1>2, <1>3 DEF start

-----------------------------------------------------------------------------
(* The state of the buffer. *)

Inv == TypeOK /\ SegmentsFit

LEMMA InitInv == Init => Inv
BY ThresholdPositive DEF Init, Inv, TypeOK, SegmentsFit

LEMMA WriteInv == ASSUME Inv, NEW chunk \in Chunks, Write(chunk) PROVE Inv'
<1>1. chunk \in Seq(Bytes)
  BY ChunksAssumption
<1>2. TypeOK'
  BY <1>1, ConcatProperties DEF Inv, TypeOK, Write
<1>3. SegmentsFit'
  BY DEF Inv, TypeOK, SegmentsFit, Write
<1>4. QED BY <1>2, <1>3 DEF Inv

LEMMA SendSegmentInv == ASSUME Inv, SendSegment PROVE Inv'
<1>1. PICK cut \in 1 .. Len(buf) :
          /\ SplitsAt(buf, cut)
          /\ \/ /\ TrimSpace(SubSeq(buf, 1, cut)) # << >>
                /\ total' = total \o TrimSpace(SubSeq(buf, 1, cut)) \o <<"nl">>
                /\ sent' = Append(sent, TrimSpace(SubSeq(buf, 1, cut)))
             \/ UNCHANGED <<total, sent>>
          /\ buf' = Remainder(buf, cut)
  BY DEF SendSegment
<1> DEFINE segment == TrimSpace(SubSeq(buf, 1, cut))
<1>2. buf \in Seq(Bytes) /\ total \in Seq(Bytes) /\ sent \in Seq(Seq(Bytes) \ {<< >>})
  BY DEF Inv, TypeOK
<1>3. buf # << >> /\ cut <= threshold
  BY <1>1, <1>2, CutWithinRegion, EmptySeq
<1>4. segment \in Seq(Bytes) /\ Len(segment) <= threshold
  BY <1>2, <1>3, SegmentProperties
<1>5. buf' \in Seq(Bytes)
  BY <1>1, <1>2, CutProperties
<1>6. phase' = "writing" /\ phase = "writing" /\ written' = written
  BY DEF SendSegment
<1> HIDE DEF segment
<1>7. CASE segment # << >> /\ total' = total \o segment \o <<"nl">> /\ sent' = Append(sent, segment)
  <2>1. <<"nl">> \in Seq(Bytes)
    BY DEF Bytes, White
  <2>2. total \o segment \in Seq(Bytes)
    BY <1>2, <1>4, ConcatProperties
  <2>3. total' \in Seq(Bytes)
    BY <1>7, <2>1, <2>2, ConcatProperties
  <2>4. sent' \in Seq(Seq(Bytes) \ {<< >>})
    BY <1>2, <1>4, <1>7
  <2>5. SegmentsFit'
    BY <1>2, <1>4, <1>6, <1>7 DEF Inv, SegmentsFit
  <2>6. QED
    BY <1>5, <1>6, <2>3, <2>4, <2>5 DEF Inv, TypeOK
<1>8. CASE UNCHANGED <<total, sent>>
  BY <1>5, <1>6, <1>8 DEF Inv, TypeOK, SegmentsFit
<1>9. QED BY <1>1, <1>7, <1>8 DEF segment

LEMMA WriteReturnsInv == ASSUME Inv, WriteReturns PROVE Inv'
BY DEF Inv, TypeOK, SegmentsFit, WriteReturns

LEMMA FlushInv == ASSUME Inv, Flush PROVE Inv'
<1> DEFINE rest == TrimSpace(buf)
<1>1. rest \in Seq(Bytes)
  BY TrimProperties DEF Inv, TypeOK
<1>2. \/ rest # << >> /\ total' = total \o rest /\ sent' = Append(sent, rest)
      \/ UNCHANGED <<total, sent>>
  BY DEF Flush
<1>3. phase' = "done" /\ buf' = << >> /\ written' = written
  BY DEF Flush, BufAfterFlush
<1> HIDE DEF rest
<1>4. total' \in Seq(Bytes) /\ sent' \in Seq(Seq(Bytes) \ {<< >>})
  <2>1. total \in Seq(Bytes) /\ sent \in Seq(Seq(Bytes) \ {<< >>})
    BY DEF Inv, TypeOK
  <2>2. CASE rest # << >> /\ total' = total \o rest /\ sent' = Append(sent, rest)
    <3>1. total' \in Seq(Bytes)
      BY <1>1, <2>1, <2>2, ConcatProperties
    <3>2. rest \in Seq(Bytes) \ {<< >>}
      BY <1>1, <2>2
    <3>3. QED BY <2>1, <2>2, <3>1, <3>2
  <2>3. CASE UNCHANGED <<total, sent>>
    BY <2>1, <2>3
  <2>4. QED BY <1>2, <2>2, <2>3
<1>5. QED
  BY <1>3, <1>4 DEF Inv, TypeOK, SegmentsFit

LEMMA NewBufferInv == ASSUME Inv, NewBuffer PROVE Inv'
BY ThresholdPositive
   DEF NewBuffer, Inv, TypeOK, SegmentsFit

LEMMA StutterInv == ASSUME Inv, UNCHANGED vars PROVE Inv'
BY DEF Inv, TypeOK, SegmentsFit, vars

LEMMA InvHolds == Spec => []Inv
<1>1. Inv /\ [Next]_vars => Inv'
  BY WriteInv, SendSegmentInv, WriteReturnsInv, FlushInv, NewBufferInv, StutterInv
     DEF Next
<1>2. QED BY InitInv, <1>1, PTL DEF Spec

\* Every variable of the stream buffer keeps its type, and Flush leaves nothing
\* behind, for every threshold and every agent.
THEOREM TypeCorrect == Spec => []TypeOK
BY InvHolds, PTL DEF Inv

\* No segment sent while the agent writes is longer than the threshold.
THEOREM SegmentsAlwaysFit == Spec => []SegmentsFit
BY InvHolds, PTL DEF Inv

-----------------------------------------------------------------------------
(* Its steps. *)

\* Every turn of Write's loop shortens the buffer, so that Write returns.
THEOREM LoopEnds == Spec => TurnsShorten
<1>1. Inv /\ [Next]_vars =>
          [phase = "writing" /\ phase' = "writing" => Len(buf') < Len(buf)]_vars
  <2> SUFFICES ASSUME Inv, Next, phase = "writing", phase' = "writing"
               PROVE  Len(buf') < Len(buf)
    OBVIOUS
  <2>1. SendSegment
    BY DEF Next, Write, WriteReturns, Flush, NewBuffer
  <2>2. PICK cut \in 1 .. Len(buf) : buf' = Remainder(buf, cut)
    BY <2>1 DEF SendSegment
  <2>3. QED BY <2>2, CutProperties DEF Inv, TypeOK
<1>2. QED BY <1>1, InvHolds, PTL DEF Spec, TurnsShorten

\* A text that is held stays held when text is appended to it.
LEMMA HeldGrows ==
    ASSUME NEW text \in Seq(Bytes), NEW chunk \in Seq(Bytes), Held(text)
    PROVE  Held(text \o chunk)
<1>1. /\ Len(text) \in Nat /\ Len(chunk) \in Nat
      /\ Len(text) >= threshold
      /\ Len(text \o chunk) = Len(text) + Len(chunk)
      /\ text \o chunk \in Seq(Bytes)
  BY ConcatProperties, LenProperties DEF Held, Full
<1>2. /\ Region(text) = SubSeq(text, 1, threshold)
      /\ Region(text \o chunk) = SubSeq(text \o chunk, 1, threshold)
  BY <1>1, ThresholdPositive DEF Region
<1>3. \A i \in 1 .. threshold : text[i] \in Bytes /\ (text \o chunk)[i] = text[i]
  BY <1>1, ThresholdPositive, ConcatProperties, ElementOfSeq
<1>4. /\ Region(text) \in Seq(Bytes) /\ Region(text \o chunk) \in Seq(Bytes)
      /\ Len(Region(text)) = threshold /\ Len(Region(text \o chunk)) = threshold
      /\ \A i \in 1 .. threshold : /\ Region(text)[i] = text[i]
                                   /\ Region(text \o chunk)[i] = (text \o chunk)[i]
  <2>1. ASSUME NEW t, \A i \in 1 .. threshold : t[i] \in Bytes
        PROVE  /\ SubSeq(t, 1, threshold) \in Seq(Bytes)
               /\ Len(SubSeq(t, 1, threshold)) = threshold
               /\ \A i \in 1 .. threshold : SubSeq(t, 1, threshold)[i] = t[i]
    <3>1. threshold \in Int /\ 1 <= threshold
      BY ThresholdPositive
    <3>2. /\ SubSeq(t, 1, threshold) \in Seq(Bytes)
          /\ Len(SubSeq(t, 1, threshold)) = threshold - 1 + 1
          /\ \A i \in 1 .. threshold - 1 + 1 : SubSeq(t, 1, threshold)[i] = t[1 + i - 1]
      BY <2>1, <3>1, SubSeqProperties
    <3>3. threshold - 1 + 1 = threshold /\ \A i \in 1 .. threshold : 1 + i - 1 = i
      BY <3>1
    <3>4. QED BY <3>2, <3>3
  <2>2. QED BY <1>2, <1>3, <2>1
<1>5. Region(text \o chunk) = Region(text)
  BY <1>3, <1>4, SeqEqual
<1>6. QED BY <1>1, <1>5, ThresholdPositive DEF Held, Full

\* Once text is held back for a block of code, nothing is sent until Flush.
THEOREM HeldForGood == Spec => HeldIsFinal
<1>1. Inv /\ [Next]_vars =>
          [Held(buf) => phase' = "done" \/ (Held(buf') /\ sent' = sent)]_vars
  <2> SUFFICES ASSUME Inv, Next, Held(buf)
               PROVE  phase' = "done" \/ (Held(buf') /\ sent' = sent)
    OBVIOUS
  <2>1. ASSUME NEW chunk \in Chunks, Write(chunk) PROVE Held(buf') /\ sent' = sent
    <3>1. Held(buf \o chunk)
      BY HeldGrows, ChunksAssumption DEF Inv, TypeOK
    <3>2. QED BY <2>1, <3>1 DEF Write
  <2>2. CASE SendSegment
    BY <2>2 DEF SendSegment, MustSend
  <2>3. CASE WriteReturns
    BY <2>3 DEF WriteReturns, Held
  <2>4. CASE Flush
    BY <2>4 DEF Flush
  <2>5. CASE NewBuffer
    BY <2>5, ThresholdPositive DEF NewBuffer, Inv, TypeOK, Held, Full
  <2>6. QED BY <2>1, <2>2, <2>3, <2>4, <2>5 DEF Next
<1>2. QED BY <1>1, InvHolds, PTL DEF Spec, HeldIsFinal

-----------------------------------------------------------------------------
(* FlattenSeq. *)

Joins(f, texts) ==
    f = [i \in 1 .. Len(texts) |->
            IF i = 1 THEN texts[i] ELSE f[i - 1] \o texts[i]]

LEMMA JoinValues ==
    ASSUME NEW A, NEW texts \in Seq(Seq(A)), NEW f, Joins(f, texts)
    PROVE  /\ Len(texts) \in Nat
           /\ \A i \in 1 .. Len(texts) :
                 f[i] = IF i = 1 THEN texts[i] ELSE f[i - 1] \o texts[i]
<1> DEFINE value(i) == IF i = 1 THEN texts[i] ELSE f[i - 1] \o texts[i]
<1>1. Len(texts) \in Nat
  BY LenProperties
<1>2. f = [i \in 1 .. Len(texts) |-> value(i)]
  BY Zenon DEF Joins
<1> HIDE DEF value
<1>3. \A i \in 1 .. Len(texts) : f[i] = value(i)
  BY <1>2
<1>4. QED BY <1>1, <1>3 DEF value

LEMMA JoinExists ==
    ASSUME NEW A PROVE \A texts \in Seq(Seq(A)) : \E f : Joins(f, texts)
<1> DEFINE S == {n \in Nat : \A texts \in Seq(Seq(A)) :
                                Len(texts) = n => \E f : Joins(f, texts)}
<1>1. 0 \in S
  <2> SUFFICES ASSUME NEW texts \in Seq(Seq(A)), Len(texts) = 0
               PROVE  \E f : Joins(f, texts)
    OBVIOUS
  <2>1. Joins([i \in {} |-> << >>], texts)
    <3>1. 1 .. 0 = {}
      OBVIOUS
    <3>2. QED BY <3>1 DEF Joins
  <2>2. QED BY <2>1
<1>2. ASSUME NEW n \in S PROVE n + 1 \in S
  <2> SUFFICES ASSUME NEW texts \in Seq(Seq(A)), Len(texts) = n + 1
               PROVE  \E f : Joins(f, texts)
    OBVIOUS
  <2>1. n \in Nat /\ texts # << >>
    BY EmptySeq
  <2>2. PICK start \in Seq(Seq(A)), final \in Seq(A) : texts = Append(start, final)
    BY <2>1, SequenceEmptyOrAppend
  <2>3. /\ Len(start) = n /\ texts[n + 1] = final
        /\ \A i \in 1 .. n : texts[i] = start[i]
    BY <2>1, <2>2, AppendProperties, LenProperties
  <2>4. PICK f : Joins(f, start)
    BY <2>1, <2>3
  <2>5. \A i \in 1 .. n : f[i] = IF i = 1 THEN start[i] ELSE f[i - 1] \o start[i]
    BY <2>3, <2>4, JoinValues
  <2> DEFINE all == IF n = 0 THEN final ELSE f[n] \o final
             g   == [i \in 1 .. n + 1 |-> IF i = n + 1 THEN all ELSE f[i]]
  <2>6. /\ \A i \in 1 .. n : g[i] = f[i]
        /\ g[n + 1] = all
    BY <2>1
  <2> HIDE DEF all
  <2>7. ASSUME NEW i \in 1 .. n + 1
        PROVE  g[i] = IF i = 1 THEN texts[i] ELSE g[i - 1] \o texts[i]
    <3>1. CASE i \in 1 .. n /\ i = 1
      BY <2>3, <2>5, <2>6, <3>1
    <3>2. CASE i \in 1 .. n /\ i # 1
      <4>1. i - 1 \in 1 .. n
        BY <2>1, <3>2
      <4>2. g[i] = f[i - 1] \o start[i] /\ g[i - 1] = f[i - 1] /\ texts[i] = start[i]
        BY <2>3, <2>5, <2>6, <3>2, <4>1
      <4>3. QED BY <3>2, <4>2
    <3>3. CASE i = n + 1 /\ n = 0
      BY <2>3, <2>6, <3>3 DEF all
    <3>4. CASE i = n + 1 /\ n # 0
      <4>1. i # 1 /\ i - 1 = n /\ n \in 1 .. n
        BY <2>1, <3>4
      <4>2. g[i] = f[n] \o final /\ g[i - 1] = f[n] /\ texts[i] = final
        BY <2>3, <2>6, <3>4, <4>1 DEF all
      <4>3. QED BY <4>1, <4>2
    <3>5. QED BY <2>1, <3>1, <3>2, <3>3, <3>4
  <2>8. g = [i \in 1 .. n + 1 |-> g[i]]
    OBVIOUS
  <2> HIDE DEF g
  <2>9. g = [i \in 1 .. n + 1 |-> IF i = 1 THEN texts[i] ELSE g[i - 1] \o texts[i]]
    BY <2>7, <2>8, Zenon
  <2>10. Joins(g, texts)
    BY <2>9, Zenon DEF Joins
  <2>11. QED BY <2>10, Zenon
<1>3. S = Nat
  <2> HIDE DEF S
  <2>1. S \in SUBSET Nat
    BY DEF S
  <2>2. QED BY <1>1, <1>2, <2>1, InductiveSet
<1>4. QED BY <1>3, LenProperties

LEMMA FlattenIs ==
    ASSUME NEW A, NEW texts \in Seq(Seq(A)), Len(texts) # 0
    PROVE  \E f : Joins(f, texts) /\ FlattenSeq(texts) = f[Len(texts)]
<1>1. FlattenSeq(texts) = (CHOOSE f : Joins(f, texts))[Len(texts)]
  BY DEF FlattenSeq, Joins
<1>2. Joins(CHOOSE f : Joins(f, texts), texts)
  BY JoinExists
<1>3. QED BY <1>1, <1>2

LEMMA JoinAgrees ==
    ASSUME NEW A, NEW texts \in Seq(Seq(A)), NEW longer \in Seq(Seq(A)),
           NEW f, NEW g, Joins(f, texts), Joins(g, longer),
           NEW m \in Nat, m # 0, m <= Len(texts), m <= Len(longer),
           \A i \in 1 .. m : longer[i] = texts[i]
    PROVE  g[m] = f[m]
<1> DEFINE S == {n \in Nat : n \in 1 .. m => g[n] = f[n]}
<1>1. /\ Len(texts) \in Nat /\ Len(longer) \in Nat
      /\ \A i \in 1 .. Len(texts) :
            f[i] = IF i = 1 THEN texts[i] ELSE f[i - 1] \o texts[i]
      /\ \A i \in 1 .. Len(longer) :
            g[i] = IF i = 1 THEN longer[i] ELSE g[i - 1] \o longer[i]
  BY JoinValues
<1>2. 0 \in S
  OBVIOUS
<1>3. ASSUME NEW n \in S PROVE n + 1 \in S
  <2> SUFFICES ASSUME n + 1 \in 1 .. m PROVE g[n + 1] = f[n + 1]
    OBVIOUS
  <2>1. /\ n \in Nat /\ n + 1 \in 1 .. Len(texts) /\ n + 1 \in 1 .. Len(longer)
        /\ n + 1 - 1 = n /\ (n + 1 = 1 <=> n = 0)
    <3>1. Len(texts) \in Nat /\ Len(longer) \in Nat /\ n \in Nat
      BY LenProperties
    <3>2. QED BY <3>1
  <2>2. longer[n + 1] = texts[n + 1]
    OBVIOUS
  <2>3. n # 0 => g[n] = f[n]
    OBVIOUS
  <2>4. /\ f[n + 1] = IF n + 1 = 1 THEN texts[n + 1] ELSE f[n + 1 - 1] \o texts[n + 1]
        /\ g[n + 1] = IF n + 1 = 1 THEN longer[n + 1] ELSE g[n + 1 - 1] \o longer[n + 1]
    BY <1>1, <2>1
  <2>5. QED BY <2>1, <2>2, <2>3, <2>4
<1>4. S = Nat
  <2> HIDE DEF S
  <2>1. S \in SUBSET Nat
    BY DEF S
  <2>2. QED BY <1>2, <1>3, <2>1, InductiveSet
<1>5. m \in S
  BY <1>4
<1>6. QED BY <1>5

LEMMA FlattenEmpty == FlattenSeq(<< >>) = << >>
BY DEF FlattenSeq

LEMMA FlattenAppend ==
    ASSUME NEW A, NEW texts \in Seq(Seq(A)), NEW final \in Seq(A)
    PROVE  FlattenSeq(Append(texts, final)) = IF texts = << >> THEN final
                                              ELSE FlattenSeq(texts) \o final
<1>1. /\ Append(texts, final) \in Seq(Seq(A))
      /\ Len(texts) \in Nat /\ Len(Append(texts, final)) = Len(texts) + 1
      /\ \A i \in 1 .. Len(texts) : Append(texts, final)[i] = texts[i]
      /\ Append(texts, final)[Len(texts) + 1] = final
  BY LenProperties, AppendProperties
<1>2. ASSUME NEW longer \in Seq(Seq(A)), longer = Append(texts, final)
      PROVE  FlattenSeq(longer) = IF texts = << >> THEN final
                                  ELSE FlattenSeq(texts) \o final
  <2>1. PICK m \in Nat : m = Len(texts)
    BY <1>1
  <2>2. /\ Len(longer) = m + 1 /\ longer[m + 1] = final
        /\ \A i \in 1 .. m : longer[i] = texts[i]
        /\ m = 0 <=> texts = << >>
    BY <1>1, <1>2, <2>1, EmptySeq
  <2>3. m + 1 # 0 /\ m + 1 \in 1 .. m + 1 /\ m + 1 - 1 = m /\ (m + 1 = 1 <=> m = 0)
        /\ m <= Len(texts) /\ m <= Len(longer)
    BY <2>1, <2>2
  <2>4. PICK g : Joins(g, longer) /\ FlattenSeq(longer) = g[m + 1]
    BY <2>2, <2>3, FlattenIs
  <2>5. \A i \in 1 .. Len(longer) :
            g[i] = IF i = 1 THEN longer[i] ELSE g[i - 1] \o longer[i]
    BY <2>4, JoinValues
  <2>6. g[m + 1] = IF m + 1 = 1 THEN longer[m + 1] ELSE g[m + 1 - 1] \o longer[m + 1]
    BY <2>2, <2>3, <2>5
  <2>7. CASE m = 0
    BY <2>2, <2>3, <2>4, <2>6, <2>7
  <2>8. CASE m # 0
    <3>1. PICK f : Joins(f, texts) /\ FlattenSeq(texts) = f[m]
      BY <2>1, <2>8, FlattenIs
    <3>2. g[m] = f[m]
      <4>1. \A i \in 1 .. m : longer[i] = texts[i]
        BY <2>2
      <4>2. Joins(f, texts) /\ Joins(g, longer) /\ m <= Len(texts) /\ m <= Len(longer)
        BY <2>3, <2>4, <3>1
      <4>3. QED BY <2>8, <4>1, <4>2, JoinAgrees
    <3>3. QED BY <2>2, <2>3, <2>4, <2>6, <2>8, <3>1, <3>2
  <2>9. QED BY <2>7, <2>8
<1>3. QED BY <1>1, <1>2

LEMMA FlattenType ==
    ASSUME NEW A PROVE \A texts \in Seq(Seq(A)) : FlattenSeq(texts) \in Seq(A)
<1> DEFINE S == {n \in Nat : \A texts \in Seq(Seq(A)) :
                                Len(texts) = n => FlattenSeq(texts) \in Seq(A)}
<1>1. 0 \in S
  BY FlattenEmpty, EmptySeq
<1>2. ASSUME NEW n \in S PROVE n + 1 \in S
  <2> SUFFICES ASSUME NEW texts \in Seq(Seq(A)), Len(texts) = n + 1
               PROVE  FlattenSeq(texts) \in Seq(A)
    OBVIOUS
  <2>1. PICK start \in Seq(Seq(A)), final \in Seq(A) : texts = Append(start, final)
    <3>1. texts # << >>
      BY EmptySeq
    <3>2. QED BY <3>1, SequenceEmptyOrAppend
  <2>2. FlattenSeq(start) \in Seq(A)
    <3>1. Len(start) = n
      BY <2>1, AppendProperties, LenProperties
    <3>2. QED BY <2>1, <3>1
  <2>3. FlattenSeq(texts) = final \/ FlattenSeq(texts) = FlattenSeq(start) \o final
    BY <2>1, FlattenAppend
  <2>4. QED BY <2>2, <2>3, ConcatProperties
<1>3. S = Nat
  <2> HIDE DEF S
  <2>1. S \in SUBSET Nat
    BY DEF S
  <2>2. QED BY <1>1, <1>2, <2>1, InductiveSet
<1>4. QED BY <1>3, LenProperties

\* What is appended to the segments is appended to their text.
LEMMA FlattenLast ==
    ASSUME NEW A, NEW texts \in Seq(Seq(A)), NEW final \in Seq(A)
    PROVE  FlattenSeq(Append(texts, final)) = FlattenSeq(texts) \o final
<1>1. CASE texts = << >>
  BY <1>1, FlattenAppend, FlattenEmpty, ConcatEmptySeq
<1>2. CASE texts # << >>
  BY <1>2, FlattenAppend
<1>3. QED BY <1>1, <1>2

-----------------------------------------------------------------------------
(* Visible. *)

LEMMA VisibleEmpty == Visible(<< >>) = << >>
<1>1. [i \in DOMAIN << >> |-> VisiblePart(<< >>[i])] = << >>
  OBVIOUS
<1>2. QED BY <1>1, FlattenEmpty, Zenon DEF Visible

LEMMA VisibleAppend ==
    ASSUME NEW A, NEW text \in Seq(A), NEW byte \in A
    PROVE  Visible(Append(text, byte)) =
              IF byte \in White THEN Visible(text) ELSE Append(Visible(text), byte)
<1> DEFINE parts == [i \in DOMAIN text |-> VisiblePart(text[i])]
           longer == Append(text, byte)
           all == [i \in DOMAIN longer |-> VisiblePart(longer[i])]
<1>1. \A b \in A : VisiblePart(b) \in Seq(A)
  BY DEF VisiblePart
<1>2. parts \in Seq(Seq(A)) /\ VisiblePart(byte) \in Seq(A)
  <2>1. \A i \in 1 .. Len(text) : text[i] \in A /\ VisiblePart(text[i]) \in Seq(A)
    BY <1>1
  <2>2. DOMAIN text = 1 .. Len(text) /\ Len(text) \in Nat
    OBVIOUS
  <2>3. parts \in [1 .. Len(text) -> Seq(A)]
    BY <2>1, <2>2
  <2>4. QED BY <1>1, <2>2, <2>3
<1>3. all = Append(parts, VisiblePart(byte))
  OBVIOUS
<1>4. Visible(longer) = FlattenSeq(all) /\ Visible(text) = FlattenSeq(parts)
  BY Zenon DEF Visible
<1> HIDE DEF parts, all, longer
<1>5. Visible(longer) = Visible(text) \o VisiblePart(byte)
  BY <1>2, <1>3, <1>4, FlattenLast
<1>6. Visible(text) \in Seq(A)
  BY <1>2, <1>4, FlattenType
<1>7. QED BY <1>5, <1>6 DEF VisiblePart, longer

LEMMA VisibleType ==
    ASSUME NEW A PROVE \A text \in Seq(A) : Visible(text) \in Seq(A)
<1> DEFINE S == {n \in Nat : \A text \in Seq(A) :
                                Len(text) = n => Visible(text) \in Seq(A)}
<1>1. 0 \in S
  BY VisibleEmpty, EmptySeq
<1>2. ASSUME NEW n \in S PROVE n + 1 \in S
  <2> SUFFICES ASSUME NEW text \in Seq(A), Len(text) = n + 1
               PROVE  Visible(text) \in Seq(A)
    OBVIOUS
  <2>1. PICK start \in Seq(A), byte \in A : text = Append(start, byte)
    <3>1. text # << >>
      BY EmptySeq
    <3>2. QED BY <3>1, SequenceEmptyOrAppend, Zenon
  <2>2. PICK shown \in Seq(A) : shown = Visible(start)
    BY <2>1, AppendProperties, LenProperties
  <2>3. Visible(text) = shown \/ Visible(text) = Append(shown, byte)
    BY <2>1, <2>2, VisibleAppend
  <2>4. Append(shown, byte) \in Seq(A)
    BY AppendProperties
  <2>5. QED BY <2>3, <2>4, Zenon
<1>3. S = Nat
  <2> HIDE DEF S
  <2>1. S \in SUBSET Nat
    BY DEF S
  <2>2. QED BY <1>1, <1>2, <2>1, InductiveSet
<1>4. QED BY <1>3, LenProperties

\* It does not matter which two of three texts are put together first.
Group(first, second, third) ==
    (first \o second) \o third = first \o (second \o third)

LEMMA Grouped ==
    ASSUME NEW A, NEW first \in Seq(A), NEW second \in Seq(A), NEW third \in Seq(A)
    PROVE  Group(first, second, third)
BY ConcatAssociative DEF Group

\* A byte appended to the second of two texts is appended to both.
LEMMA ConcatAppend ==
    ASSUME NEW A, NEW text \in Seq(A), NEW more \in Seq(A), NEW byte \in A
    PROVE  text \o Append(more, byte) = Append(text \o more, byte)
<1>1. PICK final \in Seq(A) : final = <<byte>>
  <2>1. <<byte>> \in Seq(A)
    OBVIOUS
  <2>2. QED BY <2>1, Zenon
<1>2. /\ Append(more, byte) = more \o final
      /\ Append(text \o more, byte) = (text \o more) \o final
  BY <1>1, ConcatProperties, AppendIsConcat
<1>3. (text \o more) \o final = text \o (more \o final)
  BY Grouped DEF Group
<1>4. QED BY <1>2, <1>3, Zenon

LEMMA VisibleConcat ==
    ASSUME NEW A, NEW text \in Seq(A)
    PROVE  \A more \in Seq(A) :
              Visible(text \o more) = Visible(text) \o Visible(more)
<1> DEFINE S == {n \in Nat : \A more \in Seq(A) : Len(more) = n =>
                    Visible(text \o more) = Visible(text) \o Visible(more)}
<1>1. 0 \in S
  <2> SUFFICES ASSUME NEW more \in Seq(A), Len(more) = 0
               PROVE  Visible(text \o more) = Visible(text) \o Visible(more)
    OBVIOUS
  <2>1. more = << >> /\ text \o << >> = text
    BY EmptySeq, ConcatEmptySeq
  <2>2. Visible(text) \o << >> = Visible(text)
    BY VisibleType, ConcatEmptySeq
  <2>3. QED BY <2>1, <2>2, VisibleEmpty, Zenon
<1>2. ASSUME NEW n \in S PROVE n + 1 \in S
  <2> SUFFICES ASSUME NEW more \in Seq(A), Len(more) = n + 1
               PROVE  Visible(text \o more) = Visible(text) \o Visible(more)
    OBVIOUS
  <2>1. PICK start \in Seq(A), byte \in A : more = Append(start, byte)
    BY EmptySeq, SequenceEmptyOrAppend
  <2>2. Visible(text \o start) = Visible(text) \o Visible(start)
    BY <2>1, AppendProperties, LenProperties
  <2>3. text \o more = Append(text \o start, byte) /\ text \o start \in Seq(A)
    BY <2>1, ConcatAppend, ConcatProperties
  <2>4. Visible(text \o more) = IF byte \in White THEN Visible(text \o start)
                                ELSE Append(Visible(text \o start), byte)
    BY <2>3, VisibleAppend
  <2>5. Visible(more) = IF byte \in White THEN Visible(start)
                        ELSE Append(Visible(start), byte)
    BY <2>1, VisibleAppend
  <2>6. Visible(text) \o Append(Visible(start), byte)
          = Append(Visible(text) \o Visible(start), byte)
    BY VisibleType, ConcatAppend
  <2>7. QED BY <2>2, <2>4, <2>5, <2>6
<1>3. S = Nat
  <2> HIDE DEF S
  <2>1. S \in SUBSET Nat
    BY DEF S
  <2>2. QED BY <1>1, <1>2, <2>1, InductiveSet
<1>4. QED BY <1>3, LenProperties

\* Of a text of white space nothing is visible.
LEMMA VisibleBlank ==
    ASSUME NEW A
    PROVE  \A text \in Seq(A) :
              (\A i \in 1 .. Len(text) : text[i] \in White) => Visible(text) = << >>
<1> DEFINE S == {n \in Nat : \A text \in Seq(A) :
                    Len(text) = n /\ (\A i \in 1 .. n : text[i] \in White)
                       => Visible(text) = << >>}
<1>1. 0 \in S
  BY VisibleEmpty, EmptySeq
<1>2. ASSUME NEW n \in S PROVE n + 1 \in S
  <2> SUFFICES ASSUME NEW text \in Seq(A), Len(text) = n + 1,
                      \A i \in 1 .. n + 1 : text[i] \in White
               PROVE  Visible(text) = << >>
    OBVIOUS
  <2>1. PICK start \in Seq(A), byte \in A : text = Append(start, byte)
    BY EmptySeq, SequenceEmptyOrAppend
  <2>2. /\ Len(start) = n /\ byte = text[n + 1]
        /\ \A i \in 1 .. n : start[i] = text[i]
    BY <2>1, AppendProperties, LenProperties
  <2>3. byte \in White /\ \A i \in 1 .. n : start[i] \in White
    BY <2>2
  <2>4. Visible(start) = << >>
    BY <2>2, <2>3
  <2>5. QED BY <2>1, <2>3, <2>4, VisibleAppend
<1>3. S = Nat
  <2> HIDE DEF S
  <2>1. S \in SUBSET Nat
    BY DEF S
  <2>2. QED BY <1>1, <1>2, <2>1, InductiveSet
<1>4. QED BY <1>3, LenProperties

Blank(text) == \A i \in 1 .. Len(text) : text[i] \in White

\* What is trimmed off a text is white space at its two ends.
LEMMA TrimSplits ==
    ASSUME NEW A, NEW text \in Seq(A)
    PROVE  /\ TrimSpace(text) \in Seq(A)
           /\ \E before, after \in Seq(A) :
                 /\ Blank(before) /\ Blank(after)
                 /\ text = (before \o TrimSpace(text)) \o after
<1> DEFINE kept == {i \in 1 .. Len(text) : text[i] \notin White}
<1>1. Len(text) \in Nat /\ kept \in SUBSET (1 .. Len(text))
  BY LenProperties
<1>2. CASE kept = {}
  <2>1. TrimSpace(text) = << >> /\ Blank(text)
    BY <1>2 DEF TrimSpace, Blank
  <2>2. << >> \in Seq(A) /\ Blank(<< >>) /\ text = (text \o << >>) \o << >>
    BY EmptySeq, ConcatEmptySeq DEF Blank
  <2>3. QED BY <2>1, <2>2
<1>3. CASE kept # {}
  <2>1. /\ TrimSpace(text) = SubSeq(text, Min(kept), Max(kept))
        /\ \A i \in 1 .. Len(text) : text[i] \notin White => i \in kept
    BY <1>3 DEF TrimSpace
  <2> HIDE DEF kept
  <2>2. PICK first \in 1 .. Len(text), final \in 1 .. Len(text) :
            /\ first = Min(kept) /\ final = Max(kept) /\ first <= final
            /\ \A i \in kept : first <= i /\ i <= final
    BY <1>1, <1>3, MinMaxOfPlaces
  <2> DEFINE before == SubSeq(text, 1, first - 1)
             middle == SubSeq(text, first, final)
             after  == SubSeq(text, final + 1, Len(text))
  <2>3. /\ before \in Seq(A) /\ middle \in Seq(A) /\ after \in Seq(A)
        /\ Blank(before) /\ Blank(after)
    <3>1. /\ before \in Seq(A) /\ Len(before) = first - 1
          /\ \A i \in 1 .. first - 1 : before[i] = text[i]
      <4>1. \A i \in 1 .. first - 1 : text[i] \in A
        BY <1>1, ElementOfSeq
      <4>2. QED BY <1>1, <4>1, SubSeqProperties
    <3>2. middle \in Seq(A)
      <4>1. \A i \in first .. final : text[i] \in A
        BY <1>1, ElementOfSeq
      <4>2. QED BY <1>1, <2>2, <4>1, SubSeqProperties
    <3>3. /\ after \in Seq(A) /\ Len(after) = Len(text) - final
          /\ \A i \in 1 .. Len(text) - final : after[i] = text[final + i]
      <4>1. \A i \in final + 1 .. Len(text) : text[i] \in A
        BY <1>1, ElementOfSeq
      <4>2. QED BY <1>1, <4>1, SubSeqProperties
    <3>0. \A i \in 1 .. Len(text) : i < first \/ final < i => text[i] \in White
      BY SMTT(30), <1>1, <2>1, <2>2
    <3>4. \A i \in 1 .. first - 1 : text[i] \in White
      BY <1>1, <3>0
    <3>5. \A i \in 1 .. Len(text) - final : text[final + i] \in White
      BY <1>1, <3>0
    <3>6. QED BY <3>1, <3>2, <3>3, <3>4, <3>5 DEF Blank
  <2>4. text = (before \o middle) \o after
    <3>1. before \o middle = SubSeq(text, 1, final)
      <4>1. /\ first - 1 \in 0 .. Len(text) /\ final \in first - 1 .. Len(text)
            /\ 1 \in 1 .. Len(text) + 1 /\ first - 1 \in 1 - 1 .. Len(text)
            /\ first - 1 + 1 = first
        BY <1>1, <2>2
      <4>2. SubSeq(text, 1, first - 1) \o SubSeq(text, first - 1 + 1, final)
               = SubSeq(text, 1, final)
        BY <4>1, ConcatAdjacentSubSeq
      <4>3. QED BY <4>1, <4>2
    <3>2. SubSeq(text, 1, final) \o after = SubSeq(text, 1, Len(text))
      BY <1>1, ConcatAdjacentSubSeq
    <3>3. SubSeq(text, 1, Len(text)) = text
      BY <1>1, SubSeqFull
    <3>4. QED BY <3>1, <3>2, <3>3
  <2> HIDE DEF before, middle, after
  <2>5. TrimSpace(text) = middle
    BY <2>1, <2>2 DEF middle
  <2>6. QED BY <2>3, <2>4, <2>5
<1>4. QED BY <1>2, <1>3

\* Trimming takes nothing visible away.
LEMMA VisibleTrim ==
    ASSUME NEW A, NEW text \in Seq(A)
    PROVE  Visible(TrimSpace(text)) = Visible(text)
<1>1. PICK before \in Seq(A), after \in Seq(A) :
          /\ Blank(before) /\ Blank(after)
          /\ text = (before \o TrimSpace(text)) \o after
  BY TrimSplits
<1>2. PICK middle \in Seq(A) :
          middle = TrimSpace(text) /\ text = (before \o middle) \o after
  BY <1>1, TrimSplits
<1>3. Visible(before) = << >> /\ Visible(after) = << >>
  BY <1>1, VisibleBlank DEF Blank
<1>4. /\ before \o middle \in Seq(A)
      /\ Visible(text) = Visible(before \o middle) \o Visible(after)
      /\ Visible(before \o middle) = Visible(before) \o Visible(middle)
  <2>1. before \o middle \in Seq(A)
    BY ConcatProperties
  <2>2. QED BY <1>2, <2>1, VisibleConcat
<1>5. PICK m \in Seq(A) : m = Visible(middle)
  BY VisibleType
<1>6. (<< >> \o m) \o << >> = m
  BY ConcatEmptySeq
<1>7. Visible(text) = m
  BY <1>3, <1>4, <1>5, <1>6, Zenon
<1>8. QED BY <1>2, <1>5, <1>7, Zenon

-----------------------------------------------------------------------------
(* Nothing is lost: what was shown and what is left make up what was written. *)

LEMMA SentTexts == TypeOK => sent \in Seq(Seq(Bytes))
<1> SUFFICES ASSUME TypeOK PROVE sent \in Seq(Seq(Bytes))
  OBVIOUS
<1>1. sent \in [1 .. Len(sent) -> Seq(Bytes)] /\ Len(sent) \in Nat
  BY LenProperties DEF TypeOK
<1>2. QED BY <1>1

\* Trimming the end of a text that something follows takes nothing visible away.
LEMMA TrimWithin ==
    ASSUME NEW before \in Seq(Bytes), NEW text \in Seq(Bytes), NEW after \in Seq(Bytes)
    PROVE  Visible((before \o TrimSpace(text)) \o after)
              = Visible(before \o (text \o after))
<1> DEFINE trimmed == TrimSpace(text)
<1>1. trimmed \in Seq(Bytes) /\ Visible(trimmed) = Visible(text)
  BY TrimProperties, VisibleTrim
<1> HIDE DEF trimmed
<1>2. before \o trimmed \in Seq(Bytes) /\ text \o after \in Seq(Bytes)
  BY <1>1, ConcatProperties
<1>3. /\ Visible((before \o trimmed) \o after)
            = Visible(before \o trimmed) \o Visible(after)
      /\ Visible(before \o trimmed) = Visible(before) \o Visible(trimmed)
  BY <1>1, <1>2, VisibleConcat
<1>4. /\ Visible(before \o (text \o after)) = Visible(before) \o Visible(text \o after)
      /\ Visible(text \o after) = Visible(text) \o Visible(after)
  BY <1>2, VisibleConcat
<1>5. (Visible(before) \o Visible(text)) \o Visible(after)
        = Visible(before) \o (Visible(text) \o Visible(after))
  <2>1. PICK b \in Seq(Bytes), t \in Seq(Bytes), f \in Seq(Bytes) :
            b = Visible(before) /\ t = Visible(text) /\ f = Visible(after)
    BY VisibleType
  <2>2. (b \o t) \o f = b \o (t \o f)
    OBVIOUS
  <2>3. QED BY <2>1, <2>2, Zenon
<1>6. QED BY <1>1, <1>3, <1>4, <1>5 DEF trimmed

KeptInv ==
    /\ Visible(FlattenSeq(sent) \o buf) = Visible(written)
    /\ Visible(total) = Visible(FlattenSeq(sent))

LEMMA InitKept == ASSUME buf = << >>, total = << >>, sent = << >>, written = << >>
                  PROVE  KeptInv
<1>1. << >> \o << >> = << >>
  OBVIOUS
<1>2. QED BY <1>1, FlattenEmpty DEF KeptInv

LEMMA WriteKept ==
    ASSUME TypeOK, KeptInv, NEW chunk \in Chunks, Write(chunk) PROVE KeptInv'
<1> DEFINE text == FlattenSeq(sent)
<1>1. /\ chunk \in Seq(Bytes) /\ buf \in Seq(Bytes) /\ written \in Seq(Bytes)
      /\ text \in Seq(Bytes)
  BY ChunksAssumption, SentTexts, FlattenType DEF TypeOK
<1>2. /\ UNCHANGED <<sent, total>>
      /\ buf' = buf \o chunk /\ written' = written \o chunk
  BY DEF Write
<1> HIDE DEF text
<1>3. text \o (buf \o chunk) = (text \o buf) \o chunk /\ text \o buf \in Seq(Bytes)
  <2>1. Group(text, buf, chunk)
    BY <1>1, Grouped
  <2>2. text \o buf \in Seq(Bytes)
    BY <1>1, ConcatProperties
  <2>3. QED BY <2>1, <2>2, Zenon DEF Group
<1>4. /\ Visible((text \o buf) \o chunk) = Visible(text \o buf) \o Visible(chunk)
      /\ Visible(written \o chunk) = Visible(written) \o Visible(chunk)
  BY <1>1, <1>3, VisibleConcat
<1>5. QED BY <1>2, <1>3, <1>4 DEF KeptInv, text

\* A segment leaves the buffer with what is visible at the buffer's beginning.
LEMMA SegmentKept ==
    ASSUME TypeOK, KeptInv, NEW start \in Seq(Bytes), NEW rest \in Seq(Bytes),
           buf = start \o rest, buf' = rest, UNCHANGED written,
           NEW break \in Seq(Bytes), Visible(break) = << >>,
           IF TrimSpace(start) # << >>
           THEN /\ total' = (total \o TrimSpace(start)) \o break
                /\ sent' = Append(sent, TrimSpace(start))
           ELSE UNCHANGED <<total, sent>>
    PROVE  KeptInv'
<1> DEFINE text == FlattenSeq(sent)
           segment == TrimSpace(start)
<1>1. /\ sent \in Seq(Seq(Bytes)) /\ text \in Seq(Bytes) /\ segment \in Seq(Bytes)
      /\ total \in Seq(Bytes) /\ Visible(segment) = Visible(start)
  BY SentTexts, FlattenType, TrimProperties, VisibleTrim DEF TypeOK
<1>2. Visible((text \o segment) \o rest) = Visible(written)
  BY <1>1, TrimWithin DEF KeptInv
<1>3. Visible(total) = Visible(text)
  BY DEF KeptInv
<1>4. CASE segment # << >>
  <2>1. FlattenSeq(sent') = text \o segment /\ total' = (total \o segment) \o break
    BY <1>1, <1>4, FlattenLast
  <2> HIDE DEF text, segment
  <2>2. total \o segment \in Seq(Bytes)
    BY <1>1, ConcatProperties
  <2>3. /\ Visible(total') = Visible(total \o segment) \o Visible(break)
        /\ Visible(total \o segment) = Visible(total) \o Visible(segment)
        /\ Visible(text \o segment) = Visible(text) \o Visible(segment)
    BY <1>1, <2>1, <2>2, VisibleConcat
  <2>4. Visible(total') = Visible(total \o segment)
    BY <2>2, <2>3, VisibleType, ConcatEmptySeq
  <2>5. QED BY <1>2, <1>3, <2>1, <2>3, <2>4 DEF KeptInv
<1>5. CASE segment = << >>
  <2>1. text \o segment = text /\ UNCHANGED <<total, sent>>
    BY <1>1, <1>5, ConcatEmptySeq
  <2>2. QED BY <1>2, <1>3, <2>1 DEF KeptInv
<1>6. QED BY <1>4, <1>5

LEMMA SendSegmentKept == ASSUME TypeOK, KeptInv, SendSegment PROVE KeptInv'
<1>1. buf \in Seq(Bytes) /\ total \in Seq(Bytes) /\ <<"nl">> \in Seq(Bytes)
  BY DEF TypeOK, Bytes, White
<1>2. PICK cut \in 1 .. Len(buf) :
          /\ IF TrimSpace(SubSeq(buf, 1, cut)) # << >>
             THEN /\ total' = total \o TrimSpace(SubSeq(buf, 1, cut)) \o <<"nl">>
                  /\ sent' = Append(sent, TrimSpace(SubSeq(buf, 1, cut)))
             ELSE UNCHANGED <<total, sent>>
          /\ buf' = Remainder(buf, cut)
  BY DEF SendSegment
<1>3. PICK start \in Seq(Bytes) : start = SubSeq(buf, 1, cut)
  BY <1>1, CutProperties
<1>4. PICK rest \in Seq(Bytes) : rest = Remainder(buf, cut)
  BY <1>1, CutProperties
<1>5. buf = start \o rest
  <2>1. /\ Len(buf) \in Nat /\ 1 \in 1 .. Len(buf) + 1
        /\ cut \in 1 - 1 .. Len(buf) /\ Len(buf) \in cut .. Len(buf)
    BY <1>1, LenProperties
  <2>2. SubSeq(buf, 1, cut) \o SubSeq(buf, cut + 1, Len(buf)) = SubSeq(buf, 1, Len(buf))
    BY <1>1, <2>1, ConcatAdjacentSubSeq
  <2>3. QED BY <1>1, <1>3, <1>4, <2>2, SubSeqFull DEF Remainder
<1>6. Visible(<<"nl">>) = << >>
  <2>1. <<"nl">> = Append(<< >>, "nl") /\ << >> \in Seq(Bytes) /\ "nl" \in Bytes
    BY DEF Bytes, White
  <2>2. Visible(Append(<< >>, "nl")) = << >>
    BY <2>1, VisibleAppend, VisibleEmpty DEF White
  <2>3. QED BY <2>1, <2>2
<1>7. UNCHANGED written
  BY DEF SendSegment
<1>8. IF TrimSpace(start) # << >>
      THEN /\ total' = (total \o TrimSpace(start)) \o <<"nl">>
           /\ sent' = Append(sent, TrimSpace(start))
      ELSE UNCHANGED <<total, sent>>
  <2>1. \A text \in Seq(Bytes) : total \o text \o <<"nl">> = (total \o text) \o <<"nl">>
    OBVIOUS
  <2>2. QED BY <1>2, <1>3, <2>1
<1>9. buf' = rest
  BY <1>2, <1>4
<1>10. QED BY <1>1, <1>5, <1>6, <1>7, <1>8, <1>9, SegmentKept

LEMMA FlushKept == ASSUME TypeOK, KeptInv, Flush PROVE KeptInv'
<1>1. buf \in Seq(Bytes) /\ total \in Seq(Bytes) /\ << >> \in Seq(Bytes)
  BY DEF TypeOK
<1>2. TrimSpace(buf) \in Seq(Bytes)
  BY <1>1, TrimProperties
<1>3. /\ buf = buf \o << >>
      /\ (total \o TrimSpace(buf)) \o << >> = total \o TrimSpace(buf)
  BY <1>1, <1>2, ConcatEmptySeq, ConcatProperties
<1>4. /\ buf' = << >> /\ UNCHANGED written
      /\ IF TrimSpace(buf) # << >>
         THEN total' = total \o TrimSpace(buf) /\ sent' = Append(sent, TrimSpace(buf))
         ELSE UNCHANGED <<total, sent>>
  BY DEF Flush, BufAfterFlush
<1>5. QED BY <1>1, <1>3, <1>4, VisibleEmpty, SegmentKept

\* White space apart, what was sent and what is still in the buffer are the text
\* that the agent wrote, in order and once, and the history gets what was sent:
\* for every threshold, every agent and every division of its text.
THEOREM NothingIsLost == Spec => []NothingLost
<1>1. Init => KeptInv
  BY InitKept DEF Init
<1>2. TypeOK /\ KeptInv /\ [Next]_vars => KeptInv'
  <2> SUFFICES ASSUME TypeOK, KeptInv, [Next]_vars PROVE KeptInv'
    OBVIOUS
  <2>1. CASE NewBuffer
    <3>1. << >> \o << >> = << >>
      OBVIOUS
    <3>2. QED BY <2>1, <3>1, FlattenEmpty DEF NewBuffer, KeptInv
  <2>2. CASE WriteReturns \/ UNCHANGED vars
    BY <2>2 DEF WriteReturns, vars, KeptInv
  <2>3. QED BY <2>1, <2>2, WriteKept, SendSegmentKept, FlushKept DEF Next
<1>3. TypeOK /\ KeptInv => NothingLost
  BY VisibleTrim DEF TypeOK, KeptInv, NothingLost, AllText
<1>4. QED BY <1>1, <1>2, <1>3, TypeCorrect, PTL DEF Spec

-----------------------------------------------------------------------------
(* sendReply uses the buffer. *)

\* The delivery only waits for the stream buffer and takes what it sends: each
\* of its steps is a step of the buffer or leaves it alone, so that all that
\* holds of the buffer holds here.
THEOREM DeliveryUsesBuffer == DeliverySpec => Spec
<1>1. DeliveryInit => Init
  BY DEF DeliveryInit
<1>2. [DeliveryNext]_<<vars, deliveryVars>> => [Next]_vars
  BY DEF DeliveryNext, GivesSegment, SendPiece, Next
<1>3. QED BY <1>1, <1>2, PTL DEF DeliverySpec, Spec

-----------------------------------------------------------------------------
(* Line breaks. *)

\* All that a text can be made of here, and what is left of it as characters.
Symbols == Bytes \cup {"open", "file", "under", "close", "wide", "bad"}
Characters == Symbols \ {"lead", "trail"}

NoTriple(text) == \A i \in 1 .. Len(text) : ~ThirdBreak(text, i)

EndsBroken(text) == text # << >> /\ text[Len(text)] = "nl"
EndsTwiceBroken(text) ==
    Len(text) > 1 /\ text[Len(text)] = "nl" /\ text[Len(text) - 1] = "nl"

\* The first n texts.
LEMMA FirstTexts ==
    ASSUME NEW A, NEW texts \in Seq(A), NEW n \in Nat, n + 1 <= Len(texts)
    PROVE  /\ SubSeq(texts, 1, n) \in Seq(A)
           /\ SubSeq(texts, 1, n + 1) = Append(SubSeq(texts, 1, n), texts[n + 1])
           /\ texts[n + 1] \in A
OBVIOUS

\* The parts of a text stand each for a place in it: for one character, a line
\* break if there is one, or for none, where the place before has the same.
Parts(parts, text) ==
    /\ parts \in Seq(Seq(Symbols)) /\ Len(parts) = Len(text)
    /\ \A i \in 1 .. Len(text) :
          \/ \E c \in Symbols : parts[i] = <<c>> /\ (c = "nl" <=> text[i] = "nl")
          \/ /\ parts[i] = << >> /\ i > 1
             /\ text[i - 1] = "nl" <=> text[i] = "nl"

\* What the first n parts make has the breaks that the text has there.
FollowsText(out, text, n) ==
    /\ out \in Seq(Symbols)
    /\ n = 0 <=> out = << >>
    /\ n > 0 => /\ out[1] = "nl" <=> text[1] = "nl"
                /\ out[Len(out)] = "nl" <=> text[n] = "nl"
    /\ EndsTwiceBroken(out) => n > 1 /\ text[n] = "nl" /\ text[n - 1] = "nl"
    /\ NoTriple(out)

LEMMA FollowsFurther ==
    ASSUME NEW text \in Seq(Symbols), NEW n \in Nat, n + 1 <= Len(text),
           NEW out, FollowsText(out, text, n),
           NEW c \in Symbols, c = "nl" <=> text[n + 1] = "nl",
           ~ThirdBreak(text, n + 1)
    PROVE  FollowsText(Append(out, c), text, n + 1)
<1>1. out \in Seq(Symbols)
  BY DEF FollowsText
<1>2. PICK longer \in Seq(Symbols) : longer = Append(out, c)
  BY <1>1, AppendProperties
<1>3. PICK m \in Nat : m = Len(out)
  BY <1>1, LenProperties
<1>4. /\ Len(longer) = m + 1 /\ longer[m + 1] = c
      /\ \A i \in 1 .. m : longer[i] = out[i]
      /\ longer # << >> /\ (out = << >> <=> m = 0) /\ (n = 0 <=> m = 0)
  BY <1>1, <1>2, <1>3 DEF FollowsText
<1>5. longer[1] = "nl" <=> text[1] = "nl"
  <2>1. CASE n = 0
    BY <1>4, <2>1
  <2>2. CASE n > 0
    BY <1>4, <2>2 DEF FollowsText
  <2>3. QED BY <2>1, <2>2
<1>6. EndsTwiceBroken(longer) => n + 1 > 1 /\ text[n + 1] = "nl" /\ text[n] = "nl"
  <2> SUFFICES ASSUME EndsTwiceBroken(longer)
               PROVE  n + 1 > 1 /\ text[n + 1] = "nl" /\ text[n] = "nl"
    OBVIOUS
  <2>1. m + 1 > 1 /\ m + 1 - 1 = m /\ c = "nl" /\ longer[m] = "nl"
    BY <1>4 DEF EndsTwiceBroken
  <2>2. m > 0 /\ n > 0 /\ out[m] = "nl"
    BY <1>4, <2>1
  <2>3. text[n] = "nl"
    BY <1>3, <2>2 DEF FollowsText
  <2>4. QED BY <2>1, <2>2, <2>3
<1>7. NoTriple(longer)
  <2> SUFFICES ASSUME NEW i \in 1 .. m + 1, ThirdBreak(longer, i) PROVE FALSE
    BY <1>4 DEF NoTriple
  <2>1. i > 2 /\ longer[i - 2] = "nl" /\ longer[i - 1] = "nl" /\ longer[i] = "nl"
    BY DEF ThirdBreak
  <2>2. CASE i \in 1 .. m
    <3>1. i - 2 \in 1 .. m /\ i - 1 \in 1 .. m
      BY <2>1, <2>2
    <3>2. ThirdBreak(out, i)
      BY <1>4, <2>1, <2>2, <3>1 DEF ThirdBreak
    <3>3. QED BY <1>3, <2>2, <3>2 DEF FollowsText, NoTriple
  <2>3. CASE i = m + 1
    <3>1. m - 1 \in 1 .. m /\ m \in 1 .. m /\ i - 2 = m - 1 /\ i - 1 = m /\ m > 1
      BY <2>1, <2>3
    <3>2. EndsTwiceBroken(out) /\ c = "nl"
      BY <1>3, <1>4, <2>1, <2>3, <3>1 DEF EndsTwiceBroken
    <3>3. n > 1 /\ text[n] = "nl" /\ text[n - 1] = "nl"
      BY <3>2 DEF FollowsText
    <3>4. n + 1 - 2 = n - 1 /\ n + 1 - 1 = n /\ n + 1 > 2
      BY <3>3
    <3>5. QED BY <3>2, <3>3, <3>4 DEF ThirdBreak
  <2>4. QED BY <2>2, <2>3
<1>8. n + 1 # 0 /\ n + 1 - 1 = n
  OBVIOUS
<1>9. FollowsText(longer, text, n + 1)
  BY <1>4, <1>5, <1>6, <1>7, <1>8 DEF FollowsText
<1>10. QED BY <1>2, <1>9

LEMMA FollowsStill ==
    ASSUME NEW text \in Seq(Symbols), NEW n \in Nat, n > 0, n + 1 <= Len(text),
           NEW out, FollowsText(out, text, n),
           text[n] = "nl" <=> text[n + 1] = "nl"
    PROVE  FollowsText(out, text, n + 1)
<1>1. n + 1 # 0 /\ n + 1 - 1 = n /\ n + 1 > 1 /\ n # 0
  OBVIOUS
<1>2. EndsTwiceBroken(out) => text[n] = "nl" /\ text[n + 1] = "nl"
  BY DEF FollowsText
<1>3. QED BY <1>1, <1>2 DEF FollowsText

LEMMA NothingFollows == ASSUME NEW text PROVE FollowsText(<< >>, text, 0)
BY DEF FollowsText, EndsTwiceBroken, NoTriple

\* Parts that leave out third breaks in a row, and nothing else of the breaks,
\* make a text with the same beginning and the same end and no triple break.
LEMMA PartsFollow ==
    ASSUME NEW text \in Seq(Symbols), NEW parts, Parts(parts, text),
           \A i \in 1 .. Len(text) : parts[i] # << >> => ~ThirdBreak(text, i)
    PROVE  FollowsText(FlattenSeq(parts), text, Len(text))
<1> DEFINE Upto(n) == FlattenSeq(SubSeq(parts, 1, n))
           S == {n \in Nat : n <= Len(text) => FollowsText(Upto(n), text, n)}
<1>1. parts \in Seq(Seq(Symbols)) /\ Len(parts) = Len(text) /\ Len(text) \in Nat
  BY DEF Parts
<1>2. 0 \in S
  <2>1. SubSeq(parts, 1, 0) = << >>
    BY <1>1
  <2>2. Upto(0) = << >>
    BY <2>1, FlattenEmpty
  <2>3. QED BY <2>2, NothingFollows
<1>3. ASSUME NEW n \in S PROVE n + 1 \in S
  <2> SUFFICES ASSUME n + 1 <= Len(text) PROVE FollowsText(Upto(n + 1), text, n + 1)
    OBVIOUS
  <2>1. n \in Nat /\ n <= Len(text) /\ n + 1 \in 1 .. Len(text) /\ FollowsText(Upto(n), text, n)
    BY <1>1
  <2>2. Upto(n + 1) = Upto(n) \o parts[n + 1]
    <3>1. /\ SubSeq(parts, 1, n) \in Seq(Seq(Symbols)) /\ parts[n + 1] \in Seq(Symbols)
          /\ SubSeq(parts, 1, n + 1) = Append(SubSeq(parts, 1, n), parts[n + 1])
      BY <1>1, <2>1, FirstTexts
    <3>2. QED BY <3>1, FlattenLast
  <2>3. Upto(n) \in Seq(Symbols)
    BY <2>1 DEF FollowsText
  <2> HIDE DEF Upto
  <2>4. CASE parts[n + 1] = << >>
    <3>1. n + 1 > 1 /\ (text[n + 1 - 1] = "nl" <=> text[n + 1] = "nl")
      <4>1. \A c : <<c>> # << >>
        OBVIOUS
      <4>2. \A i \in 1 .. Len(text) :
                parts[i] = << >> => i > 1 /\ (text[i - 1] = "nl" <=> text[i] = "nl")
        BY <4>1, Zenon DEF Parts
      <4>3. QED BY <2>1, <2>4, <4>2
    <3>2. n > 0 /\ (text[n] = "nl" <=> text[n + 1] = "nl")
      BY <2>1, <3>1
    <3>3. Upto(n + 1) = Upto(n)
      BY <2>2, <2>3, <2>4, ConcatEmptySeq
    <3>4. QED BY <2>1, <3>2, <3>3, FollowsStill
  <2>5. CASE parts[n + 1] # << >>
    <3>1. PICK c \in Symbols : parts[n + 1] = <<c>> /\ (c = "nl" <=> text[n + 1] = "nl")
      BY <2>1, <2>5 DEF Parts
    <3>2. ~ThirdBreak(text, n + 1)
      BY <2>1, <2>5
    <3>3. Upto(n + 1) = Append(Upto(n), c)
      BY <2>2, <2>3, <3>1, AppendIsConcat
    <3>4. QED BY <2>1, <3>1, <3>2, <3>3, FollowsFurther
  <2>6. QED BY <2>4, <2>5
<1>4. S = Nat
  <2> HIDE DEF S
  <2>1. S \in SUBSET Nat
    BY DEF S
  <2>2. QED BY <1>2, <1>3, <2>1, InductiveSet
<1>5. FollowsText(Upto(Len(text)), text, Len(text))
  BY <1>1, <1>4
<1>6. SubSeq(parts, 1, Len(text)) = parts
  BY <1>1, SubSeqFull
<1>7. QED BY <1>5, <1>6

-----------------------------------------------------------------------------
(* The formatted text. *)

\* A text that begins and ends with something to read, with no blank lines in a
\* row.
Proper(text) ==
    /\ text \in Seq(Symbols) /\ text # << >> /\ NoTriple(text)
    /\ text[1] # "nl" /\ text[Len(text)] # "nl"

LEMMA TrimIsProper ==
    ASSUME NEW text \in Seq(Symbols), NoTriple(text), TrimSpace(text) # << >>
    PROVE  Proper(TrimSpace(text))
<1> DEFINE kept == {i \in 1 .. Len(text) : text[i] \notin White}
<1>1. Len(text) \in Nat /\ kept \in SUBSET (1 .. Len(text)) /\ kept # {}
  BY LenProperties DEF TrimSpace
<1>2. TrimSpace(text) = SubSeq(text, Min(kept), Max(kept))
  BY <1>1 DEF TrimSpace
<1>3. \A i \in kept : i \in 1 .. Len(text) /\ text[i] # "nl"
  BY DEF White
<1> HIDE DEF kept
<1>4. PICK first \in 1 .. Len(text), final \in 1 .. Len(text) :
          /\ first = Min(kept) /\ final = Max(kept) /\ first <= final
          /\ text[first] # "nl" /\ text[final] # "nl"
  BY <1>1, <1>3, MinMaxOfPlaces
<1> first \in Int /\ final \in Int /\ first >= 1 /\ first <= final
  BY <1>1, <1>4
<1>5. PICK trimmed : trimmed = SubSeq(text, first, final)
  OBVIOUS
<1>6. /\ trimmed \in Seq(Symbols) /\ Len(trimmed) = final - first + 1
      /\ \A i \in 1 .. final - first + 1 : trimmed[i] = text[first + i - 1]
  <2>1. \A i \in first .. final : text[i] \in Symbols
    BY <1>1, <1>4, ElementOfSeq
  <2>2. QED BY <1>4, <1>5, <2>1, SubSeqProperties
<1>7. trimmed # << >> /\ trimmed[1] # "nl" /\ trimmed[Len(trimmed)] # "nl"
  <2>1. /\ Len(trimmed) >= 1 /\ 1 \in 1 .. final - first + 1
        /\ final - first + 1 \in 1 .. final - first + 1
        /\ first + 1 - 1 = first /\ first + (final - first + 1) - 1 = final
    BY <1>6
  <2>2. trimmed[1] = text[first]
    BY <1>6, <2>1
  <2>3. trimmed[final - first + 1] = text[final]
    <3>1. trimmed[final - first + 1] = text[first + (final - first + 1) - 1]
      BY <1>6, <2>1
    <3>2. QED BY <2>1, <3>1
  <2>4. trimmed # << >>
    BY <1>6, <2>1, EmptySeq
  <2>5. QED BY <1>4, <1>6, <2>2, <2>3, <2>4
<1>8. NoTriple(trimmed)
  <2> SUFFICES ASSUME NEW i \in 1 .. final - first + 1, ThirdBreak(trimmed, i)
               PROVE  FALSE
    BY <1>6 DEF NoTriple
  <2>1. /\ i > 2 /\ i - 2 \in 1 .. final - first + 1 /\ i - 1 \in 1 .. final - first + 1
        /\ trimmed[i - 2] = "nl" /\ trimmed[i - 1] = "nl" /\ trimmed[i] = "nl"
    BY DEF ThirdBreak
  <2>2. PICK j \in 1 .. Len(text) : j = first + i - 1
    BY <1>1, <1>4
  <2>3. j > 2 /\ j - 1 = first + (i - 1) - 1 /\ j - 2 = first + (i - 2) - 1
    <3>1. i \in Int /\ i > 2 /\ j = first + i - 1
      BY <2>1, <2>2
    <3>2. QED BY <3>1
  <2>4. text[j - 2] = "nl" /\ text[j - 1] = "nl" /\ text[j] = "nl"
    BY <1>6, <2>1, <2>2, <2>3
  <2>5. QED BY <2>3, <2>4 DEF NoTriple, ThirdBreak
<1>9. QED BY <1>2, <1>4, <1>5, <1>6, <1>7, <1>8 DEF Proper

\* What is struck of a text leaves a text.
LEMMA StrikeType ==
    ASSUME NEW A, NEW text \in Seq(A), NEW struck
    PROVE  Strike(text, struck) \in Seq(A)
<1> DEFINE parts == [i \in DOMAIN text |-> IF i \in struck THEN << >> ELSE <<text[i]>>]
<1>1. /\ Len(text) \in Nat /\ DOMAIN text = 1 .. Len(text)
      /\ \A i \in 1 .. Len(text) : text[i] \in A
  BY LenProperties, ElementOfSeq
<1>2. parts \in Seq(Seq(A))
  BY <1>1
<1> HIDE DEF parts
<1>3. FlattenSeq(parts) \in Seq(A)
  BY <1>2, FlattenType
<1>4. QED BY <1>3 DEF Strike, parts

\* The formatting makes a text of the symbols of a text.
LEMMA StripType ==
    ASSUME NEW text \in Seq(Symbols) PROVE StripMarkdown(text) \in Seq(Symbols)
<1>1. \A t \in Seq(Symbols) : \A marks, n : StripEmphasis(t, marks, n) \in Seq(Symbols)
  BY StrikeType DEF StripEmphasis
<1>2. \A t \in Seq(Symbols) : /\ StripStars(t) \in Seq(Symbols)
                              /\ StripUnders(t) \in Seq(Symbols)
  BY <1>1 DEF StripStars, StripUnders
<1>3. \A t \in Seq(Symbols) : /\ StripPictures(t) \in Seq(Symbols)
                              /\ StripHeadings(t) \in Seq(Symbols)
  BY StrikeType DEF StripPictures, StripHeadings
<1>4. \A t \in Seq(Symbols) : StripLinks(t) \in Seq(Symbols)
  <2> SUFFICES ASSUME NEW t \in Seq(Symbols) PROVE StripLinks(t) \in Seq(Symbols)
    OBVIOUS
  <2>1. PICK spaced : spaced = [i \in DOMAIN t |->
                                  IF i \in LinkMiddles(t) THEN "sp" ELSE t[i]]
    OBVIOUS
  <2>2. "sp" \in Symbols
    BY DEF Symbols, Bytes, White
  <2>3. Len(t) \in Nat /\ DOMAIN t = 1..Len(t) /\ \A i \in DOMAIN t : t[i] \in Symbols
    BY LenProperties, ElementOfSeq
  <2>4. spaced \in [1..Len(t) -> Symbols]
    <3> HIDE DEF Symbols
    <3>1. QED BY <2>1, <2>2, <2>3
  <2>5. spaced \in Seq(Symbols)
    BY <2>3, <2>4
  <2>6. QED BY <2>1, <2>5, StrikeType DEF StripLinks
<1>5. QED BY <1>2, <1>3, <1>4 DEF StripMarkdown

\* Without the third breaks in a row no three breaks follow one another.
LEMMA CollapseProperties ==
    ASSUME NEW text \in Seq(Symbols)
    PROVE  /\ CollapseBlankLines(text) \in Seq(Symbols)
           /\ NoTriple(CollapseBlankLines(text))
<1> DEFINE struck == {i \in DOMAIN text : ThirdBreak(text, i)}
           part(i) == IF i \in struck THEN << >> ELSE <<text[i]>>
           parts == [i \in DOMAIN text |-> part(i)]
<1>1. /\ Len(text) \in Nat /\ DOMAIN text = 1 .. Len(text)
      /\ \A i \in 1 .. Len(text) : text[i] \in Symbols
  BY LenProperties, ElementOfSeq
<1>2. \A i \in 1 .. Len(text) :
          /\ part(i) \in Seq(Symbols)
          /\ \/ part(i) = <<text[i]>> /\ ~ThirdBreak(text, i)
             \/ part(i) = << >> /\ i > 1 /\ text[i - 1] = "nl" /\ text[i] = "nl"
  BY <1>1 DEF ThirdBreak
<1>0. CollapseBlankLines(text) = FlattenSeq(parts)
  BY DEF CollapseBlankLines, Strike
<1> HIDE DEF part
<1>3. parts \in Seq(Seq(Symbols)) /\ Len(parts) = Len(text)
      /\ \A i \in 1 .. Len(text) : parts[i] = part(i)
  BY <1>1, <1>2
<1> HIDE DEF parts
<1>4. Parts(parts, text)
  BY <1>1, <1>2, <1>3 DEF Parts
<1>5. \A i \in 1 .. Len(text) : parts[i] # << >> => ~ThirdBreak(text, i)
  BY <1>2, <1>3
<1>6. FlattenSeq(parts) \in Seq(Symbols) /\ NoTriple(FlattenSeq(parts))
  BY <1>4, <1>5, PartsFollow DEF FollowsText
<1>7. QED BY <1>0, <1>6

LEMMA FormatIsProper ==
    ASSUME NEW text \in Seq(Symbols), FormatForWeChat(text) # << >>
    PROVE  Proper(FormatForWeChat(text))
<1>1. StripMarkdown(text) \in Seq(Symbols)
  BY StripType
<1>2. PICK collapsed \in Seq(Symbols) :
          /\ collapsed = CollapseBlankLines(StripMarkdown(text))
          /\ NoTriple(collapsed)
  BY <1>1, CollapseProperties
<1>3. FormatForWeChat(text) = TrimSpace(collapsed)
  BY <1>2 DEF FormatForWeChat
<1>4. QED BY <1>2, <1>3, TrimIsProper

\* A text as characters begins, ends and breaks as it does as bytes.
LEMMA RunesAreProper ==
    ASSUME NEW text, Proper(text)
    PROVE  Proper(Runes(text)) /\ Runes(text) \in Seq(Characters)
<1> DEFINE part(i) == RunePart(text, i)
           parts == [i \in DOMAIN text |-> part(i)]
<1>1. /\ Len(text) \in Nat /\ DOMAIN text = 1 .. Len(text) /\ text \in Seq(Symbols)
      /\ Len(text) > 0
      /\ \A i \in 1 .. Len(text) : text[i] \in Symbols /\ ~ThirdBreak(text, i)
  BY LenProperties, ElementOfSeq, EmptySeq DEF Proper, NoTriple
<1>2. \A i \in 1 .. Len(text) :
          /\ part(i) \in Seq(Characters) /\ part(i) \in Seq(Symbols)
          /\ \/ \E c \in Symbols : part(i) = <<c>> /\ (c = "nl" <=> text[i] = "nl")
             \/ part(i) = << >> /\ i > 1 /\ text[i - 1] # "nl" /\ text[i] # "nl"
  <2> SUFFICES ASSUME NEW i \in 1 .. Len(text)
      PROVE /\ part(i) \in Seq(Characters) /\ part(i) \in Seq(Symbols)
            /\ \/ \E c \in Symbols : part(i) = <<c>> /\ (c = "nl" <=> text[i] = "nl")
               \/ part(i) = << >> /\ i > 1 /\ text[i - 1] # "nl" /\ text[i] # "nl"
    OBVIOUS
  <2>1. CASE WideAt(text, i)
    <3>1. part(i) = <<"wide">> /\ text[i] = "lead"
      BY <2>1 DEF RunePart, WideAt
    <3>2. "wide" \in Symbols /\ "wide" \in Characters
      BY DEF Symbols, Characters, Bytes, White, Marks
    <3>3. QED BY <3>1, <3>2
  <2>2. CASE ~WideAt(text, i) /\ i > 1 /\ WideAt(text, i - 1)
    <3>1. part(i) = << >> /\ text[i - 1] = "lead" /\ text[i] = "trail"
      BY <2>2 DEF RunePart, WideAt
    <3>2. QED BY <2>2, <3>1
  <2>3. CASE ~WideAt(text, i) /\ ~(i > 1 /\ WideAt(text, i - 1)) /\ text[i] \in {"lead", "trail"}
    <3>1. part(i) = <<"bad">>
      BY <2>3, Zenon DEF RunePart
    <3>2. "bad" \in Symbols /\ "bad" \in Characters /\ text[i] # "nl"
      BY <2>3 DEF Symbols, Characters, Bytes, White, Marks
    <3>3. QED BY <3>1, <3>2
  <2>4. CASE ~WideAt(text, i) /\ ~(i > 1 /\ WideAt(text, i - 1)) /\ text[i] \notin {"lead", "trail"}
    <3>1. part(i) = <<text[i]>>
      BY <2>4, Zenon DEF RunePart
    <3>2. text[i] \in Symbols /\ text[i] \in Characters
      BY <1>1, <2>4 DEF Characters
    <3>3. QED BY <3>1, <3>2
  <2>5. QED BY <2>1, <2>2, <2>3, <2>4
<1> HIDE DEF part
<1>3. /\ parts \in Seq(Seq(Symbols)) /\ Len(parts) = Len(text)
      /\ parts \in Seq(Seq(Characters))
      /\ \A i \in 1 .. Len(text) : parts[i] = part(i)
  BY <1>1, <1>2
<1> HIDE DEF parts
<1>4. Parts(parts, text)
  BY <1>1, <1>2, <1>3 DEF Parts
<1>5. Runes(text) = FlattenSeq(parts)
  BY DEF Runes, parts, part
<1>6. FollowsText(Runes(text), text, Len(text))
  BY <1>1, <1>4, <1>5, PartsFollow
<1>7. Runes(text) \in Seq(Characters)
  BY <1>3, <1>5, FlattenType
<1>8. QED BY <1>1, <1>6, <1>7 DEF FollowsText, Proper

\* The parts of a text that are its own characters make the text.
LEMMA FlattenSingles ==
    ASSUME NEW A, NEW text \in Seq(A)
    PROVE  FlattenSeq([i \in DOMAIN text |-> <<text[i]>>]) = text
<1> DEFINE parts == [i \in DOMAIN text |-> <<text[i]>>]
           S == {n \in Nat : n <= Len(text) =>
                    FlattenSeq(SubSeq(parts, 1, n)) = SubSeq(text, 1, n)}
<1>1. /\ Len(text) \in Nat /\ DOMAIN text = 1 .. Len(text)
      /\ \A i \in 1 .. Len(text) : text[i] \in A /\ <<text[i]>> \in Seq(A)
  BY LenProperties, ElementOfSeq
<1>2. /\ parts \in Seq(Seq(A)) /\ Len(parts) = Len(text)
      /\ \A i \in 1 .. Len(text) : parts[i] = <<text[i]>>
  BY <1>1
<1> HIDE DEF parts
<1>3. 0 \in S
  <2>1. SubSeq(parts, 1, 0) = << >> /\ SubSeq(text, 1, 0) = << >>
    BY <1>2
  <2>2. QED BY <2>1, FlattenEmpty
<1>4. ASSUME NEW n \in S PROVE n + 1 \in S
  <2> SUFFICES ASSUME n + 1 <= Len(text)
               PROVE  FlattenSeq(SubSeq(parts, 1, n + 1)) = SubSeq(text, 1, n + 1)
    OBVIOUS
  <2>1. n \in Nat /\ n + 1 \in 1 .. Len(text)
        /\ FlattenSeq(SubSeq(parts, 1, n)) = SubSeq(text, 1, n)
    BY <1>1
  <2>2. /\ SubSeq(parts, 1, n) \in Seq(Seq(A)) /\ parts[n + 1] \in Seq(A)
        /\ SubSeq(parts, 1, n + 1) = Append(SubSeq(parts, 1, n), parts[n + 1])
    BY <1>2, <2>1, FirstTexts
  <2>3. /\ SubSeq(text, 1, n) \in Seq(A) /\ text[n + 1] \in A
        /\ SubSeq(text, 1, n + 1) = Append(SubSeq(text, 1, n), text[n + 1])
    BY <2>1, FirstTexts
  <2>4. FlattenSeq(SubSeq(parts, 1, n + 1)) = SubSeq(text, 1, n) \o <<text[n + 1]>>
    BY <1>2, <2>1, <2>2, FlattenLast
  <2>5. QED BY <2>3, <2>4, AppendIsConcat
<1>5. S = Nat
  <2> HIDE DEF S
  <2>1. S \in SUBSET Nat
    BY DEF S
  <2>2. QED BY <1>3, <1>4, <2>1, InductiveSet
<1>6. FlattenSeq(SubSeq(parts, 1, Len(text))) = SubSeq(text, 1, Len(text))
  BY <1>1, <1>5
<1>7. FlattenSeq(parts) = text
  BY <1>2, <1>6, SubSeqFull
<1>8. QED BY <1>7 DEF parts

\* A text of whole characters is its own characters.
LEMMA RunesOfCharacters ==
    ASSUME NEW text \in Seq(Characters)
    PROVE  Runes(text) = text
<1>1. ASSUME NEW i \in DOMAIN text PROVE RunePart(text, i) = <<text[i]>>
  <2>1. text[i] \notin {"lead", "trail"} /\ DOMAIN text = 1 .. Len(text) /\ Len(text) \in Nat
    BY ElementOfSeq, LenProperties DEF Characters
  <2>2. ~WideAt(text, i)
    BY <2>1 DEF WideAt
  <2>3. ~(i > 1 /\ WideAt(text, i - 1))
    BY <2>1 DEF WideAt
  <2>4. QED BY <2>1, <2>2, <2>3, Zenon DEF RunePart
<1>2. [i \in DOMAIN text |-> RunePart(text, i)] = [i \in DOMAIN text |-> <<text[i]>>]
  BY <1>1, Zenon
<1>3. QED BY <1>2, FlattenSingles DEF Runes

-----------------------------------------------------------------------------
(* Loops. *)

\* These are the states before the first and after each of n turns of a loop.
LoopStates(f, n, a, step) == f[0] = a /\ \A i \in 1 .. n : f[i] = step[f[i - 1]]

\* A loop of n turns over states of a set has its states in that set.
LEMMA LoopRuns ==
    ASSUME NEW S, NEW a \in S, NEW step \in [S -> S]
    PROVE  \A n \in Nat : \E f \in [0 .. n -> S] : LoopStates(f, n, a, step)
<1> DEFINE Runs(f, n) == LoopStates(f, n, a, step)
           T == {n \in Nat : \E f \in [0 .. n -> S] : Runs(f, n)}
<1>1. 0 \in T
  <2> DEFINE f == [i \in 0 .. 0 |-> a]
  <2>1. f \in [0 .. 0 -> S] /\ f[0] = a /\ 1 .. 0 = {}
    OBVIOUS
  <2>2. Runs(f, 0)
    BY <2>1 DEF LoopStates
  <2>3. QED BY <2>1, <2>2
<1>2. ASSUME NEW n \in T PROVE n + 1 \in T
  <2>1. n \in Nat
    OBVIOUS
  <2>2. PICK f \in [0 .. n -> S] : Runs(f, n)
    OBVIOUS
  <2> DEFINE g == [i \in 0 .. n + 1 |-> IF i = n + 1 THEN step[f[n]] ELSE f[i]]
  <2>3. /\ \A i \in 0 .. n : g[i] = f[i]
        /\ g[n + 1] = step[f[n]] /\ f[n] \in S
    BY <2>1
  <2>4. g \in [0 .. n + 1 -> S]
    <3>1. \A i \in 0 .. n + 1 : i \in 0 .. n \/ i = n + 1
      BY <2>1
    <3>2. QED BY <2>3, <3>1
  <2> HIDE DEF g
  <2>5. ASSUME NEW i \in 1 .. n + 1 PROVE g[i] = step[g[i - 1]]
    <3>1. CASE i \in 1 .. n
      <4>1. i \in 0 .. n /\ i - 1 \in 0 .. n
        BY <2>1, <3>1
      <4>2. QED BY <2>2, <2>3, <3>1, <4>1 DEF LoopStates
    <3>2. CASE i = n + 1
      <4>1. i - 1 = n /\ n \in 0 .. n
        BY <2>1, <3>2
      <4>2. QED BY <2>3, <3>2, <4>1
    <3>3. QED BY <2>1, <3>1, <3>2
  <2>6. g[0] = a
    <3>1. 0 \in 0 .. n
      BY <2>1
    <3>2. QED BY <2>2, <2>3, <3>1 DEF LoopStates
  <2>7. n + 1 \in Nat /\ Runs(g, n + 1)
    BY <2>1, <2>5, <2>6 DEF LoopStates
  <2>8. QED BY <2>4, <2>7
<1>3. T = Nat
  <2> HIDE DEF T
  <2>1. T \in SUBSET Nat
    BY DEF T
  <2>2. QED BY <1>1, <1>2, <2>1, InductiveSet
<1>4. QED BY <1>3

-----------------------------------------------------------------------------
(* SplitText. *)

\* A message that fits and is not blank.
GoodMessage(runes) ==
    /\ runes \in Seq(Characters) /\ Len(runes) <= MaxRunes
    /\ \E i \in 1 .. Len(runes) : runes[i] # "nl"

\* What is still to be split begins with one line break at most.
GoodRest(runes) ==
    /\ runes \in Seq(Characters) /\ runes # << >> /\ NoTriple(runes)
    /\ runes[Len(runes)] # "nl"
    /\ runes[1] = "nl" => runes[2] # "nl"

Splitting == [messages : Seq(Seq(Characters)), rest : Seq(Characters)]

LEMMA BreakProperties ==
    ASSUME NEW runes \in Seq(Characters), Len(runes) > MaxRunes
    PROVE  /\ BreakAt(runes) \in 1 .. MaxRunes
           /\ \A i \in 2 .. MaxRunes : runes[i] = "nl" => i <= BreakAt(runes) + 1
           /\ runes[BreakAt(runes) + 1] = "nl" \/ BreakAt(runes) = MaxRunes
<1> DEFINE breaks == {i \in 2 .. MaxRunes : runes[i] = "nl"}
<1>1. MaxRunes \in Nat /\ MaxRunes > 1
  BY LimitsAssumption
<1>2. /\ \A i \in 2 .. MaxRunes : runes[i] = "nl" => i \in breaks
      /\ \A i \in breaks : i \in 2 .. MaxRunes /\ runes[i] = "nl"
      /\ breaks \in SUBSET (1 .. MaxRunes)
      /\ BreakAt(runes) = IF breaks = {} THEN MaxRunes ELSE Max(breaks) - 1
  BY <1>1 DEF BreakAt
<1> HIDE DEF breaks
<1>3. CASE breaks = {}
  BY <1>1, <1>2, <1>3
<1>4. CASE breaks # {}
  <2>1. PICK m \in breaks : m = Max(breaks) /\ \A i \in breaks : i <= m
    BY <1>1, <1>2, <1>4, MinMaxOfPlaces
  <2>2. m \in 2 .. MaxRunes /\ runes[m] = "nl" /\ BreakAt(runes) = m - 1
    BY <1>2, <1>4, <2>1
  <2>3. m - 1 \in 1 .. MaxRunes /\ m - 1 + 1 = m
    BY <1>1, <2>2
  <2>4. QED BY <1>2, <2>1, <2>2, <2>3
<1>5. QED BY <1>3, <1>4

\* The places of a part of a text.
LEMMA PartOfText ==
    ASSUME NEW A, NEW text \in Seq(A),
           NEW m \in 1 .. Len(text) + 1, NEW n \in m - 1 .. Len(text)
    PROVE  /\ SubSeq(text, m, n) \in Seq(A)
           /\ Len(SubSeq(text, m, n)) = n - m + 1
           /\ \A i \in 1 .. n - m + 1 : SubSeq(text, m, n)[i] = text[m + i - 1]
<1>1. Len(text) \in Nat
  BY LenProperties
<1>2. \A i \in m .. n : text[i] \in A
  BY <1>1, ElementOfSeq
<1>3. m \in Int /\ n \in Int
  BY <1>1
<1>4. CASE m <= n
  BY <1>2, <1>3, <1>4, SubSeqProperties
<1>5. CASE n = m - 1
  BY <1>1, <1>3, <1>5
<1>6. QED BY <1>1, <1>3, <1>4, <1>5

\* The beginning of the rest is a message,
LEMMA ChopsMessage ==
    ASSUME NEW runes, GoodRest(runes), Len(runes) > MaxRunes
    PROVE  GoodMessage(SubSeq(runes, 1, BreakAt(runes)))
<1>1. /\ MaxRunes \in Nat /\ MaxRunes > 1
      /\ runes \in Seq(Characters) /\ Len(runes) \in Nat
  BY LimitsAssumption, LenProperties DEF GoodRest
<1>2. PICK cut \in 1 .. MaxRunes :
          /\ cut = BreakAt(runes)
          /\ runes[cut + 1] = "nl" \/ cut = MaxRunes
  BY <1>1, BreakProperties
<1>3. PICK start : start = SubSeq(runes, 1, cut)
  OBVIOUS
<1>4. /\ start \in Seq(Characters) /\ Len(start) = cut
      /\ \A i \in 1 .. cut : start[i] = runes[i]
  <2>1. 1 \in 1 .. Len(runes) + 1 /\ cut \in 1 - 1 .. Len(runes) /\ cut - 1 + 1 = cut
        /\ \A i \in 1 .. cut : 1 + i - 1 = i
    BY <1>1, <1>2
  <2>2. /\ SubSeq(runes, 1, cut) \in Seq(Characters)
        /\ Len(SubSeq(runes, 1, cut)) = cut - 1 + 1
        /\ \A i \in 1 .. cut - 1 + 1 : SubSeq(runes, 1, cut)[i] = runes[1 + i - 1]
    BY <1>1, <2>1, PartOfText
  <2>3. QED BY <1>3, <2>1, <2>2
<1>5. \E i \in 1 .. cut : runes[i] # "nl"
  <2>1. CASE runes[1] # "nl"
    BY <1>1, <1>2, <2>1
  <2>2. CASE runes[1] = "nl"
    <3>1. runes[2] # "nl"
      BY <2>2 DEF GoodRest
    <3>2. cut # 1
      BY <1>1, <1>2, <3>1
    <3>3. QED BY <1>1, <1>2, <3>1, <3>2
  <2>3. QED BY <2>1, <2>2
<1>6. QED BY <1>1, <1>2, <1>3, <1>4, <1>5 DEF GoodMessage

\* Without the break it may begin with,
LEMMA SkipsBreak ==
    ASSUME NEW text \in Seq(Characters), text # << >>, NoTriple(text),
           text[Len(text)] # "nl"
    PROVE  GoodRest(SkipBreak(text)) /\ Len(SkipBreak(text)) <= Len(text)
<1>1. Len(text) \in Nat /\ Len(text) > 0
  BY LenProperties, EmptySeq
<1>2. CASE text[1] # "nl"
  <2>1. SkipBreak(text) = text
    BY <1>2 DEF SkipBreak
  <2>2. QED BY <1>1, <1>2, <2>1 DEF GoodRest
<1>3. CASE text[1] = "nl"
  <2>1. Len(text) > 1
    BY <1>1, <1>3
  <2>2. PICK rest : rest = Tail(text)
    OBVIOUS
  <2>3. /\ rest \in Seq(Characters) /\ Len(rest) = Len(text) - 1
        /\ \A i \in 1 .. Len(text) - 1 : rest[i] = text[i + 1]
        /\ SkipBreak(text) = rest
    BY <1>1, <1>3, <2>2 DEF SkipBreak
  <2>4. rest # << >> /\ rest[Len(rest)] # "nl"
    <3>1. Len(text) - 1 \in 1 .. Len(text) - 1 /\ Len(text) - 1 + 1 = Len(text)
      BY <1>1, <2>1
    <3>2. QED BY <2>3, <3>1, EmptySeq
  <2>5. NoTriple(rest)
    <3> SUFFICES ASSUME NEW i \in 1 .. Len(rest), ThirdBreak(rest, i) PROVE FALSE
      BY DEF NoTriple
    <3>1. /\ i > 2 /\ i + 1 \in 1 .. Len(text) /\ i + 1 > 2
          /\ i - 2 \in 1 .. Len(text) - 1 /\ i - 1 \in 1 .. Len(text) - 1
          /\ i \in 1 .. Len(text) - 1
          /\ i - 2 + 1 = i + 1 - 2 /\ i - 1 + 1 = i + 1 - 1
      BY <1>1, <2>3 DEF ThirdBreak
    <3>2. rest[i - 2] = "nl" /\ rest[i - 1] = "nl" /\ rest[i] = "nl"
      BY DEF ThirdBreak
    <3>3. text[i + 1 - 2] = "nl" /\ text[i + 1 - 1] = "nl" /\ text[i + 1] = "nl"
      BY <2>3, <3>1, <3>2
    <3>4. QED BY <3>1, <3>3 DEF NoTriple, ThirdBreak
  <2>6. rest[1] = "nl" => rest[2] # "nl"
    <3> SUFFICES ASSUME rest[1] = "nl", rest[2] = "nl" PROVE FALSE
      OBVIOUS
    <3>1. rest[1] = text[2]
      BY <1>1, <2>1, <2>3
    <3>2. Len(text) > 2
      BY <1>1, <2>1, <3>1
    <3>3. rest[2] = text[3]
      BY <1>1, <2>3, <3>2
    <3>4. 3 \in 1 .. Len(text) /\ 3 - 2 = 1 /\ 3 - 1 = 2 /\ 3 > 2
      BY <1>1, <3>2
    <3>5. QED BY <1>3, <3>1, <3>3, <3>4 DEF NoTriple, ThirdBreak
  <2>7. QED BY <1>1, <2>3, <2>4, <2>5, <2>6 DEF GoodRest
<1>4. QED BY <1>2, <1>3

\* what is behind it can be split in turn.
LEMMA ChopsRest ==
    ASSUME NEW runes, GoodRest(runes), Len(runes) > MaxRunes,
           NEW rest, rest = SkipBreak(SubSeq(runes, BreakAt(runes) + 1, Len(runes)))
    PROVE  GoodRest(rest) /\ Len(rest) < Len(runes)
<1>1. /\ MaxRunes \in Nat /\ MaxRunes > 1
      /\ runes \in Seq(Characters) /\ Len(runes) \in Nat
  BY LimitsAssumption, LenProperties DEF GoodRest
<1>2. PICK cut \in 1 .. MaxRunes : cut = BreakAt(runes)
  BY <1>1, BreakProperties
<1>3. PICK left \in Nat : left = Len(runes) - cut /\ left > 0
  BY <1>1, <1>2
<1>4. PICK behind : behind = SubSeq(runes, cut + 1, Len(runes))
  OBVIOUS
<1>5. /\ behind \in Seq(Characters) /\ Len(behind) = left
      /\ \A i \in 1 .. left : behind[i] = runes[cut + i]
  <2>1. /\ cut + 1 \in 1 .. Len(runes) + 1 /\ Len(runes) \in cut + 1 - 1 .. Len(runes)
        /\ Len(runes) - (cut + 1) + 1 = left
        /\ \A i \in 1 .. left : (cut + 1) + i - 1 = cut + i
    BY <1>1, <1>2, <1>3
  <2>2. /\ behind \in Seq(Characters)
        /\ Len(behind) = Len(runes) - (cut + 1) + 1
        /\ \A i \in 1 .. Len(runes) - (cut + 1) + 1 : behind[i] = runes[(cut + 1) + i - 1]
    BY SMTT(30), <1>1, <1>4, <2>1, PartOfText
  <2>3. QED BY <2>1, <2>2
<1>6. behind # << >> /\ behind[Len(behind)] # "nl"
  <2>1. left \in 1 .. left /\ cut + left = Len(runes)
    BY <1>1, <1>2, <1>3
  <2>2. behind[left] = runes[Len(runes)]
    BY <1>5, <2>1
  <2>3. QED BY <1>3, <1>5, <2>2, EmptySeq DEF GoodRest
<1>7. NoTriple(behind)
  <2> SUFFICES ASSUME NEW i \in 1 .. left, ThirdBreak(behind, i) PROVE FALSE
    BY <1>5 DEF NoTriple
  <2>1. /\ i > 2 /\ cut + i \in 1 .. Len(runes) /\ cut + i > 2
        /\ i - 2 \in 1 .. left /\ i - 1 \in 1 .. left
        /\ cut + (i - 2) = cut + i - 2 /\ cut + (i - 1) = cut + i - 1
    BY <1>1, <1>2, <1>3 DEF ThirdBreak
  <2>2. behind[i - 2] = "nl" /\ behind[i - 1] = "nl" /\ behind[i] = "nl"
    BY DEF ThirdBreak
  <2>3. runes[cut + i - 2] = "nl" /\ runes[cut + i - 1] = "nl" /\ runes[cut + i] = "nl"
    BY <1>5, <2>1, <2>2
  <2>4. QED BY <2>1, <2>3 DEF GoodRest, NoTriple, ThirdBreak
<1>8. GoodRest(SkipBreak(behind)) /\ Len(SkipBreak(behind)) <= left
  BY <1>5, <1>6, <1>7, SkipsBreak
<1>9. rest = SkipBreak(behind)
  BY <1>2, <1>4
<1>10. Len(rest) \in Nat
  BY <1>8, <1>9, LenProperties DEF GoodRest
<1>11. QED BY <1>1, <1>2, <1>3, <1>8, <1>9, <1>10
\* A turn of the loop splits well what splits well so far.
SplitsWell(s, left) ==
    /\ s \in Splitting
    /\ \A i \in 1 .. Len(s.messages) : GoodMessage(s.messages[i])
    /\ GoodRest(s.rest)
    /\ Len(s.rest) <= MaxRunes \/ Len(s.rest) <= left

LEMMA ChopType == ASSUME NEW s \in Splitting PROVE Chopped(s) \in Splitting
<1>1. s.messages \in Seq(Seq(Characters)) /\ s.rest \in Seq(Characters)
  BY DEF Splitting
<1>2. CASE Len(s.rest) > MaxRunes
  <2>1. /\ MaxRunes \in Nat /\ MaxRunes > 1 /\ Len(s.rest) \in Nat
        /\ BreakAt(s.rest) \in 1 .. MaxRunes
    BY <1>1, <1>2, LimitsAssumption, LenProperties, BreakProperties
  <2>2. SubSeq(s.rest, 1, BreakAt(s.rest)) \in Seq(Characters)
    BY <1>1, <1>2, <2>1, PartOfText
  <2>3. PICK behind : behind = SubSeq(s.rest, BreakAt(s.rest) + 1, Len(s.rest))
    OBVIOUS
  <2>9. /\ behind \in Seq(Characters)
        /\ Len(behind) = Len(s.rest) - (BreakAt(s.rest) + 1) + 1
    <3>1. PICK cut \in 1 .. MaxRunes, long \in Nat, rest \in Seq(Characters) :
              cut = BreakAt(s.rest) /\ long = Len(s.rest) /\ rest = s.rest
      BY <1>1, <2>1
    <3>2. cut + 1 \in 1 .. long + 1 /\ long \in cut + 1 - 1 .. long
      BY <1>2, <2>1, <3>1
    <3>3. /\ SubSeq(rest, cut + 1, long) \in Seq(Characters)
          /\ Len(SubSeq(rest, cut + 1, long)) = long - (cut + 1) + 1
      BY <3>1, <3>2, PartOfText
    <3>4. QED BY <2>3, <3>1, <3>3
  <2>4. behind # << >>
    BY <1>2, <2>1, <2>9, EmptySeq
  <2>5. SkipBreak(behind) \in Seq(Characters)
    BY <2>4, <2>9 DEF SkipBreak
  <2>6. Append(s.messages, SubSeq(s.rest, 1, BreakAt(s.rest))) \in Seq(Seq(Characters))
    BY <1>1, <2>2, AppendProperties
  <2>7. Chopped(s) = [messages |-> Append(s.messages, SubSeq(s.rest, 1, BreakAt(s.rest))),
                      rest |-> SkipBreak(behind)]
    BY <1>2, <2>3 DEF Chopped
  <2>8. QED BY <2>5, <2>6, <2>7 DEF Splitting
<1>3. CASE ~(Len(s.rest) > MaxRunes)
  BY <1>3 DEF Chopped
<1>4. QED BY <1>2, <1>3

LEMMA ChopSplitsWell ==
    ASSUME NEW left \in Int, NEW s, SplitsWell(s, left)
    PROVE  SplitsWell(Chopped(s), left - 1)
<1>1. /\ s.messages \in Seq(Seq(Characters)) /\ s.rest \in Seq(Characters)
      /\ GoodRest(s.rest) /\ Chopped(s) \in Splitting
      /\ Len(s.rest) \in Nat /\ MaxRunes \in Nat
  BY ChopType, LimitsAssumption, LenProperties DEF SplitsWell, Splitting
<1>2. CASE Len(s.rest) > MaxRunes
  <2>1. PICK start : /\ start = SubSeq(s.rest, 1, BreakAt(s.rest))
                     /\ GoodMessage(start)
    BY <1>1, <1>2, ChopsMessage
  <2>2. PICK rest : /\ rest = SkipBreak(SubSeq(s.rest, BreakAt(s.rest) + 1, Len(s.rest)))
                    /\ GoodRest(rest) /\ Len(rest) < Len(s.rest)
    BY <1>1, <1>2, ChopsRest
  <2>3. Chopped(s).messages = Append(s.messages, start) /\ Chopped(s).rest = rest
    BY <1>2, <2>1, <2>2 DEF Chopped
  <2>4. ASSUME NEW messages, messages = Append(s.messages, start)
        PROVE  \A i \in 1 .. Len(messages) : GoodMessage(messages[i])
    <3>1. /\ Len(s.messages) \in Nat /\ Len(messages) = Len(s.messages) + 1
          /\ messages[Len(s.messages) + 1] = start
          /\ \A i \in 1 .. Len(s.messages) : messages[i] = s.messages[i]
      BY <1>1, <2>1, <2>4, LenProperties, AppendProperties DEF GoodMessage
    <3>2. \A i \in 1 .. Len(s.messages) : GoodMessage(s.messages[i])
      BY DEF SplitsWell
    <3>3. ASSUME NEW i \in 1 .. Len(messages) PROVE GoodMessage(messages[i])
      <4>1. i \in 1 .. Len(s.messages) \/ i = Len(s.messages) + 1
        BY <3>1
      <4>2. QED BY <2>1, <3>1, <3>2, <4>1
    <3>4. QED BY <3>3
  <2>5. Len(s.rest) <= left
    BY <1>1, <1>2 DEF SplitsWell
  <2>6. Len(rest) \in Nat
    BY <2>2, LenProperties DEF GoodRest
  <2>7. Len(rest) <= left - 1
    BY <1>1, <2>2, <2>5, <2>6
  <2>8. QED BY <1>1, <2>2, <2>3, <2>4, <2>7 DEF SplitsWell
<1>3. CASE ~(Len(s.rest) > MaxRunes)
  <2>1. Chopped(s) = s /\ Len(s.rest) <= MaxRunes
    BY <1>1, <1>3 DEF Chopped
  <2>2. QED BY <2>1 DEF SplitsWell
<1>4. QED BY <1>2, <1>3

Splits(f, runes) ==
    f = [n \in 0 .. Len(runes) |->
            IF n = 0 THEN [messages |-> << >>, rest |-> runes] ELSE Chopped(f[n - 1])]

\* The turns of the loop exist.
LEMMA SplitExists ==
    ASSUME NEW runes \in Seq(Characters)
    PROVE  \E f : Splits(f, runes)
<1> DEFINE start == [messages |-> << >>, rest |-> runes]
           chop == [s \in Splitting |-> Chopped(s)]
<1>1. start \in Splitting /\ chop \in [Splitting -> Splitting]
  BY ChopType DEF Splitting
<1>2. \A s \in Splitting : chop[s] = Chopped(s)
  OBVIOUS
<1> HIDE DEF start, chop
<1>3. PICK a \in Splitting : a = start
  BY <1>1
<1>4. PICK step \in [Splitting -> Splitting] : \A s \in Splitting : step[s] = Chopped(s)
  BY <1>1, <1>2
<1>5. PICK f \in [0 .. Len(runes) -> Splitting] : LoopStates(f, Len(runes), a, step)
  <2>1. \A n \in Nat : \E f \in [0 .. n -> Splitting] : LoopStates(f, n, a, step)
    BY LoopRuns
  <2>2. QED BY <2>1, LenProperties
<1>6. ASSUME NEW n \in 0 .. Len(runes)
      PROVE  f[n] = IF n = 0 THEN a ELSE Chopped(f[n - 1])
  <2>1. CASE n = 0
    BY <1>5, <2>1 DEF LoopStates
  <2>2. CASE n # 0
    <3>1. n \in 1 .. Len(runes) /\ n - 1 \in 0 .. Len(runes)
      BY <2>2, LenProperties
    <3>2. QED BY <1>4, <1>5, <2>2, <3>1 DEF LoopStates
  <2>3. QED BY <2>1, <2>2
<1>7. f = [n \in 0 .. Len(runes) |-> IF n = 0 THEN a ELSE Chopped(f[n - 1])]
  BY <1>6
<1>8. QED BY <1>3, <1>7 DEF Splits, start

LEMMA SplitRunesIs ==
    ASSUME NEW runes
    PROVE  LET f == CHOOSE g : Splits(g, runes)
           IN  SplitRunes(runes) = IF f[Len(runes)].rest = << >> THEN f[Len(runes)].messages
                                   ELSE Append(f[Len(runes)].messages, f[Len(runes)].rest)
BY DEF SplitRunes, Splits

\* SplitText: every message fits and none is blank.
LEMMA SplitsIntoMessages ==
    ASSUME NEW runes \in Seq(Characters), Proper(runes)
    PROVE  /\ SplitRunes(runes) \in Seq(Seq(Characters))
           /\ \A i \in 1 .. Len(SplitRunes(runes)) : GoodMessage(SplitRunes(runes)[i])
<1> DEFINE a == [messages |-> << >>, rest |-> runes]
<1>1. PICK f : f = (CHOOSE g : Splits(g, runes))
  OBVIOUS
<1>2. Splits(f, runes) /\ Len(runes) \in Nat /\ MaxRunes \in Nat
  BY <1>1, SplitExists, LimitsAssumption, LenProperties
<1> DEFINE value(n) == IF n = 0 THEN a ELSE Chopped(f[n - 1])
           final == f[Len(runes)]
<1>3. f = [n \in 0 .. Len(runes) |-> value(n)]
  BY <1>2, Zenon DEF Splits
<1> HIDE DEF value
<1>4. \A n \in 0 .. Len(runes) : f[n] = value(n)
  BY <1>3
<1>5. f[0] = a /\ \A n \in 1 .. Len(runes) : f[n] = Chopped(f[n - 1])
  <2>1. 0 \in 0 .. Len(runes) /\ \A n \in 1 .. Len(runes) : n \in 0 .. Len(runes) /\ n # 0
    BY <1>2
  <2>2. QED BY <1>4, <2>1 DEF value
<1> DEFINE S == {n \in Nat : n <= Len(runes) => SplitsWell(f[n], Len(runes) - n)}
<1>6. 0 \in S
  <2>1. a \in Splitting /\ Len(a.messages) = 0 /\ a.rest = runes
    BY DEF Splitting
  <2>2. GoodRest(runes)
    BY DEF Proper, GoodRest
  <2> HIDE DEF a
  <2>3. SplitsWell(a, Len(runes))
    BY <1>2, <2>1, <2>2 DEF SplitsWell
  <2>4. Len(runes) - 0 = Len(runes)
    BY <1>2
  <2>5. QED BY <1>5, <2>3, <2>4
<1>7. ASSUME NEW n \in S PROVE n + 1 \in S
  <2> SUFFICES ASSUME n + 1 <= Len(runes)
               PROVE  SplitsWell(f[n + 1], Len(runes) - (n + 1))
    OBVIOUS
  <2>1. /\ n \in Nat /\ SplitsWell(f[n], Len(runes) - n) /\ Len(runes) - n \in Int
        /\ n + 1 \in 1 .. Len(runes) /\ n + 1 - 1 = n
        /\ Len(runes) - n - 1 = Len(runes) - (n + 1)
    BY <1>2
  <2>2. f[n + 1] = Chopped(f[n])
    BY <1>5, <2>1
  <2>3. SplitsWell(Chopped(f[n]), Len(runes) - n - 1)
    BY <2>1, ChopSplitsWell
  <2>4. QED BY <2>1, <2>2, <2>3
<1>8. S = Nat
  <2> HIDE DEF S
  <2>1. S \in SUBSET Nat
    BY DEF S
  <2>2. QED BY <1>6, <1>7, <2>1, InductiveSet
<1>9. SplitsWell(final, 0)
  <2>1. SplitsWell(final, Len(runes) - Len(runes))
    BY <1>2, <1>8
  <2>2. Len(runes) - Len(runes) = 0
    BY <1>2
  <2>3. QED BY <2>1, <2>2
<1>10. SplitRunes(runes) = IF final.rest = << >> THEN final.messages
                           ELSE Append(final.messages, final.rest)
  BY <1>1, SplitRunesIs
<1> HIDE DEF final
<1>11. /\ final.messages \in Seq(Seq(Characters)) /\ final.rest \in Seq(Characters)
       /\ GoodRest(final.rest) /\ final.rest # << >> /\ Len(final.rest) \in Nat
  BY <1>9, LenProperties DEF SplitsWell, Splitting, GoodRest
<1>12. GoodMessage(final.rest)
  <2>1. Len(final.rest) > 0 /\ Len(final.rest) <= MaxRunes
    BY <1>2, <1>9, <1>11, EmptySeq DEF SplitsWell
  <2>2. Len(final.rest) \in 1 .. Len(final.rest)
    BY <1>11, <2>1
  <2>3. QED BY <1>11, <2>1, <2>2 DEF GoodRest, GoodMessage
<1>13. PICK all : all = SplitRunes(runes)
  OBVIOUS
<1>14. /\ all \in Seq(Seq(Characters)) /\ Len(final.messages) \in Nat
       /\ Len(all) = Len(final.messages) + 1 /\ all[Len(final.messages) + 1] = final.rest
       /\ \A i \in 1 .. Len(final.messages) : all[i] = final.messages[i]
  BY <1>10, <1>11, <1>13, LenProperties, AppendProperties
<1>15. \A i \in 1 .. Len(all) : GoodMessage(all[i])
  BY SMTT(30), <1>9, <1>12, <1>14 DEF SplitsWell
<1>16. QED BY <1>13, <1>14, <1>15

-----------------------------------------------------------------------------
(* ExtractLongCodeBlocks. *)

FileSet == [tag : Seq(Symbols), content : Seq(Symbols)]
Extracting == [text : Seq(Symbols), files : Seq(FileSet)]

\* Where the first block of a text opens, its first line begins and it closes.
LEMMA ReplacedType == ASSUME NEW e \in Extracting PROVE Replaced(e) \in Extracting
<1>1. PICK text \in Seq(Symbols), files \in Seq(FileSet), long \in Nat :
          text = e.text /\ files = e.files /\ long = Len(text)
  BY LenProperties DEF Extracting
<1> DEFINE opens  == FencesFrom(text, 1)
           open   == Min(opens)
           lines  == BreaksFrom(text, open + 3)
           line   == Min(lines)
           closes == FencesFrom(text, line + 1)
           close  == Min(closes)
<1>2. CASE /\ opens # {} /\ lines # {} /\ closes # {}
           /\ IsLong(SubSeq(text, line + 1, close - 1))
  <2>1. PICK o \in 1 .. long - 2 : o = open
    <3>1. opens \in SUBSET (1 .. long) /\ \A i \in opens : i \in 1 .. long - 2
      BY <1>1 DEF FencesFrom
    <3> HIDE DEF opens
    <3>2. Min(opens) \in opens
      BY <1>2, <3>1, MinMaxOfPlaces
    <3>3. QED BY <3>1, <3>2
  <2>2. PICK l \in o + 3 .. long : l = line
    <3>1. lines \in SUBSET (1 .. long) /\ \A i \in lines : i \in o + 3 .. long
      BY <1>1, <2>1 DEF BreaksFrom
    <3> HIDE DEF lines
    <3>2. Min(lines) \in lines
      BY <1>2, <3>1, MinMaxOfPlaces
    <3>3. QED BY <3>1, <3>2
  <2>3. PICK c \in l + 1 .. long - 2 : c = close
    <3>1. closes = FencesFrom(text, l + 1)
      BY <2>2
    <3>2. closes \in SUBSET (1 .. long) /\ \A i \in closes : i \in l + 1 .. long - 2
      <4> HIDE DEF closes
      <4>1. QED BY <1>1, <2>1, <3>1 DEF FencesFrom
    <3> HIDE DEF closes
    <3>3. Min(closes) \in closes
      BY <1>2, <3>2, MinMaxOfPlaces
    <3>4. QED BY <3>2, <3>3
  <2>4. Replaced(e) = [text  |-> SubSeq(text, 1, o - 1) \o Placeholder \o SubSeq(text, c + 3, long),
                       files |-> Append(files, [tag |-> SubSeq(text, o + 3, l - 1),
                                                content |-> SubSeq(text, l + 1, c - 1)])]
    BY <1>1, <1>2, <2>1, <2>2, <2>3 DEF Replaced
  <2>5. SubSeq(text, 1, o - 1) \in Seq(Symbols)
    <3>1. 1 \in 1 .. long + 1 /\ o - 1 \in 1 - 1 .. long
      BY <2>1
    <3>2. QED BY <1>1, <3>1, PartOfText
  <2>6. SubSeq(text, c + 3, long) \in Seq(Symbols)
    <3>1. c + 3 \in 1 .. long + 1 /\ long \in c + 3 - 1 .. long
      BY SMTT(30), <2>1, <2>2, <2>3
    <3>2. QED BY <1>1, <3>1, PartOfText
  <2>7. SubSeq(text, o + 3, l - 1) \in Seq(Symbols)
    <3>1. o + 3 \in 1 .. long + 1 /\ l - 1 \in o + 3 - 1 .. long
      BY SMTT(30), <2>1, <2>2
    <3>2. QED BY <1>1, <3>1, PartOfText
  <2>8. SubSeq(text, l + 1, c - 1) \in Seq(Symbols)
    <3>1. l + 1 \in 1 .. long + 1 /\ c - 1 \in l + 1 - 1 .. long
      BY SMTT(30), <2>1, <2>2, <2>3
    <3>2. QED BY <1>1, <3>1, PartOfText
  <2>9. Placeholder \in Seq(Symbols)
    BY DEF Placeholder, Symbols
  <2>10. SubSeq(text, 1, o - 1) \o Placeholder \o SubSeq(text, c + 3, long) \in Seq(Symbols)
    BY <2>5, <2>6, <2>9, ConcatProperties
  <2>11. Append(files, [tag |-> SubSeq(text, o + 3, l - 1),
                        content |-> SubSeq(text, l + 1, c - 1)]) \in Seq(FileSet)
    BY <2>7, <2>8, AppendProperties DEF FileSet
  <2>12. QED BY <2>4, <2>10, <2>11 DEF Extracting
<1>3. CASE ~(/\ opens # {} /\ lines # {} /\ closes # {}
             /\ IsLong(SubSeq(text, line + 1, close - 1)))
  <2>1. Replaced(e) = e
    BY <1>1, <1>3 DEF Replaced
  <2>2. QED BY <2>1
<1>4. QED BY <1>2, <1>3

Extracts(f, text) ==
    f = [n \in 0 .. Len(text) |->
            IF n = 0 THEN [text |-> text, files |-> << >>] ELSE Replaced(f[n - 1])]

LEMMA ExtractIs ==
    ASSUME NEW text
    PROVE  Extract(text) = (CHOOSE g : Extracts(g, text))[Len(text)]
BY DEF Extract, Extracts

\* The turns exist.
LEMMA ExtractExists ==
    ASSUME NEW text \in Seq(Symbols)
    PROVE  \E f : Extracts(f, text)
<1> DEFINE start   == [text |-> text, files |-> << >>]
           replace == [e \in Extracting |-> Replaced(e)]
<1>1. start \in Extracting /\ replace \in [Extracting -> Extracting]
  BY ReplacedType DEF Extracting
<1>2. \A e \in Extracting : replace[e] = Replaced(e)
  OBVIOUS
<1> HIDE DEF start, replace
<1>3. PICK a \in Extracting : a = start
  BY <1>1
<1>4. PICK step \in [Extracting -> Extracting] :
          \A e \in Extracting : step[e] = Replaced(e)
  BY <1>1, <1>2
<1>5. PICK f \in [0 .. Len(text) -> Extracting] : LoopStates(f, Len(text), a, step)
  <2>1. \A n \in Nat : \E f \in [0 .. n -> Extracting] : LoopStates(f, n, a, step)
    BY LoopRuns
  <2>2. QED BY <2>1, LenProperties
<1>6. ASSUME NEW n \in 0 .. Len(text)
      PROVE  f[n] = IF n = 0 THEN a ELSE Replaced(f[n - 1])
  <2>1. CASE n = 0
    BY <1>5, <2>1 DEF LoopStates
  <2>2. CASE n # 0
    <3>1. n \in 1 .. Len(text) /\ n - 1 \in 0 .. Len(text)
      BY <2>2, LenProperties
    <3>2. QED BY <1>4, <1>5, <2>2, <3>1 DEF LoopStates
  <2>3. QED BY <2>1, <2>2
<1>7. f = [n \in 0 .. Len(text) |-> IF n = 0 THEN a ELSE Replaced(f[n - 1])]
  BY <1>6
<1>8. QED BY <1>3, <1>7 DEF Extracts, start

\* What the turns leave are a text and files.
\* What every turn keeps holds of what the turns leave.
LEMMA ExtractKeeps ==
    ASSUME NEW text \in Seq(Symbols), NEW Good,
           [text |-> text, files |-> << >>] \in Good,
           \A e \in Good : Replaced(e) \in Good
    PROVE  Extract(text) \in Good
<1> DEFINE a == [text |-> text, files |-> << >>]
<1>1. PICK f : f = (CHOOSE g : Extracts(g, text))
  OBVIOUS
<1>2. Extracts(f, text) /\ Len(text) \in Nat
  BY <1>1, ExtractExists, LenProperties
<1> DEFINE value(n) == IF n = 0 THEN a ELSE Replaced(f[n - 1])
<1>3. f = [n \in 0 .. Len(text) |-> value(n)]
  BY <1>2, Zenon DEF Extracts
<1> HIDE DEF value
<1>4. \A n \in 0 .. Len(text) : f[n] = value(n)
  BY <1>3
<1> DEFINE S == {n \in Nat : n <= Len(text) => f[n] \in Good}
<1>5. 0 \in S
  <2>1. 0 \in 0 .. Len(text) /\ value(0) = a
    BY <1>2 DEF value
  <2>2. f[0] \in Good
    BY <1>4, <2>1
  <2>3. QED BY <2>2
<1>6. ASSUME NEW n \in S PROVE n + 1 \in S
  <2> SUFFICES ASSUME n + 1 <= Len(text) PROVE f[n + 1] \in Good
    OBVIOUS
  <2>1. /\ n \in Nat /\ f[n] \in Good /\ n + 1 \in 0 .. Len(text)
        /\ n + 1 # 0 /\ n + 1 - 1 = n
    BY <1>2
  <2>2. f[n + 1] = Replaced(f[n])
    BY <1>4, <2>1 DEF value
  <2>3. QED BY <2>1, <2>2
<1>7. S = Nat
  <2> HIDE DEF S
  <2>1. S \in SUBSET Nat
    BY DEF S
  <2>2. QED BY <1>5, <1>6, <2>1, InductiveSet
<1>8. f[Len(text)] \in Good
  <2>1. Len(text) \in S
    BY <1>2, <1>7
  <2>2. QED BY <1>2, <2>1
<1>9. QED BY <1>1, <1>8, ExtractIs

LEMMA ExtractType ==
    ASSUME NEW text \in Seq(Symbols)
    PROVE  Extract(text) \in Extracting
<1>1. [text |-> text, files |-> << >>] \in Extracting
  BY EmptySeq DEF Extracting
<1>2. QED BY <1>1, ReplacedType, ExtractKeeps

-----------------------------------------------------------------------------
(* sendReply. *)

\* A text that is within the limit and has something to read.
Fits(text) ==
    /\ Len(Runes(text)) <= MaxRunes
    /\ \E r \in DOMAIN Runes(text) : Runes(text)[r] # "nl"

FittingTexts == {text \in Seq(Symbols) : Fits(text)}
GoodPieces ==
    [kind : {"text"}, text : FittingTexts] \cup [kind : {"file"}, file : FileSet]

LEMMA GoodMessageFits ==
    ASSUME NEW text, GoodMessage(text) PROVE text \in FittingTexts
<1>1. /\ text \in Seq(Characters) /\ Len(text) <= MaxRunes /\ text \in Seq(Symbols)
      /\ DOMAIN text = 1 .. Len(text) /\ \E i \in 1 .. Len(text) : text[i] # "nl"
  BY LenProperties DEF GoodMessage, Characters
<1>2. Runes(text) = text
  BY <1>1, RunesOfCharacters
<1>3. QED BY <1>1, <1>2 DEF FittingTexts, Fits

\* SplitText: what it makes of a formatted text fits.
LEMMA SplitFits ==
    ASSUME NEW text, Proper(text)
    PROVE  SplitText(text) \in Seq(FittingTexts)
<1>1. PICK runes : runes = Runes(text)
  OBVIOUS
<1>2. /\ Proper(runes) /\ runes \in Seq(Characters)
      /\ text \in Seq(Symbols) /\ Len(runes) \in Nat
  BY <1>1, RunesAreProper, LenProperties DEF Proper
<1>3. CASE Len(runes) <= MaxRunes
  <2>1. SplitText(text) = <<text>>
    BY <1>1, <1>3 DEF SplitText
  <2>2. 1 \in DOMAIN runes /\ runes[1] # "nl"
    BY <1>2, EmptySeq, LenProperties DEF Proper
  <2>3. text \in FittingTexts
    BY <1>1, <1>2, <1>3, <2>2 DEF FittingTexts, Fits
  <2>4. QED BY <2>1, <2>3
<1>4. CASE ~(Len(runes) <= MaxRunes)
  <2>1. PICK all : all = SplitRunes(runes)
    OBVIOUS
  <2>2. SplitText(text) = all
    BY <1>1, <1>4, <2>1 DEF SplitText
  <2>3. all \in Seq(Seq(Characters)) /\ \A i \in 1 .. Len(all) : GoodMessage(all[i])
    BY <1>2, <2>1, SplitsIntoMessages
  <2>4. \A i \in 1 .. Len(all) : all[i] \in FittingTexts
    BY <2>3, GoodMessageFits
  <2>5. QED BY <2>2, <2>3, <2>4
<1>5. QED BY <1>3, <1>4

\* What is made of a segment: messages that fit, and files.
LEMMA PartsAreGood ==
    ASSUME NEW text \in Seq(Bytes)
    PROVE  LET extracted == Extract(text)
               formatted == FormatForWeChat(extracted.text)
               texts     == IF formatted = << >> THEN << >> ELSE SplitText(formatted)
           IN  /\ Map(texts, TextPiece) \in Seq(GoodPieces)
               /\ Map(extracted.files, FilePiece) \in Seq(GoodPieces)
<1>1. text \in Seq(Symbols)
  BY DEF Symbols
<1>2. PICK extracted \in Extracting : extracted = Extract(text)
  BY <1>1, ExtractType
<1>3. PICK formatted : formatted = FormatForWeChat(extracted.text)
  OBVIOUS
<1>4. PICK texts \in Seq(FittingTexts) :
          texts = IF formatted = << >> THEN << >> ELSE SplitText(formatted)
  <2> DEFINE made == IF formatted = << >> THEN << >> ELSE SplitText(formatted)
  <2>1. CASE formatted = << >>
    <3>1. made = << >> /\ << >> \in Seq(FittingTexts)
      BY <2>1
    <3>2. QED BY <3>1
  <2>2. CASE formatted # << >>
    <3>1. Proper(formatted)
      BY <1>2, <1>3, <2>2, FormatIsProper DEF Extracting
    <3>2. made = SplitText(formatted)
      BY <2>2
    <3>3. made \in Seq(FittingTexts)
      BY <3>1, <3>2, SplitFits
    <3>4. QED BY <3>3
  <2>3. QED BY <2>1, <2>2
<1>5. PICK files \in Seq(FileSet) : files = extracted.files
  BY <1>2 DEF Extracting
<1>6. Map(texts, TextPiece) \in Seq(GoodPieces)
  <2>1. DOMAIN texts = 1 .. Len(texts) /\ Len(texts) \in Nat
        /\ \A i \in 1 .. Len(texts) : texts[i] \in FittingTexts
    BY LenProperties, ElementOfSeq
  <2>2. \A i \in 1 .. Len(texts) : TextPiece(texts[i]) \in GoodPieces
    BY <2>1 DEF TextPiece, GoodPieces
  <2>3. Map(texts, TextPiece) = [i \in 1 .. Len(texts) |-> TextPiece(texts[i])]
    BY <2>1 DEF Map
  <2>4. QED BY <2>1, <2>2, <2>3
<1>7. Map(files, FilePiece) \in Seq(GoodPieces)
  <2>1. DOMAIN files = 1 .. Len(files) /\ Len(files) \in Nat
        /\ \A i \in 1 .. Len(files) : files[i] \in FileSet
    BY LenProperties, ElementOfSeq
  <2>2. \A i \in 1 .. Len(files) : FilePiece(files[i]) \in GoodPieces
    BY <2>1 DEF FilePiece, GoodPieces
  <2>3. Map(files, FilePiece) = [i \in 1 .. Len(files) |-> FilePiece(files[i])]
    BY <2>1 DEF Map
  <2>4. QED BY <2>1, <2>2, <2>3
<1>8. QED BY <1>2, <1>3, <1>4, <1>5, <1>6, <1>7, Zenon

LEMMA PiecesAreGood ==
    ASSUME NEW text \in Seq(Bytes)
    PROVE  Pieces(text) \in Seq(GoodPieces)
BY PartsAreGood, ConcatProperties DEF Pieces

\* All that is to be sent and all that has been sent is good.
DeliveryInv ==
    /\ pending \in Seq(GoodPieces)
    /\ chat \in Seq([piece : GoodPieces, arrived : BOOLEAN])

LEMMA GivesInv ==
    ASSUME DeliveryInv, TypeOK', NEW step, GivesSegment(step)
    PROVE  DeliveryInv'
<1>1. CASE Len(sent') > Len(sent)
  <2>1. PICK all : all = sent'
    OBVIOUS
  <2>2. all \in Seq(Seq(Bytes)) /\ all # << >>
    BY <1>1, <2>1 DEF TypeOK
  <2>3. Last(all) \in Seq(Bytes)
    BY <2>2, LenProperties, EmptySeq, ElementOfSeq DEF Last
  <2>4. Pieces(Last(all)) \in Seq(GoodPieces)
    BY <2>3, PiecesAreGood
  <2>5. QED BY <1>1, <2>1, <2>4 DEF GivesSegment, DeliveryInv
<1>2. CASE ~(Len(sent') > Len(sent))
  BY <1>2 DEF GivesSegment, DeliveryInv
<1>3. QED BY <1>1, <1>2

LEMMA SendPieceInv == ASSUME DeliveryInv, SendPiece PROVE DeliveryInv'
<1>1. pending # << >> /\ pending' = Tail(pending) /\ pending \in Seq(GoodPieces)
  BY DEF SendPiece, RestAfter, DeliveryInv
<1>2. Head(pending) \in GoodPieces /\ pending' \in Seq(GoodPieces)
  BY <1>1
<1>3. PICK arrived \in BOOLEAN :
          chat' = Append(chat, [piece |-> Head(pending), arrived |-> arrived])
  BY DEF SendPiece
<1>4. chat' \in Seq([piece : GoodPieces, arrived : BOOLEAN])
  BY <1>2, <1>3, AppendProperties DEF DeliveryInv
<1>5. QED BY <1>2, <1>4 DEF DeliveryInv

LEMMA DeliveryInvFits == DeliveryInv => MessagesFit
<1> SUFFICES ASSUME DeliveryInv PROVE MessagesFit
  OBVIOUS
<1>1. PICK sentPieces : sentPieces = Map(chat, LAMBDA c : c.piece)
  OBVIOUS
<1>2. sentPieces \in Seq(GoodPieces)
  <2>1. /\ DOMAIN chat = 1 .. Len(chat) /\ Len(chat) \in Nat
        /\ \A i \in 1 .. Len(chat) : chat[i] \in [piece : GoodPieces, arrived : BOOLEAN]
    BY LenProperties, ElementOfSeq DEF DeliveryInv
  <2>2. sentPieces = [i \in 1 .. Len(chat) |-> chat[i].piece]
    BY <1>1, <2>1 DEF Map
  <2>3. QED BY <2>1, <2>2
<1>3. PICK all : all = AllPieces
  OBVIOUS
<1>4. all \in Seq(GoodPieces)
  BY <1>1, <1>2, <1>3, ConcatProperties DEF AllPieces, DeliveryInv
<1>5. ASSUME NEW i \in DOMAIN all, all[i].kind = "text" PROVE Fits(all[i].text)
  <2>1. all[i] \in GoodPieces
    BY <1>4, ElementOfSeq, LenProperties
  <2>2. all[i].text \in FittingTexts
    BY <1>5, <2>1 DEF GoodPieces
  <2>3. QED BY <2>2 DEF FittingTexts
<1>6. QED BY <1>3, <1>5 DEF MessagesFit, Fits

\* Whatever the agent writes, in whatever chunks, and whatever fails to arrive:
\* no message is longer than SplitText's limit, and none is of line breaks alone.
THEOREM MessagesAlwaysFit == DeliverySpec => []MessagesFit
<1>1. DeliveryInit => DeliveryInv
  BY DEF DeliveryInit, DeliveryInv
<1>2. TypeOK' /\ DeliveryInv /\ [DeliveryNext]_<<vars, deliveryVars>> => DeliveryInv'
  <2> SUFFICES ASSUME TypeOK', DeliveryInv, [DeliveryNext]_<<vars, deliveryVars>>
               PROVE  DeliveryInv'
    OBVIOUS
  <2>1. CASE GivesSegment(SendSegment)
    BY <2>1, GivesInv
  <2>2. CASE GivesSegment(Flush)
    BY <2>2, GivesInv
  <2>3. CASE SendPiece
    BY <2>3, SendPieceInv
  <2>4. CASE UNCHANGED deliveryVars
    BY <2>4 DEF DeliveryInv, deliveryVars
  <2>5. CASE NewBuffer /\ pending = << >> /\ chat' = << >> /\ UNCHANGED pending
    BY <2>5 DEF DeliveryInv
  <2>6. QED BY <2>1, <2>2, <2>3, <2>4, <2>5 DEF DeliveryNext, deliveryVars
<1>3. QED BY <1>1, <1>2, DeliveryInvFits, DeliveryUsesBuffer, TypeCorrect, PTL DEF DeliverySpec
=============================================================================

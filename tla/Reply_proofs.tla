---------------------------- MODULE Reply_proofs ----------------------------
(***************************************************************************)
(* What reaches the chat of what the agent wrote, for every threshold,     *)
(* every limit and every set of chunks (ReplyRebuilt).  Extracting keeps   *)
(* what a reader makes of a text who puts the files in the places of their *)
(* placeholders; past the stripping of the Markdown, formatting and        *)
(* splitting keep what a text shows.                                       *)
(***************************************************************************)
EXTENDS Delivery_proofs

-----------------------------------------------------------------------------
(* Sequences. *)

\* A set of texts that has the empty one, and with a text all that are longer
\* by one, has all.
LEMMA AppendInduction ==
    ASSUME NEW A, NEW S, << >> \in S,
           \A text \in Seq(A) : text \in S => \A c \in A : Append(text, c) \in S
    PROVE  \A text \in Seq(A) : text \in S
<1> DEFINE N == {n \in Nat : \A text \in Seq(A) : Len(text) = n => text \in S}
<1>1. 0 \in N
  BY EmptySeq
<1>2. ASSUME NEW n \in N PROVE n + 1 \in N
  <2> SUFFICES ASSUME NEW text \in Seq(A), Len(text) = n + 1 PROVE text \in S
    OBVIOUS
  <2>1. PICK start \in Seq(A), c \in A : text = Append(start, c)
    BY EmptySeq, SequenceEmptyOrAppend
  <2>2. start \in S
    BY <2>1, AppendProperties, LenProperties
  <2>3. QED BY <2>1, <2>2
<1>3. N = Nat
  <2> HIDE DEF N
  <2>1. N \in SUBSET Nat
    BY DEF N
  <2>2. QED BY <1>1, <1>2, <2>1, InductiveSet
<1>4. QED BY <1>3, LenProperties

\* What is put in front of a sequence is its head.
InFront(c, s) ==
    LET all == <<c>> \o s
    IN  all # << >> /\ Head(all) = c /\ Tail(all) = s

LEMMA FirstOf == ASSUME NEW A, NEW c \in A, NEW s \in Seq(A) PROVE InFront(c, s)
<1>1. PICK all \in Seq(A), one \in Seq(A) : all = one \o s /\ one = <<c>>
  <2>1. <<c>> \in Seq(A)
    OBVIOUS
  <2>2. <<c>> \o s \in Seq(A)
    BY <2>1, ConcatProperties
  <2>3. QED BY <2>1, <2>2, Zenon
<1>2. PICK n \in Nat : n = Len(s)
  BY LenProperties
<1>3. Len(one) = 1 /\ one[1] = c
  BY <1>1
<1>4. Len(all) = n + 1 /\ all[1] = c /\ \A i \in 1 .. n : all[i + 1] = s[i]
  <2>1. /\ Len(all) = Len(one) + Len(s)
        /\ \A i \in 1 .. Len(one) + Len(s) :
              all[i] = IF i <= Len(one) THEN one[i] ELSE s[i - Len(one)]
    BY <1>1, ConcatProperties
  <2>2. Len(all) = 1 + n /\ \A i \in 1 .. 1 + n :
              all[i] = IF i <= 1 THEN one[i] ELSE s[i - 1]
    BY <1>2, <1>3, <2>1
  <2>3. QED BY <1>3, <2>2
<1>5. all # << >>
  BY <1>4, EmptySeq
<1>6. Head(all) = c /\ Tail(all) \in Seq(A) /\ Len(Tail(all)) = n
      /\ \A i \in 1 .. n : Tail(all)[i] = all[i + 1]
  BY <1>4, <1>5, HeadTailProperties
<1>7. Tail(all) = s
  <2>1. PICK rest \in Seq(A) : rest = Tail(all)
    BY <1>6
  <2>2. Len(rest) = Len(s) /\ \A i \in 1 .. Len(rest) : rest[i] = s[i]
    BY <1>2, <1>4, <1>6, <2>1
  <2>3. QED BY <2>1, <2>2, SeqEqual
<1>8. QED BY <1>1, <1>5, <1>6, <1>7, Zenon DEF InFront

\* The texts of two sequences of texts, one after the other.
LEMMA FlattenConcat ==
    ASSUME NEW A, NEW texts \in Seq(Seq(A))
    PROVE  \A more \in Seq(Seq(A)) :
              FlattenSeq(texts \o more) = FlattenSeq(texts) \o FlattenSeq(more)
<1> DEFINE S == {more \in Seq(Seq(A)) :
                    FlattenSeq(texts \o more) = FlattenSeq(texts) \o FlattenSeq(more)}
<1>1. << >> \in S
  <2>1. texts \o << >> = texts /\ << >> \in Seq(Seq(A))
    BY EmptySeq, ConcatEmptySeq
  <2>2. FlattenSeq(texts) \o << >> = FlattenSeq(texts)
    BY FlattenType, ConcatEmptySeq
  <2>3. QED BY <2>1, <2>2, FlattenEmpty
<1>2. ASSUME NEW more \in Seq(Seq(A)), more \in S, NEW c \in Seq(A)
      PROVE  Append(more, c) \in S
  <2>1. FlattenSeq(texts \o more) = FlattenSeq(texts) \o FlattenSeq(more)
    BY <1>2
  <2>2. texts \o Append(more, c) = Append(texts \o more, c)
        /\ texts \o more \in Seq(Seq(A)) /\ Append(more, c) \in Seq(Seq(A))
    <3>1. texts \o Append(more, c) = Append(texts \o more, c)
      BY ConcatAppend
    <3>2. texts \o more \in Seq(Seq(A))
      BY ConcatProperties
    <3>3. Append(more, c) \in Seq(Seq(A))
      BY AppendProperties
    <3>4. QED BY <3>1, <3>2, <3>3, Zenon
  <2>3. /\ FlattenSeq(Append(texts \o more, c)) = FlattenSeq(texts \o more) \o c
        /\ FlattenSeq(Append(more, c)) = FlattenSeq(more) \o c
    BY <2>2, FlattenLast
  <2>4. PICK f \in Seq(A), m \in Seq(A) :
            f = FlattenSeq(texts) /\ m = FlattenSeq(more)
    BY FlattenType
  <2>5. Group(f, m, c)
    BY Grouped
  <2>6. QED BY <2>1, <2>2, <2>3, <2>4, <2>5, Zenon DEF Group
<1>3. \A more \in Seq(Seq(A)) : more \in S
  <2> HIDE DEF S
  <2>1. QED BY <1>1, <1>2, AppendInduction
<1>4. QED BY <1>3

\* One text, flattened, is that text.
LEMMA FlattenOne == ASSUME NEW A, NEW text \in Seq(A) PROVE FlattenSeq(<<text>>) = text
<1>1. << >> \in Seq(Seq(A)) /\ Append(<< >>, text) = <<text>>
  OBVIOUS
<1>2. FlattenSeq(Append(<< >>, text)) = text
  BY <1>1, FlattenAppend
<1>3. QED BY <1>1, <1>2

\* Empty texts make an empty text.
LEMMA FlattenNothing ==
    ASSUME NEW A
    PROVE  \A texts \in Seq({<< >>}) : texts \in Seq(Seq(A)) /\ FlattenSeq(texts) = << >>
<1> DEFINE S == {texts \in Seq({<< >>}) : FlattenSeq(texts) = << >>}
<1>1. << >> \in S
  BY FlattenEmpty, EmptySeq
<1>2. ASSUME NEW texts \in Seq({<< >>}), texts \in S, NEW none \in {<< >>}
      PROVE  Append(texts, none) \in S
  <2>1. Append(texts, none) \in Seq({<< >>})
    BY AppendProperties
  <2>2. {<< >>} \subseteq Seq(A)
    BY EmptySeq
  <2>3. texts \in Seq(Seq(A)) /\ none \in Seq(A)
    BY <2>2, SeqMonotonic
  <2>4. FlattenSeq(Append(texts, none)) = FlattenSeq(texts) \o none
    BY <2>3, FlattenLast
  <2>5. << >> \o << >> = << >>
    OBVIOUS
  <2>6. QED BY <1>2, <2>1, <2>4, <2>5
<1>3. \A texts \in Seq({<< >>}) : texts \in S
  <2> HIDE DEF S
  <2>1. QED BY <1>1, <1>2, AppendInduction
<1>4. {<< >>} \subseteq Seq(A)
  BY EmptySeq
<1>5. \A texts \in Seq({<< >>}) : texts \in Seq(Seq(A))
  BY <1>4, SeqMonotonic
<1>6. QED BY <1>3, <1>5

\* Map with a function in the place of an operator.
Mapped(s, op) == [i \in DOMAIN s |-> op[s[i]]]

\* What is made of the elements of two sequences, one after the other.
MapsBoth(a, b, op) == Mapped(a \o b, op) = Mapped(a, op) \o Mapped(b, op)

LEMMA MappedConcat ==
    ASSUME NEW A, NEW B, NEW op \in [A -> B], NEW a \in Seq(A), NEW b \in Seq(A)
    PROVE  MapsBoth(a, b, op)
<1>1. PICK m \in Nat, n \in Nat, both \in Seq(A) :
          m = Len(a) /\ n = Len(b) /\ both = a \o b
  BY LenProperties, ConcatProperties
<1>2. /\ Len(both) = m + n /\ DOMAIN a = 1 .. m /\ DOMAIN b = 1 .. n
      /\ DOMAIN both = 1 .. m + n
      /\ \A i \in 1 .. m + n : both[i] = IF i <= m THEN a[i] ELSE b[i - m]
  <2>1. /\ Len(a \o b) = Len(a) + Len(b)
        /\ \A i \in 1 .. Len(a) + Len(b) : (a \o b)[i] =
              IF i <= Len(a) THEN a[i] ELSE b[i - Len(a)]
    BY ConcatProperties
  <2>2. Len(both) = m + n
        /\ \A i \in 1 .. m + n : both[i] = IF i <= m THEN a[i] ELSE b[i - m]
    BY <1>1, <2>1
  <2>3. DOMAIN a = 1 .. m /\ DOMAIN b = 1 .. n /\ DOMAIN both = 1 .. Len(both)
    BY <1>1, LenProperties
  <2>4. QED BY <2>2, <2>3
<1>3. PICK f, g, h :
          /\ f = [i \in 1 .. m |-> op[a[i]]] /\ g = [i \in 1 .. n |-> op[b[i]]]
          /\ h = [i \in 1 .. m + n |-> op[both[i]]]
  OBVIOUS
<1>4. /\ \A i \in 1 .. m : a[i] \in A
      /\ \A i \in 1 .. n : b[i] \in A
      /\ \A i \in 1 .. m + n : both[i] \in A
  <2>1. m + n \in Nat
    OBVIOUS
  <2>2. QED BY <1>1, <1>2, <2>1, ElementOfSeq
<1>5. f \in Seq(B) /\ Len(f) = m /\ \A i \in 1 .. m : f[i] = op[a[i]]
  <2>1. f \in [1 .. m -> B] /\ \A i \in 1 .. m : f[i] = op[a[i]]
    BY <1>3, <1>4
  <2>2. f \in Seq(B) /\ Len(f) = m
    BY <2>1
  <2>3. QED BY <2>1, <2>2
<1>6. g \in Seq(B) /\ Len(g) = n /\ \A i \in 1 .. n : g[i] = op[b[i]]
  <2>1. g \in [1 .. n -> B] /\ \A i \in 1 .. n : g[i] = op[b[i]]
    BY <1>3, <1>4
  <2>2. g \in Seq(B) /\ Len(g) = n
    BY <2>1
  <2>3. QED BY <2>1, <2>2
<1>7. h \in Seq(B) /\ Len(h) = m + n /\ \A i \in 1 .. m + n : h[i] = op[both[i]]
  <2>1. h \in [1 .. m + n -> B] /\ \A i \in 1 .. m + n : h[i] = op[both[i]]
    BY <1>3, <1>4
  <2>2. PICK k \in Nat : k = m + n
    OBVIOUS
  <2>3. h \in Seq(B) /\ Len(h) = k
    BY <2>1, <2>2
  <2>4. QED BY <2>1, <2>2, <2>3
<1>8. /\ f \o g \in Seq(B) /\ Len(f \o g) = m + n
      /\ \A i \in 1 .. m + n : (f \o g)[i] = IF i <= m THEN f[i] ELSE g[i - m]
  <2>1. /\ f \o g \in Seq(B) /\ Len(f \o g) = Len(f) + Len(g)
        /\ \A i \in 1 .. Len(f) + Len(g) : (f \o g)[i] =
              IF i <= Len(f) THEN f[i] ELSE g[i - Len(f)]
    BY <1>5, <1>6, ConcatProperties
  <2>2. QED BY <1>5, <1>6, <2>1
<1>9. \A i \in 1 .. m + n : h[i] = (f \o g)[i]
  <2> SUFFICES ASSUME NEW i \in 1 .. m + n PROVE h[i] = (f \o g)[i]
    OBVIOUS
  <2>1. CASE i <= m
    <3>1. i \in 1 .. m
      BY <2>1
    <3>2. QED BY <1>2, <1>5, <1>7, <1>8, <2>1, <3>1
  <2>2. CASE ~(i <= m)
    <3>1. i - m \in 1 .. n
      BY <2>2
    <3>2. QED BY <1>2, <1>6, <1>7, <1>8, <2>2, <3>1
  <2>3. QED BY <2>1, <2>2
<1>10. h = f \o g
  BY <1>7, <1>8, <1>9, SeqEqual
<1>11. QED BY <1>1, <1>2, <1>3, <1>10, Zenon DEF MapsBoth, Mapped

\* Parts of a text that follow one another.
LEMMA Adjacent ==
    ASSUME NEW A, NEW text \in Seq(A), NEW m \in Nat, NEW k \in Nat, NEW n \in Nat,
           1 <= m, m <= k + 1, k <= n, n <= Len(text)
    PROVE  SubSeq(text, m, k) \o SubSeq(text, k + 1, n) = SubSeq(text, m, n)
<1>1. m \in 1 .. Len(text) + 1 /\ k \in m - 1 .. Len(text) /\ n \in k .. Len(text)
  BY LenProperties
<1>2. QED BY <1>1, ConcatAdjacentSubSeq

\* The two parts of a text that is cut.
LEMMA CutInTwo ==
    ASSUME NEW A, NEW text \in Seq(A), NEW cut \in 0 .. Len(text)
    PROVE  /\ SubSeq(text, 1, cut) \in Seq(A)
           /\ SubSeq(text, cut + 1, Len(text)) \in Seq(A)
           /\ text = SubSeq(text, 1, cut) \o SubSeq(text, cut + 1, Len(text))
<1>1. Len(text) \in Nat /\ \A i \in 1 .. Len(text) : text[i] \in A
  BY LenProperties, ElementOfSeq
<1>2. SubSeq(text, 1, cut) \in Seq(A)
  BY <1>1, SubSeqProperties
<1>3. SubSeq(text, cut + 1, Len(text)) \in Seq(A)
  BY <1>1, SubSeqProperties
<1>4. SubSeq(text, 1, cut) \o SubSeq(text, cut + 1, Len(text)) = SubSeq(text, 1, Len(text))
  <2>1. 1 \in 1 .. Len(text) + 1 /\ cut \in 1 - 1 .. Len(text) /\ Len(text) \in cut .. Len(text)
    BY <1>1
  <2>2. QED BY <2>1, ConcatAdjacentSubSeq
<1>5. QED BY <1>1, <1>2, <1>3, <1>4, SubSeqFull

\* The beginning of a text.
LEMMA Beginning ==
    ASSUME NEW A, NEW text \in Seq(A), NEW e \in 0 .. Len(text)
    PROVE  /\ SubSeq(text, 1, e) \in Seq(A) /\ Len(SubSeq(text, 1, e)) = e
           /\ \A i \in 1 .. e : SubSeq(text, 1, e)[i] = text[i]
<1>1. PICK start : start = SubSeq(text, 1, e)
  OBVIOUS
<1>2. 1 \in 1 .. Len(text) + 1 /\ e \in 1 - 1 .. Len(text) /\ e - 1 + 1 = e
      /\ \A i \in 1 .. e : 1 + i - 1 = i
  BY LenProperties
<1>3. /\ start \in Seq(A) /\ Len(start) = e - 1 + 1
      /\ \A i \in 1 .. e - 1 + 1 : start[i] = text[1 + i - 1]
  BY <1>1, <1>2, PartOfText
<1>4. Len(start) = e /\ \A i \in 1 .. e : start[i] = text[i]
  BY <1>2, <1>3
<1>5. QED BY <1>1, <1>3, <1>4, Zenon

\* A part of a text has its ends in common with it.
SameEnds(text, m, n) ==
    LET part == SubSeq(text, m, n)
    IN  part # << >> /\ part[1] = text[m] /\ part[Len(part)] = text[n]

LEMMA PartEnds ==
    ASSUME NEW A, NEW text \in Seq(A), NEW m \in Nat, NEW n \in Nat,
           1 <= m, m <= n, n <= Len(text)
    PROVE  SameEnds(text, m, n)
<1>1. PICK part : part = SubSeq(text, m, n)
  OBVIOUS
<1>2. m \in 1 .. Len(text) + 1 /\ n \in m - 1 .. Len(text)
  BY LenProperties
<1>3. /\ part \in Seq(A) /\ Len(part) = n - m + 1
      /\ \A i \in 1 .. n - m + 1 : part[i] = text[m + i - 1]
  BY <1>1, <1>2, PartOfText
<1>4. PICK k \in Nat : k = n - m + 1 /\ 1 \in 1 .. k /\ k \in 1 .. k
          /\ m + 1 - 1 = m /\ m + k - 1 = n
  <2>1. n - m + 1 \in Nat /\ 1 <= n - m + 1 /\ m + (n - m + 1) - 1 = n
    OBVIOUS
  <2>2. QED BY <2>1
<1>5. part[1] = text[m] /\ part[k] = text[n] /\ Len(part) = k
  BY <1>3, <1>4
<1>6. part # << >>
  <2>1. Len(part) # 0
    BY <1>4, <1>5
  <2>2. QED BY <2>1, EmptySeq
<1>7. QED BY <1>1, <1>5, <1>6, Zenon DEF SameEnds

\* A text that is cut at three places.
CutAt(text, a, o, c) ==
    /\ SubSeq(text, 1, a) \o SubSeq(text, a + 1, o - 1) = SubSeq(text, 1, o - 1)
    /\ SubSeq(text, a + 1, o - 1) \o SubSeq(text, o, c + 2) = SubSeq(text, a + 1, c + 2)
    /\ SubSeq(text, a + 1, c + 2) \o SubSeq(text, c + 3, Len(text))
          = SubSeq(text, a + 1, Len(text))

\* Its parts follow one another.
LEMMA CutThrice ==
    ASSUME NEW A, NEW text \in Seq(A), NEW a \in Nat, NEW o \in Nat, NEW c \in Nat,
           a < o, o <= c, c + 2 <= Len(text)
    PROVE  CutAt(text, a, o, c)
<1>1. PICK n \in Nat, one \in Nat : n = Len(text) /\ one = 1
  BY LenProperties
<1>2. PICK b \in Nat, e \in Nat, p \in Nat :
          b = a + 1 /\ p = o - 1 /\ e = c + 2 /\ p + 1 = o /\ e + 1 = c + 3
  <2>1. a + 1 \in Nat /\ o - 1 \in Nat /\ c + 2 \in Nat
        /\ o - 1 + 1 = o /\ c + 2 + 1 = c + 3
    OBVIOUS
  <2>2. QED BY <2>1
<1>3. /\ one <= one /\ one <= b /\ a <= p /\ p <= n /\ 1 <= b
      /\ b <= p + 1 /\ p <= e /\ b <= e + 1 /\ e <= n /\ n <= n
  BY <1>1, <1>2
<1>4. SubSeq(text, one, a) \o SubSeq(text, b, p) = SubSeq(text, one, p)
  <2>1. 1 <= one /\ one <= a + 1 /\ a <= p /\ p <= Len(text)
    BY <1>1, <1>2, <1>3
  <2>2. SubSeq(text, one, a) \o SubSeq(text, a + 1, p) = SubSeq(text, one, p)
    BY <2>1, Adjacent
  <2>3. QED BY <1>2, <2>2
<1>5. SubSeq(text, b, p) \o SubSeq(text, p + 1, e) = SubSeq(text, b, e)
  <2>1. p <= e /\ e <= Len(text)
    BY <1>1, <1>2
  <2>2. QED BY <1>3, <2>1, Adjacent
<1>6. SubSeq(text, b, e) \o SubSeq(text, e + 1, n) = SubSeq(text, b, n)
  <2>1. n <= Len(text)
    BY <1>1
  <2>2. QED BY <1>3, <2>1, Adjacent
<1>7. QED BY <1>1, <1>2, <1>4, <1>5, <1>6, Zenon DEF CutAt

-----------------------------------------------------------------------------
(* Runes. *)

\* What each byte of a text contributes to its characters.
RuneParts(text) == [i \in DOMAIN text |-> RunePart(text, i)]

\* The characters that are made of these bytes.
Decoded(A) == (A \ {"lead", "trail"}) \cup {"wide", "bad"}

LEMMA RunePartsType ==
    ASSUME NEW A, NEW text \in Seq(A)
    PROVE  /\ RuneParts(text) \in Seq(Seq(Decoded(A)))
           /\ Len(RuneParts(text)) = Len(text)
           /\ \A i \in 1 .. Len(text) : RuneParts(text)[i] = RunePart(text, i)
<1>1. /\ Len(text) \in Nat /\ DOMAIN text = 1 .. Len(text)
      /\ \A i \in 1 .. Len(text) : text[i] \in A
  BY LenProperties, ElementOfSeq
<1>2. \A i \in 1 .. Len(text) : RunePart(text, i) \in Seq(Decoded(A))
  <2> SUFFICES ASSUME NEW i \in 1 .. Len(text)
               PROVE  RunePart(text, i) \in Seq(Decoded(A))
    OBVIOUS
  <2>1. RunePart(text, i) \in {<< >>, <<"wide">>, <<"bad">>} \/
        (text[i] \notin {"lead", "trail"} /\ RunePart(text, i) = <<text[i]>>)
    BY Zenon DEF RunePart
  <2>2. "wide" \in Decoded(A) /\ "bad" \in Decoded(A)
        /\ (text[i] \notin {"lead", "trail"} => text[i] \in Decoded(A))
    BY <1>1 DEF Decoded
  <2>3. /\ << >> \in Seq(Decoded(A)) /\ <<"wide">> \in Seq(Decoded(A))
        /\ <<"bad">> \in Seq(Decoded(A))
        /\ text[i] \notin {"lead", "trail"} => <<text[i]>> \in Seq(Decoded(A))
    BY <2>2
  <2>4. QED BY <2>1, <2>3
<1> DEFINE part(i) == RunePart(text, i)
<1>3. RuneParts(text) = [i \in 1 .. Len(text) |-> part(i)]
  BY <1>1 DEF RuneParts
<1>4. \A i \in 1 .. Len(text) : part(i) \in Seq(Decoded(A))
  BY <1>2
<1> HIDE DEF part
<1>5. [i \in 1 .. Len(text) |-> part(i)] \in [1 .. Len(text) -> Seq(Decoded(A))]
  BY <1>4
<1>6. QED BY <1>1, <1>3, <1>5 DEF part

\* The characters of a text are made of its bytes.
LEMMA RunesType ==
    ASSUME NEW A, NEW text \in Seq(A)
    PROVE  Runes(text) \in Seq(Decoded(A))
BY RunePartsType, FlattenType DEF Runes, RuneParts

LEMMA RunesEmpty == Runes(<< >>) = << >>
<1>1. [i \in DOMAIN << >> |-> RunePart(<< >>, i)] = << >>
  OBVIOUS
<1>2. QED BY <1>1, FlattenEmpty, Zenon DEF Runes

\* A wide character has its first byte in the one text, its second in the other.
Torn(first, second) ==
    /\ first # << >> /\ second # << >>
    /\ first[Len(first)] = "lead" /\ second[1] = "trail"

\* The characters of two texts, where no character is torn between the two.
LEMMA RunesConcat ==
    ASSUME NEW A, NEW first \in Seq(A), NEW second \in Seq(A), ~Torn(first, second)
    PROVE  Runes(first \o second) = Runes(first) \o Runes(second)
<1>1. PICK m \in Nat, n \in Nat : m = Len(first) /\ n = Len(second)
  BY LenProperties
<1>2. PICK both \in Seq(A) : both = first \o second
  BY ConcatProperties
<1>3. /\ Len(both) = m + n
      /\ \A i \in 1 .. m : both[i] = first[i]
      /\ \A i \in 1 .. n : both[m + i] = second[i]
  <2>1. /\ Len(first \o second) = Len(first) + Len(second)
        /\ \A i \in 1 .. Len(first) + Len(second) : (first \o second)[i] =
                     IF i <= Len(first) THEN first[i] ELSE second[i - Len(first)]
    BY ConcatProperties
  <2>2. Len(both) = m + n
        /\ \A i \in 1 .. m + n : both[i] = IF i <= m THEN first[i] ELSE second[i - m]
    BY <1>1, <1>2, <2>1
  <2>3. \A i \in 1 .. n : m + i \in 1 .. m + n /\ ~(m + i <= m) /\ m + i - m = i
    OBVIOUS
  <2>4. \A i \in 1 .. m : i \in 1 .. m + n /\ i <= m
    OBVIOUS
  <2>5. \A i \in 1 .. m : both[i] = first[i]
    BY <2>2, <2>4
  <2>6. ASSUME NEW i \in 1 .. n PROVE both[m + i] = second[i]
    BY <2>2, <2>3
  <2>7. QED BY <2>2, <2>5, <2>6
<1>4. ~(m > 0 /\ n > 0 /\ both[m] = "lead" /\ both[m + 1] = "trail")
  <2> SUFFICES ASSUME m > 0, n > 0, both[m] = "lead", both[m + 1] = "trail"
               PROVE  FALSE
    OBVIOUS
  <2>1. both[m] = first[m] /\ both[m + 1] = second[1]
    BY <1>3
  <2>2. first # << >> /\ second # << >>
    BY <1>1, EmptySeq
  <2>3. QED BY <1>1, <2>1, <2>2 DEF Torn
<1>5. \A i \in 1 .. m : WideAt(both, i) <=> WideAt(first, i)
  <2> SUFFICES ASSUME NEW i \in 1 .. m PROVE WideAt(both, i) <=> WideAt(first, i)
    OBVIOUS
  <2>1. CASE i = m
    BY <1>1, <1>3, <1>4, <2>1 DEF WideAt
  <2>2. CASE i < m
    <3>1. /\ i < m + n /\ i + 1 \in 1 .. m
      BY <2>2
    <3>2. both[i] = first[i] /\ both[i + 1] = first[i + 1]
      BY <1>3, <3>1
    <3>3. QED BY <1>1, <1>3, <2>2, <3>1, <3>2 DEF WideAt
  <2>3. QED BY <2>1, <2>2
<1>6. \A i \in 1 .. n : WideAt(both, m + i) <=> WideAt(second, i)
  <2> SUFFICES ASSUME NEW i \in 1 .. n PROVE WideAt(both, m + i) <=> WideAt(second, i)
    OBVIOUS
  <2>1. both[m + i] = second[i] /\ (m + i < m + n <=> i < n)
    BY <1>3
  <2>2. i < n => both[m + i + 1] = second[i + 1]
    <3>1. i < n => i + 1 \in 1 .. n /\ m + (i + 1) = m + i + 1
      OBVIOUS
    <3>2. QED BY <1>3, <3>1
  <2>3. QED BY <1>1, <1>3, <2>1, <2>2 DEF WideAt
<1>7. \A i \in 1 .. m : RunePart(both, i) = RunePart(first, i)
  <2> SUFFICES ASSUME NEW i \in 1 .. m PROVE RunePart(both, i) = RunePart(first, i)
    OBVIOUS
  <2>1. both[i] = first[i] /\ (WideAt(both, i) <=> WideAt(first, i))
    BY <1>3, <1>5
  <2>2. i > 1 /\ WideAt(both, i - 1) <=> i > 1 /\ WideAt(first, i - 1)
    <3>1. i > 1 => i - 1 \in 1 .. m
      OBVIOUS
    <3>2. QED BY <1>5, <3>1
  <2>3. QED BY <2>1, <2>2, Zenon DEF RunePart
<1>8. \A i \in 1 .. n : RunePart(both, m + i) = RunePart(second, i)
  <2> SUFFICES ASSUME NEW i \in 1 .. n
               PROVE  RunePart(both, m + i) = RunePart(second, i)
    OBVIOUS
  <2>1. both[m + i] = second[i] /\ (WideAt(both, m + i) <=> WideAt(second, i))
    BY <1>3, <1>6
  <2>2. m + i > 1 /\ WideAt(both, m + i - 1) <=> i > 1 /\ WideAt(second, i - 1)
    <3>1. CASE i > 1
      <4>1. i - 1 \in 1 .. n /\ m + (i - 1) = m + i - 1 /\ m + i > 1
        BY <3>1
      <4>2. QED BY <1>6, <3>1, <4>1
    <3>2. CASE i = 1
      <4>1. m + i - 1 = m /\ n > 0 /\ (m + i > 1 <=> m > 0)
        BY <3>2
      <4>2. m > 0 => ~WideAt(both, m)
        BY <1>4, <4>1 DEF WideAt
      <4>3. QED BY <3>2, <4>1, <4>2
    <3>3. QED BY <3>1, <3>2
  <2>3. PICK k : k = m + i
    OBVIOUS
  <2>4. /\ both[k] = second[i] /\ (WideAt(both, k) <=> WideAt(second, i))
        /\ k > 1 /\ WideAt(both, k - 1) <=> i > 1 /\ WideAt(second, i - 1)
    BY <2>1, <2>2, <2>3
  <2>5. RunePart(both, k) = RunePart(second, i)
    BY <2>4, Zenon DEF RunePart
  <2>6. QED BY <2>3, <2>5
<1>9. RuneParts(both) = RuneParts(first) \o RuneParts(second)
  <2>1. PICK f, s, b : f = RuneParts(first) /\ s = RuneParts(second) /\ b = RuneParts(both)
    OBVIOUS
  <2>2. /\ f \in Seq(Seq(Decoded(A))) /\ Len(f) = m
        /\ \A i \in 1 .. m : f[i] = RunePart(first, i)
    BY <1>1, <2>1, RunePartsType
  <2>3. /\ s \in Seq(Seq(Decoded(A))) /\ Len(s) = n
        /\ \A i \in 1 .. n : s[i] = RunePart(second, i)
    BY <1>1, <2>1, RunePartsType
  <2>4. /\ b \in Seq(Seq(Decoded(A))) /\ Len(b) = m + n
        /\ \A i \in 1 .. m + n : b[i] = RunePart(both, i)
    BY <1>3, <2>1, RunePartsType
  <2>5. /\ f \o s \in Seq(Seq(Decoded(A))) /\ Len(f \o s) = m + n
        /\ \A i \in 1 .. m + n : (f \o s)[i] = IF i <= m THEN f[i] ELSE s[i - m]
    BY <2>2, <2>3, ConcatProperties
  <2>6. \A i \in 1 .. m + n : b[i] = (f \o s)[i]
    <3> SUFFICES ASSUME NEW i \in 1 .. m + n PROVE b[i] = (f \o s)[i]
      OBVIOUS
    <3>1. CASE i <= m
      <4>1. i \in 1 .. m
        BY <3>1
      <4>2. QED BY <1>7, <2>2, <2>4, <2>5, <3>1, <4>1
    <3>2. CASE ~(i <= m)
      <4>1. PICK j \in 1 .. n : i = m + j /\ i - m = j
        <5>1. i - m \in 1 .. n /\ i = m + (i - m)
          BY <3>2
        <5>2. QED BY <5>1
      <4>2. b[i] = RunePart(second, j) /\ (f \o s)[i] = s[j]
        BY <1>8, <2>4, <2>5, <3>2, <4>1
      <4>3. QED BY <2>3, <4>2
    <3>3. QED BY <3>1, <3>2
  <2>7. b = f \o s
    BY <2>4, <2>5, <2>6, SeqEqual
  <2>8. QED BY <2>1, <2>7
<1>10. FlattenSeq(RuneParts(both))
          = FlattenSeq(RuneParts(first)) \o FlattenSeq(RuneParts(second))
  <2>1. /\ RuneParts(first) \in Seq(Seq(Decoded(A)))
        /\ RuneParts(second) \in Seq(Seq(Decoded(A)))
    BY RunePartsType
  <2>2. QED BY <1>9, <2>1, FlattenConcat
<1>11. QED BY <1>2, <1>10 DEF Runes, RuneParts

-----------------------------------------------------------------------------
(* Formatting keeps what can be read. *)

\* One byte alone, a part of a wide character is replaced.
LEMMA RunesOne ==
    ASSUME NEW c
    PROVE  Runes(<<c>>) = IF c \in {"lead", "trail"} THEN <<"bad">> ELSE <<c>>
<1> DEFINE one == <<c>>
<1>1. one \in Seq({c}) /\ Len(one) = 1 /\ one[1] = c
  OBVIOUS
<1> HIDE DEF one
<1>2. RunePart(one, 1) = IF c \in {"lead", "trail"} THEN <<"bad">> ELSE <<c>>
  <2>1. ~WideAt(one, 1) /\ ~(1 > 1)
    BY <1>1 DEF WideAt
  <2>2. QED BY <1>1, <2>1, Zenon DEF RunePart
<1>3. PICK parts : parts = RuneParts(one)
  OBVIOUS
<1>4. /\ parts \in Seq(Seq(Decoded({c}))) /\ Len(parts) = 1
      /\ parts[1] = RunePart(one, 1) /\ parts[1] \in Seq(Decoded({c}))
  <2>1. /\ parts \in Seq(Seq(Decoded({c}))) /\ Len(parts) = 1
        /\ \A i \in 1 .. 1 : parts[i] = RunePart(one, i)
    BY <1>1, <1>3, RunePartsType
  <2>2. 1 \in 1 .. 1 /\ 1 \in 1 .. Len(parts)
    BY <2>1
  <2>3. parts[1] \in Seq(Decoded({c}))
    BY <2>1, <2>2, ElementOfSeq
  <2>4. QED BY <2>1, <2>2, <2>3
<1>5. parts = <<parts[1]>>
  BY <1>4
<1>6. FlattenSeq(parts) = parts[1]
  BY <1>4, <1>5, FlattenOne
<1>7. Runes(one) = FlattenSeq(parts)
  BY <1>3 DEF Runes, RuneParts
<1>8. QED BY <1>2, <1>4, <1>6, <1>7 DEF one

LEMMA RunesWide == Runes(<<"lead", "trail">>) = <<"wide">>
<1> DEFINE two == <<"lead", "trail">>
<1>1. two \in Seq(Bytes) /\ Len(two) = 2 /\ two[1] = "lead" /\ two[2] = "trail"
  BY DEF Bytes
<1> HIDE DEF two
<1>2. RunePart(two, 1) = <<"wide">> /\ RunePart(two, 2) = << >>
  <2>1. WideAt(two, 1) /\ ~WideAt(two, 2) /\ 2 > 1 /\ 2 - 1 = 1
    BY <1>1 DEF WideAt
  <2>2. QED BY <1>1, <2>1 DEF RunePart
<1>3. PICK parts : parts = RuneParts(two)
  OBVIOUS
<1>4. /\ parts \in Seq(Seq(Decoded(Bytes))) /\ Len(parts) = 2
      /\ parts[1] = <<"wide">> /\ parts[2] = << >>
      /\ <<"wide">> \in Seq(Decoded(Bytes)) /\ << >> \in Seq(Decoded(Bytes))
  <2>1. /\ parts \in Seq(Seq(Decoded(Bytes))) /\ Len(parts) = 2
        /\ \A i \in 1 .. 2 : parts[i] = RunePart(two, i)
    BY <1>1, <1>3, RunePartsType
  <2>2. parts[1] = <<"wide">> /\ parts[2] = << >>
    BY <1>2, <2>1
  <2>3. QED BY <2>1, <2>2, ElementOfSeq
<1>5. parts = Append(<<parts[1]>>, parts[2]) /\ <<parts[1]>> \in Seq(Seq(Decoded(Bytes)))
  BY SMTT(30), <1>4
<1>6. FlattenSeq(parts) = FlattenSeq(<<parts[1]>>) \o << >>
  BY <1>4, <1>5, FlattenLast
<1>7. FlattenSeq(parts) = <<"wide">>
  BY <1>4, <1>6, FlattenOne, ConcatEmptySeq
<1>8. Runes(two) = FlattenSeq(parts)
  BY <1>3 DEF Runes, RuneParts
<1>9. QED BY <1>7, <1>8 DEF two

\* What a text shows.
Shown(text) == Visible(Runes(text))

LEMMA SymbolsDecoded == Decoded(Symbols) = Characters /\ Characters \in SUBSET Symbols
BY DEF Decoded, Symbols, Characters, Bytes, White, Marks

\* What may be read of the bytes of a text and its placeholders.
LEMMA RunesOfSymbols ==
    ASSUME NEW text \in Seq(Symbols)
    PROVE  /\ Runes(text) \in Seq(Characters) /\ Runes(text) \in Seq(Symbols)
           /\ Shown(text) \in Seq(Characters) /\ Shown(text) \in Seq(Symbols)
<1>1. Runes(text) \in Seq(Characters)
  BY RunesType, SymbolsDecoded
<1>2. Shown(text) \in Seq(Characters)
  BY <1>1, VisibleType DEF Shown
<1>3. QED BY <1>1, <1>2, SymbolsDecoded, SeqMonotonic

\* Two texts, of which no character is torn, show what both show.
LEMMA ShownConcat ==
    ASSUME NEW first \in Seq(Symbols), NEW second \in Seq(Symbols), ~Torn(first, second)
    PROVE  Shown(first \o second) = Shown(first) \o Shown(second)
<1>1. Runes(first \o second) = Runes(first) \o Runes(second)
  BY RunesConcat
<1>2. Runes(first) \in Seq(Symbols) /\ Runes(second) \in Seq(Symbols)
  BY RunesOfSymbols
<1>3. QED BY <1>1, <1>2, VisibleConcat DEF Shown

LEMMA ShownEmpty == Shown(<< >>) = << >>
BY RunesEmpty, VisibleEmpty DEF Shown

\* What a text shows that grows by one byte.
LEMMA ShownAppend ==
    ASSUME NEW text \in Seq(Symbols), NEW c \in Symbols,
           c # "trail" \/ text = << >> \/ text[Len(text)] # "lead"
    PROVE  Shown(Append(text, c)) = Shown(text) \o Shown(<<c>>)
<1>1. <<c>> \in Seq(Symbols) /\ <<c>>[1] = c /\ Append(text, c) = text \o <<c>>
  OBVIOUS
<1>2. ~Torn(text, <<c>>)
  BY <1>1 DEF Torn
<1>3. QED BY <1>1, <1>2, ShownConcat

\* The first byte of a wide character alone, and then the whole character.
LEMMA ShownWide ==
    ASSUME NEW start \in Seq(Symbols)
    PROVE  /\ Shown(Append(start, "lead")) = Append(Shown(start), "bad")
           /\ Shown(Append(Append(start, "lead"), "trail")) = Append(Shown(start), "wide")
<1>1. PICK one \in Seq(Symbols), two \in Seq(Symbols) :
          one = <<"lead">> /\ two = <<"lead", "trail">>
  <2>1. "lead" \in Symbols /\ "trail" \in Symbols
    BY DEF Symbols, Bytes
  <2>2. <<"lead">> \in Seq(Symbols) /\ <<"lead", "trail">> \in Seq(Symbols)
    BY <2>1
  <2>3. QED BY <2>2
<1>2. /\ Append(start, "lead") = start \o one
      /\ Append(Append(start, "lead"), "trail") = start \o two
  BY <1>1
<1>3. ~Torn(start, one) /\ ~Torn(start, two)
  BY <1>1 DEF Torn
<1>4. /\ Shown(start \o one) = Shown(start) \o Shown(one)
      /\ Shown(start \o two) = Shown(start) \o Shown(two)
  BY <1>3, ShownConcat
<1>5. Runes(one) = <<"bad">> /\ Runes(two) = <<"wide">>
  BY <1>1, RunesOne, RunesWide
<1>6. \A d \in {"bad", "wide"} : Visible(<<d>>) = <<d>>
  <2> SUFFICES ASSUME NEW d \in {"bad", "wide"} PROVE Visible(<<d>>) = <<d>>
    OBVIOUS
  <2>1. << >> \in Seq({"bad", "wide"}) /\ <<d>> = Append(<< >>, d) /\ d \notin White
    BY DEF White
  <2>2. Visible(Append(<< >>, d)) = Append(Visible(<< >>), d)
    BY <2>1, VisibleAppend
  <2>3. QED BY <2>1, <2>2, VisibleEmpty
<1>7. Shown(one) = <<"bad">> /\ Shown(two) = <<"wide">>
  BY <1>5, <1>6 DEF Shown
<1>8. PICK shown \in Seq(Symbols) : shown = Shown(start)
  BY RunesOfSymbols
<1>9. Append(shown, "bad") = shown \o <<"bad">> /\ Append(shown, "wide") = shown \o <<"wide">>
  BY AppendIsConcat
<1>10. QED BY <1>2, <1>4, <1>7, <1>8, <1>9, Zenon

\* Both are empty, or both end with the same byte.
EndAlike(one, other) ==
    /\ one = << >> <=> other = << >>
    /\ one # << >> => one[Len(one)] = other[Len(other)]

\* Two texts that show the same and end with the same byte show the same when
\* a byte is appended to both.
LEMMA ShownStill ==
    ASSUME NEW one \in Seq(Symbols), NEW other \in Seq(Symbols), NEW c \in Symbols,
           Shown(one) = Shown(other), EndAlike(one, other)
    PROVE  Shown(Append(one, c)) = Shown(Append(other, c))
<1>1. CASE c # "trail" \/ one = << >> \/ one[Len(one)] # "lead"
  <2>1. c # "trail" \/ other = << >> \/ other[Len(other)] # "lead"
    BY <1>1 DEF EndAlike
  <2>2. /\ Shown(Append(one, c)) = Shown(one) \o Shown(<<c>>)
        /\ Shown(Append(other, c)) = Shown(other) \o Shown(<<c>>)
    BY <1>1, <2>1, ShownAppend
  <2>3. QED BY <2>2
<1>2. CASE c = "trail" /\ one # << >> /\ one[Len(one)] = "lead"
  <2>1. other # << >> /\ other[Len(other)] = "lead"
    BY <1>2 DEF EndAlike
  <2>2. PICK s \in Seq(Symbols), t \in Seq(Symbols) :
            one = Append(s, "lead") /\ other = Append(t, "lead")
    <3>1. PICK s \in Seq(Symbols), d \in Symbols : one = Append(s, d)
      BY <1>2, SequenceEmptyOrAppend
    <3>2. PICK t \in Seq(Symbols), e \in Symbols : other = Append(t, e)
      BY <2>1, SequenceEmptyOrAppend
    <3>3. one[Len(one)] = d /\ other[Len(other)] = e
      BY <3>1, <3>2, AppendProperties
    <3>4. QED BY <1>2, <2>1, <3>1, <3>2, <3>3
  <2>3. PICK u \in Seq(Symbols), v \in Seq(Symbols) : u = Shown(s) /\ v = Shown(t)
    BY RunesOfSymbols
  <2>4. /\ Shown(one) = Append(u, "bad") /\ Shown(other) = Append(v, "bad")
        /\ Shown(Append(one, c)) = Append(u, "wide")
        /\ Shown(Append(other, c)) = Append(v, "wide")
    <3>1. \A text \in Seq(Symbols) :
              /\ Shown(Append(text, "lead")) = Append(Shown(text), "bad")
              /\ Shown(Append(Append(text, "lead"), "trail")) = Append(Shown(text), "wide")
      BY ShownWide
    <3>2. /\ Shown(Append(s, "lead")) = Append(Shown(s), "bad")
          /\ Shown(Append(Append(s, "lead"), "trail")) = Append(Shown(s), "wide")
          /\ Shown(Append(t, "lead")) = Append(Shown(t), "bad")
          /\ Shown(Append(Append(t, "lead"), "trail")) = Append(Shown(t), "wide")
      BY <3>1, Zenon
    <3>3. QED BY <1>2, <2>2, <2>3, <3>2, Zenon
  <2>5. u = v
    <3>1. "bad" \in Symbols
      BY DEF Symbols
    <3>2. Append(u, "bad") = Append(v, "bad")
      BY <2>4
    <3>3. QED BY <3>1, <3>2, AppendInjective
  <2>6. QED BY <2>4, <2>5
<1>3. QED BY <1>1, <1>2

\* A text of white space shows nothing and tears nothing.
LEMMA ShownBlank ==
    ASSUME NEW text \in Seq(Symbols), Blank(text)
    PROVE  /\ Shown(text) = << >>
           /\ \A other \in Seq(Symbols) : ~Torn(text, other) /\ ~Torn(other, text)
<1>1. Len(text) \in Nat /\ \A i \in 1 .. Len(text) : text[i] \in White
  BY LenProperties DEF Blank
<1>2. text \in Seq(Characters)
  <2>1. White \subseteq Characters
    BY DEF Characters, Symbols, Bytes, White
  <2>2. \A i \in 1 .. Len(text) : text[i] \in Characters
    BY <1>1, <2>1
  <2>3. text = [i \in 1 .. Len(text) |-> text[i]]
    BY LenProperties
  <2>4. QED BY <1>1, <2>2, <2>3, IsASeq
<1>3. Shown(text) = << >>
  BY <1>1, <1>2, RunesOfCharacters, VisibleBlank DEF Shown
<1>4. text # << >> => text[1] \in White /\ text[Len(text)] \in White
  <2>1. text # << >> => 1 \in 1 .. Len(text) /\ Len(text) \in 1 .. Len(text)
    BY EmptySeq, <1>1
  <2>2. QED BY <1>1, <2>1
<1>5. "lead" \notin White /\ "trail" \notin White
  BY DEF White
<1>6. QED BY <1>3, <1>4, <1>5 DEF Torn

\* TrimSpace keeps what a text shows.
LEMMA ShownTrim ==
    ASSUME NEW text \in Seq(Symbols)
    PROVE  TrimSpace(text) \in Seq(Symbols) /\ Shown(TrimSpace(text)) = Shown(text)
<1>1. PICK before \in Seq(Symbols), after \in Seq(Symbols) :
          /\ Blank(before) /\ Blank(after)
          /\ text = (before \o TrimSpace(text)) \o after
  BY TrimSplits
<1>2. PICK middle \in Seq(Symbols) :
          middle = TrimSpace(text) /\ text = (before \o middle) \o after
  BY <1>1, TrimSplits
<1>3. PICK start \in Seq(Symbols) : start = before \o middle
  BY ConcatProperties
<1>4. Shown(start) = Shown(before) \o Shown(middle)
  BY <1>1, <1>3, ShownBlank, ShownConcat
<1>5. Shown(text) = Shown(start) \o Shown(after)
  BY <1>1, <1>2, <1>3, ShownBlank, ShownConcat
<1>6. PICK m \in Seq(Symbols) : m = Shown(middle)
  BY RunesOfSymbols
<1>7. Shown(before) = << >> /\ Shown(after) = << >>
  BY <1>1, ShownBlank
<1>8. (<< >> \o m) \o << >> = m
  BY ConcatEmptySeq
<1>9. Shown(text) = m
  BY <1>4, <1>5, <1>6, <1>7, <1>8
<1>10. QED BY <1>2, <1>6, <1>9

\* The line breaks that are taken out show nothing.
LEMMA ShownCollapse ==
    ASSUME NEW text \in Seq(Symbols)
    PROVE  /\ CollapseBlankLines(text) \in Seq(Symbols)
           /\ Shown(CollapseBlankLines(text)) = Shown(text)
<1> DEFINE struck == {i \in DOMAIN text : ThirdBreak(text, i)}
           part(i) == IF i \in struck THEN << >> ELSE <<text[i]>>
<1>1. PICK parts : parts = [i \in DOMAIN text |-> part(i)]
  OBVIOUS
<1>0. CollapseBlankLines(text) = FlattenSeq(parts)
  BY <1>1 DEF CollapseBlankLines, Strike
<1>2. /\ Len(text) \in Nat /\ DOMAIN text = 1 .. Len(text)
      /\ \A i \in 1 .. Len(text) : text[i] \in Symbols
  BY LenProperties, ElementOfSeq
<1>3. \A i \in 1 .. Len(text) :
          /\ part(i) \in Seq(Symbols)
          /\ \/ part(i) = <<text[i]>>
             \/ part(i) = << >> /\ i > 2 /\ text[i - 1] = "nl" /\ text[i] = "nl"
  BY <1>2 DEF ThirdBreak
<1>4. parts = [i \in 1 .. Len(text) |-> part(i)]
  BY <1>1, <1>2
<1> HIDE DEF part
<1>5. /\ parts \in Seq(Seq(Symbols)) /\ Len(parts) = Len(text)
      /\ \A i \in 1 .. Len(text) : parts[i] = part(i)
  BY <1>2, <1>3, <1>4
<1> DEFINE Upto(n) == FlattenSeq(SubSeq(parts, 1, n))
           S == {n \in Nat : n <= Len(text) =>
                    /\ Upto(n) \in Seq(Symbols) /\ EndAlike(Upto(n), SubSeq(text, 1, n))
                    /\ Shown(Upto(n)) = Shown(SubSeq(text, 1, n))}
<1>6. 0 \in S
  <2>1. SubSeq(parts, 1, 0) = << >> /\ SubSeq(text, 1, 0) = << >> /\ << >> \in Seq(Symbols)
    BY <1>2, <1>5
  <2>2. Upto(0) = << >>
    BY <2>1, FlattenEmpty
  <2>3. QED BY <2>1, <2>2 DEF EndAlike
<1>7. ASSUME NEW n \in S, n + 1 <= Len(text)
      PROVE  /\ Upto(n + 1) \in Seq(Symbols) /\ EndAlike(Upto(n + 1), SubSeq(text, 1, n + 1))
             /\ Shown(Upto(n + 1)) = Shown(SubSeq(text, 1, n + 1))
  <2>1. /\ n \in Nat /\ n <= Len(text) /\ n + 1 \in 1 .. Len(text)
        /\ Upto(n) \in Seq(Symbols) /\ EndAlike(Upto(n), SubSeq(text, 1, n))
        /\ Shown(Upto(n)) = Shown(SubSeq(text, 1, n))
    BY <1>2, <1>7
  <2>2. PICK out \in Seq(Symbols), prefix \in Seq(Symbols), c \in Symbols :
            /\ out = Upto(n) /\ prefix = SubSeq(text, 1, n) /\ c = text[n + 1]
            /\ SubSeq(text, 1, n + 1) = Append(prefix, c)
    <3>1. /\ SubSeq(text, 1, n) \in Seq(Symbols) /\ text[n + 1] \in Symbols
          /\ SubSeq(text, 1, n + 1) = Append(SubSeq(text, 1, n), text[n + 1])
      BY <1>7, <2>1, FirstTexts
    <3> HIDE DEF Upto
    <3>2. QED BY <2>1, <3>1
  <2>3. Upto(n + 1) = out \o parts[n + 1]
    <3>1. /\ SubSeq(parts, 1, n) \in Seq(Seq(Symbols)) /\ parts[n + 1] \in Seq(Symbols)
          /\ SubSeq(parts, 1, n + 1) = Append(SubSeq(parts, 1, n), parts[n + 1])
      BY <1>5, <1>7, <2>1, FirstTexts
    <3>2. QED BY <2>2, <3>1, FlattenLast
  <2> HIDE DEF Upto
  <2>4. CASE parts[n + 1] = <<c>>
    <3>1. Upto(n + 1) = Append(out, c)
      BY <2>3, <2>4, AppendIsConcat
    <3>2. Shown(Append(out, c)) = Shown(Append(prefix, c))
      BY <2>1, <2>2, ShownStill
    <3>3. EndAlike(Append(out, c), Append(prefix, c)) /\ Append(out, c) \in Seq(Symbols)
      BY AppendProperties DEF EndAlike
    <3>4. QED BY <2>2, <3>1, <3>2, <3>3
  <2>5. CASE /\ parts[n + 1] = << >> /\ n + 1 > 2
             /\ text[n + 1 - 1] = "nl" /\ text[n + 1] = "nl"
    <3>1. Upto(n + 1) = out
      BY <2>3, <2>5, ConcatEmptySeq
    <3>2. prefix # << >> /\ prefix[Len(prefix)] = "nl" /\ c = "nl"
      <4>1. n \in 1 .. n /\ n + 1 - 1 = n /\ 1 \in 1 .. Len(text) + 1 /\ n \in 1 - 1 .. Len(text)
        BY <2>1, <2>5
      <4>2. Len(prefix) = n /\ prefix[n] = text[n]
        BY <1>2, <2>1, <2>2, <4>1
      <4>3. text[n] = "nl" /\ text[n + 1] = "nl"
        BY <2>5, <4>1
      <4>4. prefix # << >>
        BY <4>1, <4>2, EmptySeq
      <4>5. QED BY <2>2, <4>2, <4>3, <4>4
    <3>3. Shown(Append(prefix, c)) = Shown(prefix) \o Shown(<<c>>)
      BY <3>2, ShownAppend
    <3>4. Shown(<<c>>) = << >>
      <4>1. <<c>> \in Seq(Symbols) /\ Blank(<<c>>)
        BY <3>2 DEF Blank, White
      <4>2. QED BY <4>1, ShownBlank
    <3>5. Shown(Append(prefix, c)) = Shown(prefix)
      BY <3>3, <3>4, RunesOfSymbols, ConcatEmptySeq
    <3>6. EndAlike(out, Append(prefix, c))
      <4>1. out # << >> /\ out[Len(out)] = "nl"
        BY <2>1, <2>2, <3>2 DEF EndAlike
      <4>2. QED BY <3>2, <4>1, AppendProperties DEF EndAlike
    <3>7. QED BY <2>1, <2>2, <3>1, <3>5, <3>6
  <2>6. QED BY <1>3, <1>5, <2>1, <2>2, <2>4, <2>5
<1>8. \A n \in S : n + 1 \in S
  BY <1>7
<1>9. S = Nat
  <2> HIDE DEF S
  <2>1. S \in SUBSET Nat
    BY DEF S
  <2>2. QED BY <1>6, <1>8, <2>1, InductiveSet
<1>10. SubSeq(parts, 1, Len(text)) = parts /\ SubSeq(text, 1, Len(text)) = text
  BY <1>5, SubSeqFull
<1>11. FlattenSeq(parts) \in Seq(Symbols) /\ Shown(FlattenSeq(parts)) = Shown(text)
  <2>1. Len(text) \in S
    BY <1>2, <1>9
  <2>2. Upto(Len(text)) \in Seq(Symbols)
        /\ Shown(Upto(Len(text))) = Shown(SubSeq(text, 1, Len(text)))
    <3> HIDE DEF Upto
    <3>1. QED BY <1>2, <2>1
  <2>3. QED BY <1>10, <2>2
<1>12. QED BY <1>0, <1>11

\* FormatForWeChat shows what is left when the Markdown is stripped.
LEMMA ShownFormat ==
    ASSUME NEW text \in Seq(Symbols)
    PROVE  /\ FormatForWeChat(text) \in Seq(Symbols)
           /\ Shown(FormatForWeChat(text)) = Shown(StripMarkdown(text))
<1>1. PICK left \in Seq(Symbols) : left = StripMarkdown(text)
  BY StripType
<1>2. PICK collapsed \in Seq(Symbols) :
          collapsed = CollapseBlankLines(left) /\ Shown(collapsed) = Shown(left)
  BY ShownCollapse
<1>3. FormatForWeChat(text) = TrimSpace(collapsed)
  BY <1>1, <1>2 DEF FormatForWeChat
<1>4. QED BY <1>1, <1>2, <1>3, ShownTrim

-----------------------------------------------------------------------------
(* Splitting keeps what can be read. *)

\* What every turn of the loop keeps holds of what the loop leaves.
LEMMA SplitKeeps ==
    ASSUME NEW runes \in Seq(Characters), NEW Good,
           [messages |-> << >>, rest |-> runes] \in Good,
           \A s \in Good : Chopped(s) \in Good
    PROVE  \E final \in Good :
              SplitRunes(runes) = IF final.rest = << >> THEN final.messages
                                  ELSE Append(final.messages, final.rest)
<1> DEFINE a == [messages |-> << >>, rest |-> runes]
<1>1. PICK f : f = (CHOOSE g : Splits(g, runes))
  OBVIOUS
<1>2. Splits(f, runes) /\ Len(runes) \in Nat
  BY <1>1, SplitExists, LenProperties
<1> DEFINE value(n) == IF n = 0 THEN a ELSE Chopped(f[n - 1])
<1>3. f = [n \in 0 .. Len(runes) |-> value(n)]
  BY <1>2, Zenon DEF Splits
<1> HIDE DEF value
<1>4. \A n \in 0 .. Len(runes) : f[n] = value(n)
  BY <1>3
<1> DEFINE S == {n \in Nat : n <= Len(runes) => f[n] \in Good}
<1>5. 0 \in S
  <2>1. 0 \in 0 .. Len(runes) /\ value(0) = a
    BY <1>2 DEF value
  <2>2. f[0] \in Good
    BY <1>4, <2>1
  <2>3. QED BY <2>2
<1>6. ASSUME NEW n \in S PROVE n + 1 \in S
  <2> SUFFICES ASSUME n + 1 <= Len(runes) PROVE f[n + 1] \in Good
    OBVIOUS
  <2>1. /\ n \in Nat /\ f[n] \in Good /\ n + 1 \in 0 .. Len(runes)
        /\ n + 1 # 0 /\ n + 1 - 1 = n
    BY <1>2
  <2>2. f[n + 1] = Chopped(f[n])
    BY <1>4, <2>1 DEF value
  <2>3. QED BY <2>1, <2>2
<1>7. S = Nat
  <2> HIDE DEF S
  <2>1. S \in SUBSET Nat
    BY DEF S
  <2>2. QED BY <1>5, <1>6, <2>1, InductiveSet
<1>8. PICK final \in Good : final = f[Len(runes)]
  <2>1. Len(runes) \in S
    BY <1>2, <1>7
  <2>2. QED BY <1>2, <2>1
<1>9. QED BY <1>1, <1>8, SplitRunesIs

\* The line break that is skipped at a cut shows nothing.
LEMMA VisibleSkipBreak ==
    ASSUME NEW A, NEW text \in Seq(A), text # << >>
    PROVE  SkipBreak(text) \in Seq(A) /\ Visible(SkipBreak(text)) = Visible(text)
<1>1. CASE Head(text) = "nl"
  <2>1. PICK rest \in Seq(A), first \in Seq(A) :
            rest = Tail(text) /\ first = <<"nl">> /\ text = first \o rest
    <3>1. Tail(text) \in Seq(A) /\ <<"nl">> \in Seq(A) /\ text = <<"nl">> \o Tail(text)
      BY <1>1
    <3>2. QED BY <3>1
  <2>2. Visible(first) = << >>
    <3>1. \A i \in 1 .. Len(first) : first[i] \in White
      BY <2>1 DEF White
    <3>2. QED BY <3>1, VisibleBlank
  <2>3. Visible(text) = Visible(first) \o Visible(rest)
    BY <2>1, VisibleConcat
  <2>4. Visible(text) = Visible(rest)
    BY <2>2, <2>3, VisibleType, ConcatEmptySeq
  <2>5. QED BY SMTT(30), <1>1, <2>1, <2>4 DEF SkipBreak
<1>2. CASE Head(text) # "nl"
  BY <1>2 DEF SkipBreak
<1>3. QED BY <1>1, <1>2

\* The messages and the rest have what the text has.
Whole(s, runes) ==
    /\ s \in Splitting
    /\ Visible(FlattenSeq(s.messages) \o s.rest) = Visible(runes)

\* A turn of the loop keeps this.
LEMMA ChoppedWhole ==
    ASSUME NEW runes, NEW s, Whole(s, runes)
    PROVE  Whole(Chopped(s), runes)
<1>1. CASE Len(s.rest) > MaxRunes
  <2>1. PICK messages \in Seq(Seq(Characters)), rest \in Seq(Characters) :
            messages = s.messages /\ rest = s.rest
    BY DEF Whole, Splitting
  <2>2. PICK cut \in 1 .. MaxRunes : cut = BreakAt(rest)
    BY <1>1, <2>1, BreakProperties
  <2>3. cut \in 0 .. Len(rest) /\ cut < Len(rest) /\ Len(rest) \in Nat
    BY <1>1, <2>1, LenProperties, LimitsAssumption
  <2>4. PICK front \in Seq(Characters), back \in Seq(Characters) :
            /\ front = SubSeq(rest, 1, cut) /\ back = SubSeq(rest, cut + 1, Len(rest))
            /\ rest = front \o back
    <3>1. /\ SubSeq(rest, 1, cut) \in Seq(Characters)
          /\ SubSeq(rest, cut + 1, Len(rest)) \in Seq(Characters)
          /\ rest = SubSeq(rest, 1, cut) \o SubSeq(rest, cut + 1, Len(rest))
      BY <2>3, CutInTwo
    <3>2. QED BY <3>1
  <2>5. back # << >>
    <3>1. Len(back) = Len(rest) - cut
      <4>1. cut + 1 \in 1 .. Len(rest) + 1 /\ Len(rest) \in cut + 1 - 1 .. Len(rest)
        BY <2>3
      <4>2. Len(back) = Len(rest) - (cut + 1) + 1
        BY <2>4, <4>1, PartOfText
      <4>3. QED BY <2>3, <4>2
    <3>2. QED BY <2>3, <3>1, EmptySeq
  <2>6. PICK left \in Seq(Characters) :
            left = SkipBreak(back) /\ Visible(left) = Visible(back)
    BY SMTT(30), <2>5, VisibleSkipBreak
  <2>7. Chopped(s) = [messages |-> Append(messages, front), rest |-> left]
    BY <1>1, <2>1, <2>2, <2>4, <2>6 DEF Chopped
  <2>8. PICK all \in Seq(Characters) : all = FlattenSeq(messages)
    BY FlattenType
  <2>9. FlattenSeq(Append(messages, front)) = all \o front
    BY <2>8, FlattenLast
  <2>10. PICK longer \in Seq(Characters) : longer = all \o front
    BY ConcatProperties
  <2>11. all \o rest = longer \o back
    <3>1. (all \o front) \o back = all \o (front \o back)
      <4>1. Group(all, front, back)
        BY Grouped
      <4>2. QED BY <4>1, Zenon DEF Group
    <3>2. QED BY <2>4, <2>10, <3>1
  <2>12. Visible(longer \o left) = Visible(longer \o back)
    <3>1. \A more \in Seq(Characters) :
              Visible(longer \o more) = Visible(longer) \o Visible(more)
      BY VisibleConcat
    <3>2. QED BY <2>6, <3>1
  <2>13. Visible(all \o rest) = Visible(runes)
    BY <2>1, <2>8 DEF Whole
  <2>14. Append(messages, front) \in Seq(Seq(Characters))
    BY AppendProperties
  <2>15. PICK chopped : chopped = Chopped(s)
    OBVIOUS
  <2>16. /\ chopped \in Splitting
         /\ chopped.messages = Append(messages, front) /\ chopped.rest = left
    BY <2>7, <2>14, <2>15 DEF Splitting
  <2>17. FlattenSeq(chopped.messages) \o chopped.rest = longer \o left
    BY <2>9, <2>10, <2>16
  <2>18. Visible(FlattenSeq(chopped.messages) \o chopped.rest) = Visible(runes)
    BY <2>11, <2>12, <2>13, <2>17
  <2>19. QED BY <2>15, <2>16, <2>18 DEF Whole
<1>2. CASE ~(Len(s.rest) > MaxRunes)
  BY <1>2 DEF Chopped
<1>3. QED BY <1>1, <1>2

\* SplitText moves every character to a message, white space apart.
LEMMA SplitRunesWhole ==
    ASSUME NEW runes \in Seq(Characters)
    PROVE  /\ SplitRunes(runes) \in Seq(Seq(Characters))
           /\ Visible(FlattenSeq(SplitRunes(runes))) = Visible(runes)
<1> DEFINE start == [messages |-> << >>, rest |-> runes]
           Good == {s \in Splitting : Whole(s, runes)}
<1>1. start \in Good
  <2>1. << >> \o runes = runes
    BY ConcatEmptySeq
  <2>2. start \in Splitting /\ start.messages = << >> /\ start.rest = runes
    BY DEF Splitting
  <2> HIDE DEF start
  <2>3. QED BY <2>1, <2>2, FlattenEmpty DEF Whole
<1>2. \A s \in Good : Chopped(s) \in Good
  <2> SUFFICES ASSUME NEW s \in Good PROVE Chopped(s) \in Good
    OBVIOUS
  <2>1. Whole(Chopped(s), runes)
    BY ChoppedWhole
  <2>2. QED BY <2>1 DEF Whole
<1>3. PICK final \in Good :
          SplitRunes(runes) = IF final.rest = << >> THEN final.messages
                              ELSE Append(final.messages, final.rest)
  <2> HIDE DEF Good
  <2>1. QED BY <1>1, <1>2, SplitKeeps
<1>4. PICK messages \in Seq(Seq(Characters)), rest \in Seq(Characters) :
          /\ messages = final.messages /\ rest = final.rest
          /\ Visible(FlattenSeq(messages) \o rest) = Visible(runes)
  BY DEF Whole, Splitting
<1>5. CASE rest = << >>
  <2>1. FlattenSeq(messages) \o rest = FlattenSeq(messages)
    BY <1>5, FlattenType, ConcatEmptySeq
  <2>2. QED BY <1>3, <1>4, <1>5, <2>1
<1>6. CASE rest # << >>
  <2>1. SplitRunes(runes) = Append(messages, rest)
    BY <1>3, <1>4, <1>6
  <2>2. FlattenSeq(Append(messages, rest)) = FlattenSeq(messages) \o rest
    BY FlattenLast
  <2>3. Append(messages, rest) \in Seq(Seq(Characters))
    BY AppendProperties
  <2>4. QED BY <1>4, <2>1, <2>2, <2>3
<1>7. QED BY <1>5, <1>6

\* The messages of SplitText show together what the text shows.
LEMMA ShownSplit ==
    ASSUME NEW text \in Seq(Symbols)
    PROVE  /\ SplitText(text) \in Seq(Seq(Symbols))
           /\ Map(SplitText(text), Runes) \in Seq(Seq(Characters))
           /\ Visible(FlattenSeq(Map(SplitText(text), Runes))) = Shown(text)
<1>1. PICK runes \in Seq(Characters) : runes = Runes(text)
  BY RunesOfSymbols
<1>2. CASE Len(runes) <= MaxRunes
  <2>1. SplitText(text) = <<text>>
    BY <1>1, <1>2 DEF SplitText
  <2>2. Map(<<text>>, Runes) = <<runes>>
    BY <1>1 DEF Map
  <2>3. <<text>> \in Seq(Seq(Symbols)) /\ <<runes>> \in Seq(Seq(Characters))
    OBVIOUS
  <2>4. QED BY <1>1, <2>1, <2>2, <2>3, FlattenOne DEF Shown
<1>3. CASE ~(Len(runes) <= MaxRunes)
  <2>1. PICK all \in Seq(Seq(Characters)) : all = SplitRunes(runes)
    BY SplitRunesWhole
  <2>2. SplitText(text) = all
    BY <1>1, <1>3, <2>1 DEF SplitText
  <2>3. Visible(FlattenSeq(all)) = Shown(text)
    BY <1>1, <2>1, SplitRunesWhole DEF Shown
  <2>4. /\ DOMAIN all = 1 .. Len(all) /\ Len(all) \in Nat
        /\ \A i \in DOMAIN all : all[i] \in Seq(Characters) /\ Runes(all[i]) = all[i]
    BY LenProperties, ElementOfSeq, RunesOfCharacters
  <2>5. Map(all, Runes) = all
    <3>1. [i \in DOMAIN all |-> Runes(all[i])] = [i \in DOMAIN all |-> all[i]]
      BY <2>4, Zenon
    <3>2. all = [i \in DOMAIN all |-> all[i]]
      BY <2>4
    <3>3. QED BY <3>1, <3>2 DEF Map
  <2>6. all \in Seq(Seq(Symbols))
    <3>1. Seq(Characters) \subseteq Seq(Symbols)
      BY SymbolsDecoded, SeqMonotonic
    <3>2. QED BY <3>1, SeqMonotonic
  <2>7. QED BY <2>2, <2>3, <2>5, <2>6
<1>4. QED BY <1>2, <1>3

-----------------------------------------------------------------------------
(* The reader. *)

\* What a reader makes of a text, who has read this much before.
Read(text, r) == FoldLeft(ReadOn, r, text)

\* The function that FoldLeft chooses, over the places of the text.
Folds(f, text, r) ==
    f = [places \in SUBSET DOMAIN text |->
            IF places = {} THEN r
            ELSE ReadOn(f[places \ {Max(places)}], text[Max(places)])]

LEMMA ReadIs ==
    ASSUME NEW text, NEW r
    PROVE  Read(text, r) = (CHOOSE f : Folds(f, text, r))[DOMAIN text]
BY DEF Read, FoldLeft, MapThenFoldSet, Folds

LEMMA FoldValues ==
    ASSUME NEW A, NEW text \in Seq(A), NEW r, NEW f, Folds(f, text, r)
    PROVE  /\ f[{}] = r
           /\ \A places \in SUBSET (1 .. Len(text)) : places # {} =>
                 f[places] = ReadOn(f[places \ {Max(places)}], text[Max(places)])
<1> DEFINE value(places) == IF places = {} THEN r
                            ELSE ReadOn(f[places \ {Max(places)}], text[Max(places)])
<1>1. DOMAIN text = 1 .. Len(text)
  BY LenProperties
<1>2. f = [places \in SUBSET DOMAIN text |-> value(places)]
  BY Zenon DEF Folds
<1> HIDE DEF value
<1>3. \A places \in SUBSET (1 .. Len(text)) : f[places] = value(places)
  BY <1>1, <1>2
<1>4. {} \in SUBSET (1 .. Len(text))
  OBVIOUS
<1>5. QED BY <1>3, <1>4, Zenon DEF value

LEMMA MaxOfPlaces ==
    ASSUME NEW n \in Nat, NEW places \in SUBSET (1 .. n), places # {}
    PROVE  /\ Max(places) \in places /\ \A i \in places : i <= Max(places)
           /\ \A i \in places : (\A j \in places : j <= i) => Max(places) = i
<1>1. Max(places) \in places /\ \A i \in places : i <= Max(places)
  BY MinMaxOfPlaces
<1>2. ASSUME NEW i \in places, \A j \in places : j <= i PROVE Max(places) = i
  <2>1. PICK m \in places : m = Max(places)
    BY <1>1
  <2>2. m \in Int /\ i \in Int /\ m <= i /\ i <= m
    BY <1>1, <1>2, <2>1
  <2>3. QED BY <2>1, <2>2
<1>3. QED BY <1>1, <1>2

LEMMA FoldExists ==
    ASSUME NEW A, NEW r
    PROVE  \A text \in Seq(A) : \E f : Folds(f, text, r)
<1> DEFINE S == {text \in Seq(A) : \E f : Folds(f, text, r)}
<1>1. << >> \in S
  <2> DEFINE f == [places \in SUBSET {} |-> r]
  <2>1. DOMAIN << >> = {} /\ << >> \in Seq(A)
    OBVIOUS
  <2>2. \A places \in SUBSET {} : places = {}
    OBVIOUS
  <2>3. Folds(f, << >>, r)
    BY <2>1, <2>2 DEF Folds
  <2>4. QED BY <2>1, <2>3
<1>2. ASSUME NEW text \in Seq(A), text \in S, NEW c \in A
      PROVE  Append(text, c) \in S
  <2>1. PICK f : Folds(f, text, r)
    BY <1>2
  <2>2. PICK n \in Nat, longer \in Seq(A) : n = Len(text) /\ longer = Append(text, c)
    BY LenProperties, AppendProperties
  <2>3. /\ DOMAIN longer = 1 .. n + 1 /\ longer[n + 1] = c
        /\ \A i \in 1 .. n : longer[i] = text[i]
    BY <2>2, LenProperties, AppendProperties
  <2>4. /\ f[{}] = r
        /\ \A places \in SUBSET (1 .. n) : places # {} =>
              f[places] = ReadOn(f[places \ {Max(places)}], text[Max(places)])
    <3>1. /\ f[{}] = r
          /\ \A places \in SUBSET (1 .. Len(text)) : places # {} =>
                f[places] = ReadOn(f[places \ {Max(places)}], text[Max(places)])
      BY <2>1, FoldValues, SMTT(20)
    <3>2. QED BY <2>2, <3>1
  <2> DEFINE value(places) == IF n + 1 \in places THEN ReadOn(f[places \ {n + 1}], c)
                              ELSE f[places]
             g == [places \in SUBSET (1 .. n + 1) |-> value(places)]
  <2> HIDE DEF value
  <2>5. \A places \in SUBSET (1 .. n + 1) : g[places] = value(places)
    OBVIOUS
  <2> HIDE DEF g
  <2>6. ASSUME NEW places \in SUBSET (1 .. n + 1)
        PROVE  g[places] = IF places = {} THEN r
                           ELSE ReadOn(g[places \ {Max(places)}], longer[Max(places)])
    <3>1. CASE places = {}
      BY <2>4, <2>5, <3>1 DEF value
    <3>2. CASE n + 1 \in places
      <4>1. Max(places) = n + 1
        <5>1. n + 1 \in Nat /\ \A j \in places : j <= n + 1
          OBVIOUS
        <5>2. QED BY <3>2, <5>1, MaxOfPlaces
      <4>2. /\ places \ {n + 1} \in SUBSET (1 .. n + 1) /\ n + 1 \notin places \ {n + 1}
        OBVIOUS
      <4>3. g[places] = ReadOn(f[places \ {n + 1}], c)
            /\ g[places \ {n + 1}] = f[places \ {n + 1}]
        BY <2>5, <3>2, <4>2 DEF value
      <4>4. QED BY <2>3, <3>2, <4>1, <4>3
    <3>3. CASE places # {} /\ n + 1 \notin places
      <4>1. places \in SUBSET (1 .. n)
        BY <3>3
      <4>2. Max(places) \in 1 .. n
        BY <3>3, <4>1, MaxOfPlaces
      <4>3. /\ places \ {Max(places)} \in SUBSET (1 .. n + 1)
            /\ n + 1 \notin places \ {Max(places)}
        BY <3>3
      <4>4. g[places] = f[places] /\ g[places \ {Max(places)}] = f[places \ {Max(places)}]
        BY <2>5, <3>3, <4>3 DEF value
      <4>5. f[places] = ReadOn(f[places \ {Max(places)}], text[Max(places)])
        BY <2>4, <3>3, <4>1
      <4>6. QED BY <2>3, <3>3, <4>2, <4>4, <4>5
    <3>4. QED BY <3>1, <3>2, <3>3
  <2>7. g = [places \in SUBSET DOMAIN longer |-> g[places]]
    BY <2>3 DEF g
  <2>8. g = [places \in SUBSET DOMAIN longer |->
                IF places = {} THEN r
                ELSE ReadOn(g[places \ {Max(places)}], longer[Max(places)])]
    BY <2>3, <2>6, <2>7, Zenon
  <2>9. Folds(g, longer, r)
    BY <2>8, Zenon DEF Folds
  <2>10. QED BY <2>2, <2>9
<1>3. \A text \in Seq(A) : text \in S
  <2> HIDE DEF S
  <2>1. QED BY <1>1, <1>2, AppendInduction
<1>4. QED BY <1>3

\* What is read of the first places of a text.
LEMMA FoldPrefix ==
    ASSUME NEW A, NEW text \in Seq(A), NEW r, NEW f, Folds(f, text, r),
           NEW n \in Nat, n + 1 <= Len(text)
    PROVE  f[1 .. n + 1] = ReadOn(f[1 .. n], text[n + 1])
<1>1. 1 .. n + 1 \in SUBSET (1 .. Len(text)) /\ 1 .. n + 1 # {}
  <2>1. PICK m \in Nat : m = Len(text)
    BY LenProperties
  <2>2. \A i \in 1 .. n + 1 : i \in 1 .. m
    BY <2>1
  <2>3. 1 \in 1 .. n + 1
    OBVIOUS
  <2>4. QED BY <2>1, <2>2, <2>3
<1>2. Max(1 .. n + 1) = n + 1
  <2>1. n + 1 \in 1 .. n + 1 /\ \A j \in 1 .. n + 1 : j <= n + 1
    OBVIOUS
  <2>2. 1 .. n + 1 \in SUBSET (1 .. n + 1) /\ n + 1 \in Nat
    OBVIOUS
  <2>3. QED BY <1>1, <2>1, <2>2, MaxOfPlaces
<1>3. (1 .. n + 1) \ {n + 1} = 1 .. n
  OBVIOUS
<1>4. f[1 .. n + 1] = ReadOn(f[(1 .. n + 1) \ {Max(1 .. n + 1)}], text[Max(1 .. n + 1)])
  <2>1. \A places \in SUBSET (1 .. Len(text)) : places # {} =>
            f[places] = ReadOn(f[places \ {Max(places)}], text[Max(places)])
    BY FoldValues
  <2>2. QED BY <1>1, <2>1, Zenon
<1>5. QED BY <1>2, <1>3, <1>4

LEMMA FoldAgrees ==
    ASSUME NEW A, NEW text \in Seq(A), NEW longer \in Seq(A), NEW r,
           NEW f, Folds(f, text, r), NEW g, Folds(g, longer, r),
           Len(text) <= Len(longer), \A i \in 1 .. Len(text) : longer[i] = text[i]
    PROVE  g[1 .. Len(text)] = f[1 .. Len(text)]
<1> DEFINE S == {n \in Nat : n <= Len(text) => g[1 .. n] = f[1 .. n]}
<1>1. Len(text) \in Nat /\ Len(longer) \in Nat
  BY LenProperties
<1>2. 0 \in S
  <2>1. f[{}] = r /\ g[{}] = r
    BY FoldValues
  <2>2. 1 .. 0 = {}
    OBVIOUS
  <2>3. QED BY <2>1, <2>2
<1>3. ASSUME NEW n \in S PROVE n + 1 \in S
  <2> SUFFICES ASSUME n + 1 <= Len(text) PROVE g[1 .. n + 1] = f[1 .. n + 1]
    OBVIOUS
  <2>1. n \in Nat /\ g[1 .. n] = f[1 .. n] /\ n + 1 <= Len(longer) /\ n + 1 \in 1 .. Len(text)
    BY <1>1
  <2>2. /\ f[1 .. n + 1] = ReadOn(f[1 .. n], text[n + 1])
        /\ g[1 .. n + 1] = ReadOn(g[1 .. n], longer[n + 1])
    BY <2>1, FoldPrefix
  <2>3. QED BY <2>1, <2>2
<1>4. S = Nat
  <2> HIDE DEF S
  <2>1. S \in SUBSET Nat
    BY DEF S
  <2>2. QED BY <1>2, <1>3, <2>1, InductiveSet
<1>5. QED BY <1>1, <1>4

\* Nothing more is read of an empty text.
LEMMA ReadEmpty == ASSUME NEW r PROVE Read(<< >>, r) = r
<1>1. PICK f : f = (CHOOSE g : Folds(g, << >>, r))
  OBVIOUS
<1>2. << >> \in Seq({}) /\ DOMAIN << >> = {}
  OBVIOUS
<1>3. Folds(f, << >>, r)
  BY <1>1, <1>2, FoldExists
<1>4. f[{}] = r
  BY <1>2, <1>3, FoldValues
<1>5. QED BY <1>1, <1>2, <1>4, ReadIs

\* The last character of a text is read last.
LEMMA ReadAppend ==
    ASSUME NEW A, NEW text \in Seq(A), NEW c \in A, NEW r
    PROVE  Read(Append(text, c), r) = ReadOn(Read(text, r), c)
<1>1. PICK n \in Nat, longer \in Seq(A) : n = Len(text) /\ longer = Append(text, c)
  BY LenProperties, AppendProperties
<1>2. /\ DOMAIN longer = 1 .. n + 1 /\ Len(longer) = n + 1 /\ longer[n + 1] = c
      /\ \A i \in 1 .. n : longer[i] = text[i]
      /\ DOMAIN text = 1 .. n
  BY <1>1, LenProperties, AppendProperties
<1>3. PICK f, g : f = (CHOOSE h : Folds(h, text, r)) /\ g = (CHOOSE h : Folds(h, longer, r))
  OBVIOUS
<1>4. Folds(f, text, r) /\ Folds(g, longer, r)
  BY <1>3, FoldExists
<1>5. Read(text, r) = f[1 .. n] /\ Read(longer, r) = g[1 .. n + 1]
  BY <1>2, <1>3, ReadIs
<1>6. g[1 .. n + 1] = ReadOn(g[1 .. n], c)
  <2>1. n + 1 <= Len(longer)
    BY <1>2
  <2>2. QED BY <1>2, <1>4, <2>1, FoldPrefix
<1>7. g[1 .. n] = f[1 .. n]
  <2>1. Len(text) <= Len(longer) /\ \A i \in 1 .. Len(text) : longer[i] = text[i]
    BY <1>1, <1>2
  <2>2. g[1 .. Len(text)] = f[1 .. Len(text)]
    BY <1>4, <2>1, FoldAgrees
  <2>3. QED BY <1>1, <2>2
<1>8. QED BY <1>1, <1>5, <1>6, <1>7

\* What a reader has, and the files it has not come to.
Reading == [text : Seq(Symbols), files : Seq(FileSet)]

LEMMA BlockType ==
    ASSUME NEW file \in FileSet
    PROVE  Block(file) \in Seq(Symbols) /\ Runes(Block(file)) \in Seq(Symbols)
<1>1. PICK tag \in Seq(Symbols), content \in Seq(Symbols) :
          tag = file.tag /\ content = file.content
  BY DEF FileSet
<1>2. PICK fence \in Seq(Symbols), break \in Seq(Symbols) :
          fence = Fence /\ break = <<"nl">>
  <2>1. Fence \in Seq(Symbols) /\ <<"nl">> \in Seq(Symbols)
    BY DEF Fence, Symbols, Bytes, White
  <2>2. QED BY <2>1
<1>3. Block(file) = fence \o tag \o break \o content \o fence
  BY <1>1, <1>2 DEF Block
<1>4. Block(file) \in Seq(Symbols)
  BY <1>3, ConcatProperties
<1>5. QED BY <1>4, RunesOfSymbols

LEMMA ReadOnType ==
    ASSUME NEW r \in Reading, NEW c \in Symbols
    PROVE  ReadOn(r, c) \in Reading
<1>1. PICK text \in Seq(Symbols), files \in Seq(FileSet) :
          r.text = text /\ r.files = files /\ r = [text |-> text, files |-> files]
  BY DEF Reading
<1>2. CASE c = "file" /\ files # << >>
  <2>1. Head(files) \in FileSet /\ Tail(files) \in Seq(FileSet)
    BY <1>2, HeadTailProperties
  <2>2. text \o Runes(Block(Head(files))) \in Seq(Symbols)
    BY <2>1, BlockType, ConcatProperties
  <2>3. QED BY <1>1, <1>2, <2>1, <2>2 DEF ReadOn, Reading
<1>3. CASE ~(c = "file" /\ files # << >>) /\ c \in ToSet(Placeholder)
  BY <1>1, <1>3 DEF ReadOn, Reading
<1>4. CASE ~(c = "file" /\ files # << >>) /\ c \notin ToSet(Placeholder)
  <2>1. Append(text, c) \in Seq(Symbols)
    BY AppendProperties
  <2>2. QED BY <1>1, <1>4, <2>1 DEF ReadOn, Reading
<1>5. QED BY <1>2, <1>3, <1>4

\* A reader has a text and the files that are left.
LEMMA ReadType ==
    ASSUME NEW r \in Reading
    PROVE  \A text \in Seq(Symbols) : Read(text, r) \in Reading
<1> DEFINE S == {text \in Seq(Symbols) : Read(text, r) \in Reading}
<1>1. << >> \in S
  BY ReadEmpty, EmptySeq
<1>2. ASSUME NEW text \in Seq(Symbols), text \in S, NEW c \in Symbols
      PROVE  Append(text, c) \in S
  <2>1. Append(text, c) \in Seq(Symbols)
    BY AppendProperties
  <2>2. Read(Append(text, c), r) = ReadOn(Read(text, r), c) /\ Read(text, r) \in Reading
    BY <1>2, ReadAppend
  <2>3. QED BY <2>1, <2>2, ReadOnType
<1>3. \A text \in Seq(Symbols) : text \in S
  <2> HIDE DEF S
  <2>1. QED BY <1>1, <1>2, AppendInduction
<1>4. QED BY <1>3

\* Two texts are read one after the other.
LEMMA ReadConcat ==
    ASSUME NEW A, NEW text \in Seq(A), NEW r
    PROVE  \A more \in Seq(A) : Read(text \o more, r) = Read(more, Read(text, r))
<1> DEFINE S == {more \in Seq(A) : Read(text \o more, r) = Read(more, Read(text, r))}
<1>1. << >> \in S
  <2>1. text \o << >> = text /\ << >> \in Seq(A)
    BY ConcatEmptySeq, EmptySeq
  <2>2. QED BY <2>1, ReadEmpty
<1>2. ASSUME NEW more \in Seq(A), more \in S, NEW c \in A
      PROVE  Append(more, c) \in S
  <2>1. PICK both \in Seq(A) : both = text \o more
    BY ConcatProperties
  <2>2. text \o Append(more, c) = Append(both, c) /\ Append(more, c) \in Seq(A)
    BY <2>1, ConcatAppend, AppendProperties
  <2>3. Read(Append(both, c), r) = ReadOn(Read(both, r), c)
    BY ReadAppend
  <2>4. Read(Append(more, c), Read(text, r)) = ReadOn(Read(more, Read(text, r)), c)
    BY ReadAppend
  <2>5. Read(both, r) = Read(more, Read(text, r))
    BY <1>2, <2>1
  <2>6. QED BY <2>2, <2>3, <2>4, <2>5
<1>3. \A more \in Seq(A) : more \in S
  <2> HIDE DEF S
  <2>1. QED BY <1>1, <1>2, AppendInduction
<1>4. QED BY <1>3

\* What an agent writes has no placeholders.
Plain == Symbols \ {"open", "file", "under", "close"}

LEMMA PlaceholderSet == ToSet(Placeholder) = {"open", "file", "under", "close"}
<1>1. /\ DOMAIN Placeholder = 1 .. 4
      /\ Placeholder[1] = "open" /\ Placeholder[2] = "file"
      /\ Placeholder[3] = "under" /\ Placeholder[4] = "close"
  BY DEF Placeholder
<1>2. ToSet(Placeholder) = {Placeholder[i] : i \in 1 .. 4}
  BY <1>1, Zenon DEF ToSet
<1>3. 1 .. 4 = {1, 2, 3, 4}
  OBVIOUS
<1>4. QED BY <1>1, <1>2, <1>3

\* A text without placeholders is read as it is.
LEMMA ReadPlain ==
    ASSUME NEW X \in Seq(Symbols), NEW F \in Seq(FileSet)
    PROVE  \A text \in Seq(Plain) :
              Read(text, [text |-> X, files |-> F]) = [text |-> X \o text, files |-> F]
<1> DEFINE r == [text |-> X, files |-> F]
           S == {text \in Seq(Plain) :
                    Read(text, r) = [text |-> X \o text, files |-> F]}
<1>1. << >> \in S
  <2>1. X \o << >> = X
    BY ConcatEmptySeq
  <2>2. QED BY <2>1, ReadEmpty, EmptySeq
<1>2. ASSUME NEW text \in Seq(Plain), text \in S, NEW c \in Plain
      PROVE  Append(text, c) \in S
  <2>1. Append(text, c) \in Seq(Plain)
    BY AppendProperties
  <2>2. Read(Append(text, c), r) = ReadOn([text |-> X \o text, files |-> F], c)
    BY <1>2, ReadAppend
  <2>3. c # "file" /\ c \notin ToSet(Placeholder)
    BY PlaceholderSet DEF Plain
  <2>4. ReadOn([text |-> X \o text, files |-> F], c) = [text |-> Append(X \o text, c), files |-> F]
    BY <2>3 DEF ReadOn
  <2>5. text \in Seq(Symbols) /\ c \in Symbols
    <3>1. Plain \subseteq Symbols
      BY DEF Plain
    <3>2. QED BY <3>1, SeqMonotonic
  <2>6. X \o Append(text, c) = Append(X \o text, c)
    BY <2>5, ConcatAppend
  <2>7. QED BY <2>1, <2>2, <2>4, <2>6
<1>3. \A text \in Seq(Plain) : text \in S
  <2> HIDE DEF S
  <2>1. QED BY <1>1, <1>2, AppendInduction
<1>4. QED BY <1>3

\* A placeholder is read as the block of the next file.
LEMMA ReadPlaceholder ==
    ASSUME NEW X \in Seq(Symbols), NEW F \in Seq(FileSet), F # << >>
    PROVE  Read(Placeholder, [text |-> X, files |-> F])
              = [text |-> X \o Runes(Block(Head(F))), files |-> Tail(F)]
<1> DEFINE r == [text |-> X, files |-> F]
           q == [text |-> X \o Runes(Block(Head(F))), files |-> Tail(F)]
           c1 == "open"
           c2 == "file"
           c3 == "under"
           c4 == "close"
<1>1. c1 \in Symbols /\ c2 \in Symbols /\ c3 \in Symbols /\ c4 \in Symbols
  BY DEF Symbols
<1>2. PICK p0 \in Seq(Symbols), p1 \in Seq(Symbols), p2 \in Seq(Symbols),
           p3 \in Seq(Symbols) :
          /\ p0 = << >> /\ p1 = Append(p0, c1) /\ p2 = Append(p1, c2)
          /\ p3 = Append(p2, c3) /\ Placeholder = Append(p3, c4)
  <2>1. /\ << >> \in Seq(Symbols) /\ <<c1>> \in Seq(Symbols)
        /\ <<c1, c2>> \in Seq(Symbols) /\ <<c1, c2, c3>> \in Seq(Symbols)
    BY <1>1
  <2>2. /\ <<c1>> = Append(<< >>, c1) /\ <<c1, c2>> = Append(<<c1>>, c2)
        /\ <<c1, c2, c3>> = Append(<<c1, c2>>, c3)
        /\ Placeholder = Append(<<c1, c2, c3>>, c4)
    BY DEF Placeholder
  <2> HIDE DEF c1, c2, c3, c4
  <2>3. QED BY <2>1, <2>2, Zenon
<1>3. Read(Placeholder, r) = ReadOn(ReadOn(ReadOn(ReadOn(r, c1), c2), c3), c4)
  <2> HIDE DEF r, c1, c2, c3, c4
  <2>1. Read(p0, r) = r
    BY <1>2, ReadEmpty
  <2>2. Read(Append(p0, c1), r) = ReadOn(Read(p0, r), c1)
    BY <1>1, ReadAppend
  <2>3. Read(Append(p1, c2), r) = ReadOn(Read(p1, r), c2)
    BY <1>1, ReadAppend
  <2>4. Read(Append(p2, c3), r) = ReadOn(Read(p2, r), c3)
    BY <1>1, ReadAppend
  <2>5. Read(Append(p3, c4), r) = ReadOn(Read(p3, r), c4)
    BY <1>1, ReadAppend
  <2>6. QED BY <1>2, <2>1, <2>2, <2>3, <2>4, <2>5, Zenon
<1>4. ReadOn(r, c1) = r
  BY PlaceholderSet DEF ReadOn
<1>5. ReadOn(r, c2) = q
  BY DEF ReadOn
<1>6. ReadOn(q, c3) = q
  BY PlaceholderSet DEF ReadOn
<1>7. ReadOn(q, c4) = q
  BY PlaceholderSet DEF ReadOn
<1>8. Read(Placeholder, r) = q
  <2> HIDE DEF r, q, c1, c2, c3, c4
  <2>1. QED BY <1>3, <1>4, <1>5, <1>6, <1>7
<1>9. QED BY <1>8

-----------------------------------------------------------------------------
(* The blocks that are taken out of a text. *)

\* A fence is three backquotes.
LEMMA FenceAt ==
    ASSUME NEW A, NEW text \in Seq(A), NEW i \in 1 .. Len(text) - 2
    PROVE  SubSeq(text, i, i + 2) = Fence
              <=> text[i] = "tick" /\ text[i + 1] = "tick" /\ text[i + 2] = "tick"
<1>1. PICK part : part = SubSeq(text, i, i + 2)
  OBVIOUS
<1>2. /\ Len(text) \in Nat /\ i \in 1 .. Len(text) + 1 /\ i + 2 \in i - 1 .. Len(text)
      /\ i + 2 - i + 1 = 3 /\ i + 1 - 1 = i /\ i + 2 - 1 = i + 1 /\ i + 3 - 1 = i + 2
  BY LenProperties
<1>3. /\ part \in Seq(A) /\ Len(part) = 3
      /\ \A j \in 1 .. 3 : part[j] = text[i + j - 1]
  BY <1>1, <1>2, PartOfText
<1>4. part[1] = text[i] /\ part[2] = text[i + 1] /\ part[3] = text[i + 2]
  BY <1>2, <1>3
<1>5. part = Fence <=> part[1] = "tick" /\ part[2] = "tick" /\ part[3] = "tick"
  <2>1. PICK x \in A, y \in A, z \in A : x = part[1] /\ y = part[2] /\ z = part[3]
    BY <1>3
  <2>2. part = <<x, y, z>>
    BY <1>3, <2>1
  <2>3. <<x, y, z>> = <<"tick", "tick", "tick">> <=> x = "tick" /\ y = "tick" /\ z = "tick"
    OBVIOUS
  <2>4. QED BY <2>1, <2>2, <2>3, Zenon DEF Fence
<1>6. QED BY <1>1, <1>4, <1>5, Zenon

\* A block of the text opens here, has its first line break here and closes here.
BlockAt(text, o, l, c) ==
    /\ o \in 1 .. Len(text) - 2 /\ SubSeq(text, o, o + 2) = Fence
    /\ l \in o + 3 .. Len(text) /\ text[l] = "nl"
    /\ c \in l + 1 .. Len(text) - 2 /\ SubSeq(text, c, c + 2) = Fence

\* The file that is made of it.
FileAt(text, o, l, c) ==
    [tag |-> SubSeq(text, o + 3, l - 1), content |-> SubSeq(text, l + 1, c - 1)]

\* A turn replaces a block and takes it for a file, or has nothing to do.
LEMMA FirstBlock ==
    ASSUME NEW e \in Extracting
    PROVE  \/ Replaced(e) = e
           \/ \E o, l, c \in Nat :
                 /\ BlockAt(e.text, o, l, c)
                 /\ \A i \in FencesFrom(e.text, 1) : o <= i
                 /\ Replaced(e) =
                       [text  |-> SubSeq(e.text, 1, o - 1) \o Placeholder
                                     \o SubSeq(e.text, c + 3, Len(e.text)),
                        files |-> Append(e.files, FileAt(e.text, o, l, c))]
<1>1. PICK text \in Seq(Symbols), files \in Seq(FileSet), long \in Nat :
          text = e.text /\ files = e.files /\ long = Len(text)
  BY LenProperties DEF Extracting
<1> DEFINE opens  == FencesFrom(text, 1)
           open   == Min(opens)
           lines  == BreaksFrom(text, open + 3)
           line   == Min(lines)
           closes == FencesFrom(text, line + 1)
           close  == Min(closes)
<1>2. CASE /\ opens # {} /\ lines # {} /\ closes # {}
           /\ IsLong(SubSeq(text, line + 1, close - 1))
  <2>1. PICK o \in 1 .. long - 2 :
            /\ o = open /\ SubSeq(text, o, o + 2) = Fence
            /\ \A i \in FencesFrom(text, 1) : o <= i
    <3>1. opens \in SUBSET (1 .. long)
          /\ \A i \in opens : i \in 1 .. long - 2 /\ SubSeq(text, i, i + 2) = Fence
      BY <1>1 DEF FencesFrom
    <3>2. opens = FencesFrom(text, 1)
      OBVIOUS
    <3> HIDE DEF opens
    <3>3. Min(opens) \in opens /\ \A i \in opens : Min(opens) <= i
      BY <1>2, <3>1, MinMaxOfPlaces
    <3>4. QED BY <3>1, <3>2, <3>3
  <2>2. PICK l \in o + 3 .. long : l = line /\ text[l] = "nl"
    <3>1. lines \in SUBSET (1 .. long)
          /\ \A i \in lines : i \in o + 3 .. long /\ text[i] = "nl"
      BY SMTT(30), <1>1, <2>1 DEF BreaksFrom
    <3> HIDE DEF lines
    <3>2. Min(lines) \in lines
      BY <1>2, <3>1, MinMaxOfPlaces
    <3>3. QED BY <3>1, <3>2
  <2>3. PICK c \in l + 1 .. long - 2 : c = close /\ SubSeq(text, c, c + 2) = Fence
    <3>1. closes = FencesFrom(text, l + 1)
      BY <2>2
    <3>2. closes \in SUBSET (1 .. long)
          /\ \A i \in closes : i \in l + 1 .. long - 2 /\ SubSeq(text, i, i + 2) = Fence
      <4> HIDE DEF closes
      <4>1. \A i \in closes :
                i \in l + 1 .. long - 2 /\ SubSeq(text, i, i + 2) = Fence
        BY <1>1, <3>1 DEF FencesFrom
      <4>2. l \in Nat /\ \A i \in l + 1 .. long - 2 : i \in 1 .. long
        BY <2>1
      <4>3. QED BY <4>1, <4>2
    <3> HIDE DEF closes
    <3>3. Min(closes) \in closes
      BY <1>2, <3>2, MinMaxOfPlaces
    <3>4. QED BY <3>2, <3>3
  <2>4. Replaced(e) = [text  |-> SubSeq(text, 1, o - 1) \o Placeholder
                                   \o SubSeq(text, c + 3, long),
                       files |-> Append(files, FileAt(text, o, l, c))]
    BY <1>1, <1>2, <2>1, <2>2, <2>3 DEF Replaced, FileAt
  <2>5. BlockAt(text, o, l, c)
    BY <1>1, <2>1, <2>2, <2>3 DEF BlockAt
  <2>6. o \in Nat /\ l \in Nat /\ c \in Nat
    <3>1. o \in Nat
      OBVIOUS
    <3>2. l \in Nat
      BY <3>1
    <3>3. QED BY <3>1, <3>2
  <2> HIDE DEF opens, open, lines, line, closes, close
  <2>7. \A i \in FencesFrom(e.text, 1) : o <= i
    BY <1>1, <2>1
  <2>8. QED BY <1>1, <2>4, <2>5, <2>6, <2>7, Zenon
<1>3. CASE ~(/\ opens # {} /\ lines # {} /\ closes # {}
             /\ IsLong(SubSeq(text, line + 1, close - 1)))
  BY <1>1, <1>3 DEF Replaced
<1>4. QED BY <1>2, <1>3

\* The file, with its tag and its fences, is what is cut out of the text.
LEMMA BlockOfFile ==
    ASSUME NEW text \in Seq(Symbols), NEW o \in Nat, NEW l \in Nat, NEW c \in Nat,
           BlockAt(text, o, l, c)
    PROVE  /\ FileAt(text, o, l, c) \in FileSet
           /\ Block(FileAt(text, o, l, c)) = SubSeq(text, o, c + 2)
<1> DEFINE part(m, n) == SubSeq(text, m, n)
<1>1. PICK long \in Nat : long = Len(text)
  BY LenProperties
<1>2. /\ 1 <= o /\ o + 3 <= l /\ l + 1 <= c /\ c + 2 <= long
      /\ part(o, o + 2) = Fence /\ part(c, c + 2) = Fence /\ text[l] = "nl"
  BY <1>1 DEF BlockAt
<1>3. \A m, k, n \in Nat : 1 <= m /\ m <= k + 1 /\ k <= n /\ n <= long
          => part(m, k) \o part(k + 1, n) = part(m, n)
  <2> SUFFICES ASSUME NEW m \in Nat, NEW k \in Nat, NEW n \in Nat,
                      1 <= m, m <= k + 1, k <= n, n <= long
               PROVE  part(m, k) \o part(k + 1, n) = part(m, n)
    OBVIOUS
  <2>1. m \in 1 .. Len(text) + 1 /\ k \in m - 1 .. Len(text) /\ n \in k .. Len(text)
    BY <1>1
  <2>2. QED BY <2>1, ConcatAdjacentSubSeq
<1>4. part(l, l) = <<"nl">>
  <2>1. l \in 1 .. Len(text) + 1 /\ l \in l - 1 .. Len(text) /\ l - l + 1 = 1 /\ l + 1 - 1 = l
    BY <1>1, <1>2
  <2>2. PICK line : line = part(l, l)
    OBVIOUS
  <2>3. /\ line \in Seq(Symbols) /\ Len(line) = 1
        /\ \A i \in 1 .. 1 : line[i] = text[l + i - 1]
    BY <2>1, <2>2, PartOfText
  <2>4. line[1] = "nl"
    BY <1>2, <2>1, <2>3
  <2>5. line = <<line[1]>>
    BY <2>3
  <2>6. QED BY <2>2, <2>4, <2>5
<1>5. part(o + 3, l - 1) \in Seq(Symbols)
  <2>1. o + 3 \in 1 .. Len(text) + 1 /\ l - 1 \in o + 3 - 1 .. Len(text)
    BY <1>1, <1>2
  <2>2. QED BY <2>1, PartOfText
<1>6. part(l + 1, c - 1) \in Seq(Symbols)
  <2>1. l + 1 \in 1 .. Len(text) + 1 /\ c - 1 \in l + 1 - 1 .. Len(text)
    BY <1>1, <1>2
  <2>2. QED BY <2>1, PartOfText
<1>7. part(o, o + 2) \o part(o + 3, l - 1) = part(o, l - 1)
  BY <1>2, <1>3
<1>8. part(o, l - 1) \o part(l, l) = part(o, l)
  <2>1. l - 1 \in Nat /\ l - 1 + 1 = l
    BY <1>2
  <2>2. part(o, l - 1) \o part(l - 1 + 1, l) = part(o, l)
    BY <1>2, <1>3, <2>1
  <2>3. QED BY <2>1, <2>2
<1>9. part(o, l) \o part(l + 1, c - 1) = part(o, c - 1)
  BY <1>2, <1>3
<1>10. part(o, c - 1) \o part(c, c + 2) = part(o, c + 2)
  <2>1. c - 1 \in Nat /\ c - 1 + 1 = c
    BY <1>2
  <2>2. part(o, c - 1) \o part(c - 1 + 1, c + 2) = part(o, c + 2)
    BY <1>2, <1>3, <2>1
  <2>3. QED BY <2>1, <2>2
<1>11. FileAt(text, o, l, c) = [tag |-> part(o + 3, l - 1), content |-> part(l + 1, c - 1)]
  BY DEF FileAt
<1> HIDE DEF part
<1>12. FileAt(text, o, l, c) \in FileSet
  BY <1>5, <1>6, <1>11 DEF FileSet
<1>13. Block(FileAt(text, o, l, c))
          = part(o, o + 2) \o part(o + 3, l - 1) \o part(l, l) \o part(l + 1, c - 1)
               \o part(c, c + 2)
  <2>1. PICK file : file = FileAt(text, o, l, c)
    OBVIOUS
  <2>2. file.tag = part(o + 3, l - 1) /\ file.content = part(l + 1, c - 1)
    BY <1>11, <2>1
  <2>3. Block(file) = Fence \o file.tag \o <<"nl">> \o file.content \o Fence
    BY Zenon DEF Block
  <2>4. QED BY <1>2, <1>4, <2>1, <2>2, <2>3, Zenon
<1>14. QED BY <1>7, <1>8, <1>9, <1>10, <1>12, <1>13 DEF part

-----------------------------------------------------------------------------
(* The text that a block is taken out of. *)

\* A text whose beginning is settled, and of which only bytes are left.
LEMMA BehindStart ==
    ASSUME NEW A \in Seq(Symbols), NEW B \in Seq(Bytes)
    PROVE  /\ A \o B \in Seq(Symbols) /\ Len(A \o B) = Len(A) + Len(B)
           /\ SubSeq(A \o B, 1, Len(A)) = A
           /\ SubSeq(A \o B, Len(A) + 1, Len(A \o B)) = B
           /\ \A m \in Len(A) + 1 .. Len(A \o B) + 1 : \A n \in m - 1 .. Len(A \o B) :
                 SubSeq(A \o B, m, n) \in Seq(Bytes)
<1>1. PICK a \in Nat, b \in Nat : a = Len(A) /\ b = Len(B)
  BY LenProperties
<1>2. B \in Seq(Symbols) /\ \A i \in 1 .. b : B[i] \in Bytes
  <2>1. Bytes \subseteq Symbols
    BY DEF Symbols
  <2>2. QED BY <1>1, <2>1, SeqMonotonic, ElementOfSeq
<1>3. PICK text \in Seq(Symbols) : text = A \o B
  BY <1>2, ConcatProperties
<1>4. /\ Len(text) = a + b
      /\ \A i \in 1 .. a + b : text[i] = IF i <= a THEN A[i] ELSE B[i - a]
  BY <1>1, <1>2, <1>3, ConcatProperties
<1>5. SubSeq(text, 1, a) = A
  <2>1. 1 \in 1 .. Len(text) + 1 /\ a \in 1 - 1 .. Len(text) /\ a - 1 + 1 = a
    BY <1>4
  <2>2. PICK part : part = SubSeq(text, 1, a)
    OBVIOUS
  <2>3. /\ part \in Seq(Symbols) /\ Len(part) = a
        /\ \A i \in 1 .. a : part[i] = text[1 + i - 1]
    BY <2>1, <2>2, PartOfText
  <2>4. \A i \in 1 .. a : part[i] = A[i]
    <3> SUFFICES ASSUME NEW i \in 1 .. a PROVE part[i] = A[i]
      OBVIOUS
    <3>1. i \in 1 .. a + b /\ i <= a /\ 1 + i - 1 = i
      OBVIOUS
    <3>2. QED BY <1>4, <2>3, <3>1
  <2>5. QED BY <1>1, <2>2, <2>3, <2>4, SeqEqual
<1>6. SubSeq(text, a + 1, a + b) = B
  <2>1. a + 1 \in 1 .. Len(text) + 1 /\ a + b \in a + 1 - 1 .. Len(text)
        /\ a + b - (a + 1) + 1 = b
    BY <1>4
  <2>2. PICK part : part = SubSeq(text, a + 1, a + b)
    OBVIOUS
  <2>3. /\ part \in Seq(Symbols) /\ Len(part) = b
        /\ \A i \in 1 .. b : part[i] = text[a + 1 + i - 1]
    BY <2>1, <2>2, PartOfText
  <2>4. \A i \in 1 .. b : part[i] = B[i]
    <3> SUFFICES ASSUME NEW i \in 1 .. b PROVE part[i] = B[i]
      OBVIOUS
    <3>1. a + i \in 1 .. a + b /\ ~(a + i <= a) /\ a + 1 + i - 1 = a + i /\ a + i - a = i
      OBVIOUS
    <3>2. QED BY <1>4, <2>3, <3>1
  <2>5. QED BY <1>1, <1>2, <2>2, <2>3, <2>4, SeqEqual
<1>7. ASSUME NEW m \in a + 1 .. a + b + 1, NEW n \in m - 1 .. a + b
      PROVE  SubSeq(text, m, n) \in Seq(Bytes)
  <2>1. m \in 1 .. Len(text) + 1 /\ n \in m - 1 .. Len(text)
    BY <1>4
  <2>2. PICK part : part = SubSeq(text, m, n)
    OBVIOUS
  <2>3. /\ part \in Seq(Symbols) /\ Len(part) = n - m + 1
        /\ \A i \in 1 .. n - m + 1 : part[i] = text[m + i - 1]
    BY <2>1, <2>2, PartOfText
  <2>4. \A i \in 1 .. n - m + 1 : part[i] \in Bytes
    <3> SUFFICES ASSUME NEW i \in 1 .. n - m + 1 PROVE part[i] \in Bytes
      OBVIOUS
    <3>1. PICK j \in 1 .. a + b : j = m + i - 1 /\ ~(j <= a) /\ j - a \in 1 .. b
      <4>1. m + i - 1 \in 1 .. a + b /\ ~(m + i - 1 <= a) /\ m + i - 1 - a \in 1 .. b
        OBVIOUS
      <4>2. QED BY <4>1
    <3>2. text[j] = B[j - a]
      BY <1>4, <3>1
    <3>3. B[j - a] \in Bytes
      BY <1>2, <3>1
    <3>4. QED BY <2>3, <3>1, <3>2, <3>3
  <2>5. PICK k \in Nat : k = n - m + 1
    <3>1. n - m + 1 \in Nat
      OBVIOUS
    <3>2. QED BY <3>1
  <2>6. DOMAIN part = 1 .. k /\ part = [i \in DOMAIN part |-> part[i]]
    BY <2>3, <2>5, LenProperties
  <2>7. part \in [1 .. k -> Bytes]
    BY <2>4, <2>5, <2>6
  <2>8. part \in Seq(Bytes)
    BY <2>7
  <2>9. QED BY <2>2, <2>8
<1>8. QED BY <1>1, <1>3, <1>4, <1>5, <1>6, <1>7

\* The three parts of what is left: before the block, the block, and behind it.
CutsOut(A, B, o, c) ==
    \E before, block, after \in Seq(Bytes) :
        /\ block = SubSeq(A \o B, o, c + 2)
        /\ after = SubSeq(A \o B, c + 3, Len(A \o B))
        /\ SubSeq(A \o B, 1, o - 1) = A \o before
        /\ B = (before \o block) \o after

\* The block that a turn replaces is cut out of what is left as it was.
LEMMA CutOut ==
    ASSUME NEW A \in Seq(Symbols), NEW B \in Seq(Bytes),
           NEW o \in Nat, NEW l \in Nat, NEW c \in Nat, BlockAt(A \o B, o, l, c), Len(A) < o
    PROVE  CutsOut(A, B, o, c)
<1>1. PICK text \in Seq(Symbols), a \in Nat, n \in Nat :
          text = A \o B /\ a = Len(A) /\ n = Len(text)
  BY BehindStart, LenProperties
<1>2. /\ SubSeq(text, 1, a) = A /\ SubSeq(text, a + 1, n) = B
      /\ \A i \in a + 1 .. n + 1 : \A j \in i - 1 .. n : SubSeq(text, i, j) \in Seq(Bytes)
  BY <1>1, BehindStart
<1>3. a < o /\ o <= c /\ c + 2 <= n
  <2>1. BlockAt(text, o, l, c)
    BY <1>1, Zenon
  <2>2. o + 3 <= l /\ l + 1 <= c /\ c + 2 <= n
    BY <1>1, <2>1 DEF BlockAt
  <2>3. QED BY <1>1, <2>2
<1>4. /\ SubSeq(text, 1, a) \o SubSeq(text, a + 1, o - 1) = SubSeq(text, 1, o - 1)
      /\ SubSeq(text, a + 1, o - 1) \o SubSeq(text, o, c + 2) = SubSeq(text, a + 1, c + 2)
      /\ SubSeq(text, a + 1, c + 2) \o SubSeq(text, c + 3, n) = SubSeq(text, a + 1, n)
  <2>1. a < o /\ o <= c /\ c + 2 <= Len(text) /\ n = Len(text)
    BY <1>1, <1>3
  <2>2. CutAt(text, a, o, c)
    BY <2>1, CutThrice
  <2>3. QED BY <2>1, <2>2, Zenon DEF CutAt
<1>5. PICK before \in Seq(Bytes), block \in Seq(Bytes), after \in Seq(Bytes) :
          /\ before = SubSeq(text, a + 1, o - 1) /\ block = SubSeq(text, o, c + 2)
          /\ after = SubSeq(text, c + 3, n)
  <2>1. /\ a + 1 \in a + 1 .. n + 1 /\ o - 1 \in a + 1 - 1 .. n
        /\ o \in a + 1 .. n + 1 /\ c + 2 \in o - 1 .. n
        /\ c + 3 \in a + 1 .. n + 1 /\ n \in c + 3 - 1 .. n
    BY <1>3
  <2>2. /\ SubSeq(text, a + 1, o - 1) \in Seq(Bytes) /\ SubSeq(text, o, c + 2) \in Seq(Bytes)
        /\ SubSeq(text, c + 3, n) \in Seq(Bytes)
    BY <1>2, <2>1
  <2>3. QED BY <2>2, Zenon
<1>6. /\ block = SubSeq(A \o B, o, c + 2) /\ after = SubSeq(A \o B, c + 3, Len(A \o B))
      /\ SubSeq(A \o B, 1, o - 1) = A \o before /\ B = (before \o block) \o after
  BY <1>1, <1>2, <1>4, <1>5, Zenon
<1>7. QED BY <1>6, Zenon DEF CutsOut

\* Behind a placeholder that takes the place of the first block, no fence is
\* left before it.
LEMMA NoFenceBefore ==
    ASSUME NEW text \in Seq(Symbols), NEW o \in 1 .. Len(text) - 2,
           \A i \in FencesFrom(text, 1) : o <= i,
           NEW after \in Seq(Symbols), NEW longer,
           longer = (SubSeq(text, 1, o - 1) \o Placeholder) \o after
    PROVE  \A i \in FencesFrom(longer, 1) : i > o + 3
<1>1. PICK n \in Nat, k \in Nat : n = Len(text) /\ k = Len(after)
  BY LenProperties
<1>2. PICK start \in Seq(Symbols) :
          /\ start = SubSeq(text, 1, o - 1) /\ Len(start) = o - 1
          /\ \A i \in 1 .. o - 1 : start[i] = text[i]
  <2>1. PICK e \in 0 .. Len(text) : e = o - 1
    BY <1>1
  <2>2. /\ SubSeq(text, 1, e) \in Seq(Symbols) /\ Len(SubSeq(text, 1, e)) = e
        /\ \A i \in 1 .. e : SubSeq(text, 1, e)[i] = text[i]
    BY Beginning
  <2>3. QED BY <2>1, <2>2, Zenon
<1>3. PICK mark \in Seq(Symbols) :
          mark = Placeholder /\ Len(mark) = 4 /\ \A j \in 1 .. 4 : mark[j] # "tick"
  <2>1. Placeholder \in Seq(Symbols) /\ Len(Placeholder) = 4
    <3>1. /\ "open" \in Symbols /\ "file" \in Symbols
          /\ "under" \in Symbols /\ "close" \in Symbols
      BY DEF Symbols
    <3>2. QED BY <3>1 DEF Placeholder
  <2>2. \A j \in 1 .. 4 : Placeholder[j] # "tick"
    <3>1. 1 .. 4 = {1, 2, 3, 4}
      OBVIOUS
    <3>2. /\ Placeholder[1] # "tick" /\ Placeholder[2] # "tick"
          /\ Placeholder[3] # "tick" /\ Placeholder[4] # "tick"
      BY DEF Placeholder
    <3>3. QED BY <3>1, <3>2
  <2>3. QED BY <2>1, <2>2
<1>4. PICK front \in Seq(Symbols) :
          /\ front = start \o mark /\ Len(front) = o + 3
          /\ \A i \in 1 .. o - 1 : front[i] = text[i]
          /\ \A i \in o .. o + 3 : front[i] # "tick"
  <2>1. PICK front \in Seq(Symbols) : front = start \o mark
    BY ConcatProperties
  <2>2. /\ Len(front) = o - 1 + 4
        /\ \A i \in 1 .. o - 1 + 4 : front[i] = IF i <= o - 1 THEN start[i] ELSE mark[i - (o - 1)]
    <3>1. /\ Len(start \o mark) = Len(start) + Len(mark)
          /\ \A i \in 1 .. Len(start) + Len(mark) : (start \o mark)[i] =
                IF i <= Len(start) THEN start[i] ELSE mark[i - Len(start)]
      BY ConcatProperties
    <3>2. QED BY <1>2, <1>3, <2>1, <3>1
  <2>3. /\ o - 1 + 4 = o + 3
        /\ \A i \in o .. o + 3 :
              i \in 1 .. o - 1 + 4 /\ ~(i <= o - 1) /\ i - (o - 1) \in 1 .. 4
        /\ \A i \in 1 .. o - 1 : i \in 1 .. o - 1 + 4 /\ i <= o - 1
    <3>1. o \in Int /\ 1 <= o
      OBVIOUS
    <3>2. \A i \in 1 .. o - 1 : i \in 1 .. o - 1 + 4 /\ i <= o - 1
      BY <3>1
    <3>3. \A i \in o .. o + 3 :
              i \in 1 .. o - 1 + 4 /\ ~(i <= o - 1) /\ i - (o - 1) \in 1 .. 4
      BY <3>1
    <3>4. QED BY <3>1, <3>2, <3>3
  <2>4. Len(front) = o + 3
    BY <2>2, <2>3
  <2>5. \A i \in o .. o + 3 : front[i] # "tick"
    BY <1>3, <2>2, <2>3
  <2>6. \A i \in 1 .. o - 1 : front[i] = text[i]
    BY <1>2, <2>2, <2>3
  <2>7. QED BY <2>1, <2>4, <2>5, <2>6
<1>5. /\ longer \in Seq(Symbols) /\ Len(longer) = o + 3 + k
      /\ \A i \in 1 .. o - 1 : longer[i] = text[i]
      /\ \A i \in o .. o + 3 : longer[i] # "tick"
  <2>1. longer = front \o after
    BY <1>2, <1>3, <1>4
  <2>2. /\ longer \in Seq(Symbols) /\ Len(longer) = o + 3 + k
        /\ \A i \in 1 .. o + 3 + k : longer[i] = IF i <= o + 3 THEN front[i] ELSE after[i - (o + 3)]
    <3>1. /\ front \o after \in Seq(Symbols)
          /\ Len(front \o after) = Len(front) + Len(after)
          /\ \A i \in 1 .. Len(front) + Len(after) : (front \o after)[i] =
                IF i <= Len(front) THEN front[i] ELSE after[i - Len(front)]
      BY ConcatProperties
    <3>2. QED BY <1>1, <1>4, <2>1, <3>1
  <2>3. \A i \in 1 .. o + 3 : i \in 1 .. o + 3 + k /\ i <= o + 3
    OBVIOUS
  <2>4. \A i \in 1 .. o + 3 : longer[i] = front[i]
    BY <2>2, <2>3
  <2>5. /\ \A i \in o .. o + 3 : i \in 1 .. o + 3
        /\ \A i \in 1 .. o - 1 : i \in 1 .. o + 3
    OBVIOUS
  <2>6. QED BY <1>4, <2>2, <2>4, <2>5
<1>6. SUFFICES ASSUME NEW i \in FencesFrom(longer, 1), ~(i > o + 3) PROVE FALSE
  OBVIOUS
<1>7. /\ i \in 1 .. Len(longer) - 2
      /\ longer[i] = "tick" /\ longer[i + 1] = "tick" /\ longer[i + 2] = "tick"
  <2>1. i \in 1 .. Len(longer) - 2 /\ SubSeq(longer, i, i + 2) = Fence
    BY DEF FencesFrom
  <2>2. QED BY <1>5, <2>1, FenceAt
<1>8. i + 2 <= o - 1
  <2>1. i \notin o .. o + 3 /\ i + 1 \notin o .. o + 3 /\ i + 2 \notin o .. o + 3
    BY <1>5, <1>7
  <2>2. i \in Int /\ 1 <= i /\ o \in Int /\ 1 <= o /\ i <= o + 3
    BY <1>5, <1>6, <1>7
  <2>3. QED BY <2>1, <2>2
<1>9. i \in 1 .. o - 1 /\ i + 1 \in 1 .. o - 1 /\ i + 2 \in 1 .. o - 1
  BY <1>7, <1>8
<1>10. text[i] = "tick" /\ text[i + 1] = "tick" /\ text[i + 2] = "tick"
  BY <1>5, <1>7, <1>9
<1>11. i \in 1 .. Len(text) - 2
  BY <1>1, <1>9
<1>12. SubSeq(text, i, i + 2) = Fence
  BY <1>10, <1>11, FenceAt
<1>13. i \in FencesFrom(text, 1)
  BY <1>11, <1>12 DEF FencesFrom
<1>14. QED BY <1>9, <1>13

\* What an agent writes is read as it is.
LEMMA BytesArePlain == Decoded(Bytes) \subseteq Plain /\ Bytes \subseteq Symbols
BY DEF Decoded, Plain, Symbols, Bytes, White, Marks

LEMMA RunesOfBytes ==
    ASSUME NEW text \in Seq(Bytes)
    PROVE  text \in Seq(Symbols) /\ Runes(text) \in Seq(Plain) /\ Runes(text) \in Seq(Symbols)
<1>1. text \in Seq(Symbols)
  BY BytesArePlain, SeqMonotonic
<1>2. Runes(text) \in Seq(Plain)
  BY RunesType, BytesArePlain, SeqMonotonic
<1>3. QED BY <1>1, <1>2, RunesOfSymbols

-----------------------------------------------------------------------------
(* No character is torn where a block is taken out. *)

\* A placeholder is four characters, and tears none.
LEMMA RunesOfPlaceholder ==
    /\ Placeholder \in Seq(Symbols) /\ Runes(Placeholder) = Placeholder
    /\ Placeholder # << >> /\ Placeholder[1] # "trail"
    /\ Len(Placeholder) = 4 /\ Placeholder[Len(Placeholder)] # "lead"
<1>1. /\ "open" \in Characters /\ "file" \in Characters
      /\ "under" \in Characters /\ "close" \in Characters
  BY DEF Characters, Symbols, Bytes
<1>2. Placeholder \in Seq(Characters)
  BY <1>1 DEF Placeholder
<1>3. Placeholder \in Seq(Symbols)
  BY <1>2, SymbolsDecoded, SeqMonotonic
<1>4. /\ Placeholder # << >> /\ Placeholder[1] # "trail"
      /\ Len(Placeholder) = 4 /\ Placeholder[Len(Placeholder)] # "lead"
  BY DEF Placeholder
<1>5. QED BY <1>2, <1>3, <1>4, RunesOfCharacters

\* A block begins and ends with a backquote, so that no character is torn where
\* it is cut out.
Ticked(block) == block # << >> /\ block[1] = "tick" /\ block[Len(block)] = "tick"

\* The characters of a text that a block is cut out of.
LEMMA RunesOfBlock ==
    ASSUME NEW before \in Seq(Bytes), NEW after \in Seq(Bytes), NEW block \in Seq(Bytes),
           Ticked(block)
    PROVE  Runes((before \o block) \o after)
              = (Runes(before) \o Runes(block)) \o Runes(after)
<1>1. PICK both \in Seq(Bytes) : both = before \o block
  BY ConcatProperties
<1>2. ~Torn(before, block)
  BY DEF Torn, Ticked
<1>3. ~Torn(both, after)
  <2>1. PICK m \in Nat, n \in Nat : m = Len(before) /\ n = Len(block) /\ n # 0
    BY LenProperties, EmptySeq DEF Ticked
  <2>2. /\ Len(before \o block) = Len(before) + Len(block)
        /\ \A i \in 1 .. Len(before) + Len(block) : (before \o block)[i] =
              IF i <= Len(before) THEN before[i] ELSE block[i - Len(before)]
    BY ConcatProperties
  <2>3. Len(both) = m + n /\ m + n \in 1 .. m + n /\ ~(m + n <= m) /\ m + n - m = n
    BY <1>1, <2>1, <2>2
  <2>4. both[m + n] = block[n]
    BY <1>1, <2>1, <2>2, <2>3
  <2>5. both[Len(both)] = "tick"
    BY <2>1, <2>3, <2>4 DEF Ticked
  <2>6. QED BY <2>5 DEF Torn
<1>4. Runes(both) = Runes(before) \o Runes(block)
  BY <1>1, <1>2, RunesConcat
<1>5. Runes(both \o after) = Runes(both) \o Runes(after)
  BY <1>3, RunesConcat
<1>6. QED BY <1>1, <1>4, <1>5, Zenon

\* No character is torn before a text that is whole at its end.
WholeEnd(text) == text = << >> \/ text[Len(text)] # "lead"

LEMMA WholeEndRunes ==
    ASSUME NEW text \in Seq(Symbols), WholeEnd(text), NEW more \in Seq(Symbols)
    PROVE  Runes(text \o more) = Runes(text) \o Runes(more)
<1>1. ~Torn(text, more)
  BY DEF Torn, WholeEnd
<1>2. QED BY <1>1, RunesConcat

\* A placeholder leaves a text whole at its end.
LEMMA WholeEndPlaceholder ==
    ASSUME NEW text \in Seq(Symbols)
    PROVE  /\ text \o Placeholder \in Seq(Symbols)
           /\ Len(text \o Placeholder) = Len(text) + 4
           /\ WholeEnd(text \o Placeholder)
           /\ Runes(text \o Placeholder) = Runes(text) \o Placeholder
<1>1. PICK mark \in Seq(Symbols) :
          /\ mark = Placeholder /\ Runes(mark) = mark /\ mark # << >> /\ mark[1] # "trail"
          /\ Len(mark) = 4 /\ mark[4] # "lead"
  <2>1. Placeholder[4] # "lead"
    BY RunesOfPlaceholder
  <2>2. QED BY <2>1, RunesOfPlaceholder
<1>2. ~Torn(text, mark)
  BY <1>1 DEF Torn
<1>3. Runes(text \o mark) = Runes(text) \o mark
  BY <1>1, <1>2, RunesConcat
<1>4. PICK both \in Seq(Symbols), n \in Nat : both = text \o mark /\ n = Len(text)
  BY LenProperties, ConcatProperties
<1>5. Len(both) = n + 4 /\ both[n + 4] = mark[4]
  <2>1. /\ Len(text \o mark) = Len(text) + Len(mark)
        /\ \A i \in 1 .. Len(text) + Len(mark) : (text \o mark)[i] =
              IF i <= Len(text) THEN text[i] ELSE mark[i - Len(text)]
    BY ConcatProperties
  <2>2. n + 4 \in 1 .. n + 4 /\ ~(n + 4 <= n) /\ n + 4 - n = 4
    OBVIOUS
  <2>3. QED BY <1>1, <1>4, <2>1, <2>2
<1>6. WholeEnd(both)
  BY <1>1, <1>5 DEF WholeEnd
<1>7. QED BY <1>1, <1>3, <1>4, <1>5, <1>6

\* A block that is found is such a block.
LEMMA BlockEnds ==
    ASSUME NEW text \in Seq(Symbols), NEW o \in Nat, NEW l \in Nat, NEW c \in Nat,
           BlockAt(text, o, l, c)
    PROVE  Ticked(SubSeq(text, o, c + 2))
<1>1. PICK n \in Nat : n = Len(text)
  BY LenProperties
<1>2. /\ o \in 1 .. n - 2 /\ l \in o + 3 .. n /\ c \in l + 1 .. n - 2
      /\ SubSeq(text, o, o + 2) = Fence /\ SubSeq(text, c, c + 2) = Fence
  BY <1>1 DEF BlockAt
<1>3. c \in 1 .. n - 2
  BY <1>2
<1>4. text[o] = "tick" /\ text[c + 2] = "tick"
  BY <1>1, <1>2, <1>3, FenceAt
<1>5. PICK e \in Nat : e = c + 2 /\ 1 <= o /\ o <= e /\ e <= n
  BY <1>2
<1>6. SameEnds(text, o, e)
  BY <1>1, <1>5, PartEnds
<1>7. QED BY <1>4, <1>5, <1>6, Zenon DEF Ticked, SameEnds

LEMMA FrontLen ==
    ASSUME NEW text \in Seq(Symbols), NEW o \in 1 .. Len(text) - 2
    PROVE  Len(SubSeq(text, 1, o - 1)) = o - 1
<1>1. 1 \in 1 .. Len(text) + 1 /\ o - 1 \in 1 - 1 .. Len(text) /\ o - 1 - 1 + 1 = o - 1
  BY LenProperties
<1>2. QED BY <1>1, PartOfText

-----------------------------------------------------------------------------
(* Extracting keeps what can be read. *)

\* What is read of this beginning, with these files, is this text.
Reads(start, files, read) ==
    \A X \in Seq(Symbols), F \in Seq(FileSet) :
        Read(Runes(start), [text |-> X, files |-> files \o F])
           = [text |-> X \o read, files |-> F]

\* A block that is replaced is read as the next file.
LEMMA ReadsFurther ==
    ASSUME NEW A \in Seq(Symbols), NEW P \in Seq(Symbols), NEW files \in Seq(FileSet),
           NEW file \in FileSet, NEW before \in Seq(Bytes),
           WholeEnd(A), Reads(A, files, P)
    PROVE  Reads((A \o before) \o Placeholder, Append(files, file),
                 (P \o Runes(before)) \o Runes(Block(file)))
<1> SUFFICES ASSUME NEW X \in Seq(Symbols), NEW F \in Seq(FileSet)
             PROVE  Read(Runes((A \o before) \o Placeholder),
                         [text |-> X, files |-> Append(files, file) \o F])
                       = [text |-> X \o ((P \o Runes(before)) \o Runes(Block(file))),
                          files |-> F]
  BY Zenon DEF Reads
<1>1. PICK a \in Seq(Symbols), b \in Seq(Symbols), k \in Seq(Symbols), m \in Seq(Symbols) :
          /\ a = Runes(A) /\ b = Runes(before) /\ k = Runes(Block(file)) /\ m = Placeholder
          /\ b \in Seq(Plain)
  <2>1. /\ Runes(A) \in Seq(Symbols) /\ Runes(before) \in Seq(Symbols)
        /\ Runes(Block(file)) \in Seq(Symbols) /\ Placeholder \in Seq(Symbols)
        /\ Runes(before) \in Seq(Plain)
    BY RunesOfSymbols, RunesOfBytes, BlockType, RunesOfPlaceholder
  <2>2. QED BY <2>1, Zenon
<1>2. Runes((A \o before) \o Placeholder) = (a \o b) \o m
  <2>1. before \in Seq(Symbols)
    BY RunesOfBytes
  <2>2. A \o before \in Seq(Symbols)
    BY <2>1, ConcatProperties
  <2>3. Runes((A \o before) \o Placeholder) = Runes(A \o before) \o Placeholder
    BY <2>2, WholeEndPlaceholder
  <2>4. Runes(A \o before) = a \o b
    BY <1>1, <2>1, WholeEndRunes
  <2>5. QED BY <1>1, <2>3, <2>4, Zenon
<1>3. PICK G \in Seq(FileSet) :
          /\ Append(files, file) \o F = files \o G
          /\ G # << >> /\ Head(G) = file /\ Tail(G) = F
  <2>1. PICK one \in Seq(FileSet) : one = <<file>>
    <3>1. <<file>> \in Seq(FileSet)
      OBVIOUS
    <3>2. QED BY <3>1, Zenon
  <2>2. PICK G \in Seq(FileSet) : G = one \o F
    BY ConcatProperties
  <2>3. Append(files, file) = files \o one
    BY <2>1, AppendIsConcat
  <2>4. Group(files, one, F)
    BY Grouped
  <2>5. G # << >> /\ Head(G) = file /\ Tail(G) = F
    <3>1. InFront(file, F)
      BY FirstOf
    <3>2. QED BY <2>1, <2>2, <3>1, Zenon DEF InFront
  <2>6. Append(files, file) \o F = files \o G
    BY <2>2, <2>3, <2>4, Zenon DEF Group
  <2>7. QED BY <2>5, <2>6, Zenon
<1> DEFINE r == [text |-> X, files |-> files \o G]
<1>4. Read((a \o b) \o m, r) = Read(m, Read(b, Read(a, r)))
  <2> HIDE DEF r
  <2>1. Read(a \o b, r) = Read(b, Read(a, r))
    BY ReadConcat
  <2>2. PICK ab \in Seq(Symbols) : ab = a \o b
    BY ConcatProperties
  <2>3. \A more \in Seq(Symbols) : Read(ab \o more, r) = Read(more, Read(ab, r))
    BY ReadConcat
  <2>4. Read(ab \o m, r) = Read(m, Read(ab, r))
    BY <2>3, Zenon
  <2>5. QED BY <2>1, <2>2, <2>4, Zenon
<1>5. Read(a, r) = [text |-> X \o P, files |-> G]
  BY <1>1 DEF Reads
<1>6. PICK p \in Seq(Symbols) : p = X \o P
  BY ConcatProperties
<1>7. Read(b, [text |-> p, files |-> G]) = [text |-> p \o b, files |-> G]
  BY <1>1, ReadPlain
<1>8. PICK q \in Seq(Symbols) : q = p \o b
  BY ConcatProperties
<1>9. Read(m, [text |-> q, files |-> G]) = [text |-> q \o k, files |-> F]
  <2>1. Read(Placeholder, [text |-> q, files |-> G])
           = [text |-> q \o Runes(Block(Head(G))), files |-> Tail(G)]
    BY <1>3, ReadPlaceholder
  <2>2. QED BY <1>1, <1>3, <2>1, Zenon
<1>10. q \o k = X \o ((P \o b) \o k)
  <2>1. PICK pb \in Seq(Symbols) : pb = P \o b
    BY ConcatProperties
  <2>2. Group(X, P, b) /\ Group(X, pb, k)
    BY Grouped
  <2>3. QED BY <1>6, <1>8, <2>1, <2>2, Zenon DEF Group
<1>11. Read((a \o b) \o m, r) = [text |-> X \o ((P \o b) \o k), files |-> F]
  <2> HIDE DEF r
  <2>1. QED BY <1>4, <1>5, <1>6, <1>7, <1>8, <1>9, <1>10, Zenon
<1>12. QED BY <1>1, <1>2, <1>3, <1>11, Zenon

\* The reader finds in the beginning of a text, up to the last placeholder, what
\* was there before blocks were taken out; what is behind it has been left as it
\* was.
Recovers(e, whole) ==
    /\ e \in Extracting
    /\ \E A \in Seq(Symbols), B \in Seq(Bytes), P \in Seq(Symbols) :
          /\ e.text = A \o B /\ whole = P \o Runes(B) /\ WholeEnd(A)
          /\ \A i \in FencesFrom(e.text, 1) : i > Len(A)
          /\ Reads(A, e.files, P)

\* A turn of the loop keeps this.
LEMMA ReplacedRecovers ==
    ASSUME NEW whole, NEW e, Recovers(e, whole)
    PROVE  Recovers(Replaced(e), whole)
<1>1. e \in Extracting
  BY DEF Recovers
<1>2. PICK A \in Seq(Symbols), B \in Seq(Bytes), P \in Seq(Symbols) :
          /\ e.text = A \o B /\ whole = P \o Runes(B) /\ WholeEnd(A)
          /\ \A i \in FencesFrom(e.text, 1) : i > Len(A)
          /\ Reads(A, e.files, P)
  BY Zenon DEF Recovers
<1>3. PICK files \in Seq(FileSet) : files = e.files
  BY <1>1 DEF Extracting
<1>4. CASE Replaced(e) = e
  BY <1>4
<1>5. CASE \E o, l, c \in Nat :
                 /\ BlockAt(e.text, o, l, c)
                 /\ \A i \in FencesFrom(e.text, 1) : o <= i
                 /\ Replaced(e) =
                       [text  |-> SubSeq(e.text, 1, o - 1) \o Placeholder
                                     \o SubSeq(e.text, c + 3, Len(e.text)),
                        files |-> Append(e.files, FileAt(e.text, o, l, c))]
  <2>1. PICK text \in Seq(Symbols) : text = e.text /\ text = A \o B
    BY <1>1, <1>2 DEF Extracting
  <2>2. PICK o \in Nat, l \in Nat, c \in Nat :
            /\ BlockAt(text, o, l, c) /\ \A i \in FencesFrom(text, 1) : o <= i
            /\ Replaced(e) = [text  |-> SubSeq(text, 1, o - 1) \o Placeholder
                                           \o SubSeq(text, c + 3, Len(text)),
                              files |-> Append(files, FileAt(text, o, l, c))]
    BY <1>3, <1>5, <2>1, Zenon
  <2>3. o \in 1 .. Len(text) - 2 /\ o \in FencesFrom(text, 1)
    BY <2>2 DEF BlockAt, FencesFrom
  <2>4. Len(A) < o
    <3>1. o > Len(A)
      BY <1>2, <2>1, <2>3
    <3>2. QED BY <3>1, LenProperties
  <2>5. PICK before \in Seq(Bytes), block \in Seq(Bytes), after \in Seq(Bytes) :
            /\ block = SubSeq(text, o, c + 2) /\ after = SubSeq(text, c + 3, Len(text))
            /\ SubSeq(text, 1, o - 1) = A \o before
            /\ B = (before \o block) \o after
    <3>1. BlockAt(A \o B, o, l, c)
      BY <2>1, <2>2, Zenon
    <3>2. CutsOut(A, B, o, c)
      BY <2>4, <3>1, CutOut
    <3>3. QED BY <2>1, <3>2, Zenon DEF CutsOut
  <2>6. PICK file \in FileSet : file = FileAt(text, o, l, c) /\ Block(file) = block
    <3>1. /\ FileAt(text, o, l, c) \in FileSet
          /\ Block(FileAt(text, o, l, c)) = SubSeq(text, o, c + 2)
      BY <2>2, BlockOfFile, Zenon
    <3>2. QED BY <2>5, <3>1, Zenon
  <2>7. Ticked(block)
    <3>1. Ticked(SubSeq(text, o, c + 2))
      BY <2>2, BlockEnds
    <3>2. QED BY <2>5, <3>1, Zenon
  <2>8. Runes(B) = (Runes(before) \o Runes(block)) \o Runes(after)
    <3>1. Runes((before \o block) \o after)
             = (Runes(before) \o Runes(block)) \o Runes(after)
      BY <2>7, RunesOfBlock
    <3>2. QED BY <2>5, <3>1, Zenon
  <2>9. PICK start \in Seq(Symbols) :
            start = (A \o before) \o Placeholder /\ WholeEnd(start) /\ Len(start) = o - 1 + 4
    <3>1. A \o before \in Seq(Symbols)
      BY RunesOfBytes, ConcatProperties
    <3>2. Len(A \o before) = o - 1
      BY <2>3, <2>5, FrontLen
    <3>3. QED BY <3>1, <3>2, WholeEndPlaceholder
  <2>10. PICK read \in Seq(Symbols) : read = (P \o Runes(before)) \o Runes(block)
    <3>1. Runes(before) \in Seq(Symbols) /\ Runes(block) \in Seq(Symbols)
      BY RunesOfBytes
    <3>2. QED BY <3>1, ConcatProperties
  <2>11. Reads(start, Append(files, file), read)
    BY <1>2, <1>3, <2>6, <2>9, <2>10, ReadsFurther
  <2>12. whole = read \o Runes(after)
    <3>1. PICK b \in Seq(Symbols), k \in Seq(Symbols), a \in Seq(Symbols) :
              b = Runes(before) /\ k = Runes(block) /\ a = Runes(after)
      BY RunesOfBytes
    <3>2. PICK bk \in Seq(Symbols), pb \in Seq(Symbols) : bk = b \o k /\ pb = P \o b
      BY ConcatProperties
    <3>3. Group(P, bk, a) /\ Group(P, b, k)
      BY Grouped
    <3>4. QED BY <1>2, <2>8, <2>10, <3>1, <3>2, <3>3, Zenon DEF Group
  <2>13. PICK next : next = Replaced(e)
    OBVIOUS
  <2>14. /\ next \in Extracting
         /\ next.text = start \o after /\ next.files = Append(files, file)
    <3>1. next \in Extracting
      BY <1>1, <2>13, ReplacedType
    <3>2. next = [text |-> start \o after, files |-> Append(files, file)]
      BY <2>2, <2>5, <2>6, <2>9, <2>13, Zenon
    <3>3. QED BY <3>1, <3>2
  <2>15. \A i \in FencesFrom(next.text, 1) : i > Len(start)
    <3>1. after \in Seq(Symbols)
      BY RunesOfBytes
    <3>2. next.text = (SubSeq(text, 1, o - 1) \o Placeholder) \o after
      BY <2>5, <2>9, <2>14, Zenon
    <3>3. \A i \in FencesFrom(next.text, 1) : i > o + 3
      BY <2>2, <2>3, <3>1, <3>2, NoFenceBefore
    <3>4. Len(start) = o + 3
      BY <2>9
    <3>5. QED BY <3>3, <3>4
  <2>16. /\ next.text = start \o after /\ whole = read \o Runes(after) /\ WholeEnd(start)
         /\ \A i \in FencesFrom(next.text, 1) : i > Len(start)
         /\ Reads(start, next.files, read)
    BY <2>9, <2>11, <2>12, <2>14, <2>15, Zenon
  <2>17. QED BY <2>13, <2>14, <2>16, Zenon DEF Recovers
<1>6. QED BY <1>1, <1>4, <1>5, FirstBlock, Zenon

\* It holds before the first turn, with nothing settled.
LEMMA NothingRecovered ==
    ASSUME NEW text \in Seq(Bytes)
    PROVE  Recovers([text |-> text, files |-> << >>], Runes(text))
<1>1. PICK e : e = [text |-> text, files |-> << >>]
  OBVIOUS
<1>2. PICK none \in Seq(Symbols), runes \in Seq(Symbols) :
          none = << >> /\ runes = Runes(text) /\ text \in Seq(Symbols)
  <2>1. Runes(text) \in Seq(Symbols) /\ text \in Seq(Symbols) /\ << >> \in Seq(Symbols)
    BY RunesOfBytes, EmptySeq
  <2>2. QED BY <2>1, Zenon
<1>3. PICK files \in Seq(FileSet) : files = << >>
  <2>1. << >> \in Seq(FileSet)
    BY EmptySeq
  <2>2. QED BY <2>1, Zenon
<1>4. e.text = text /\ e.files = files /\ e \in Extracting
  BY <1>1, <1>2, <1>3 DEF Extracting
<1>5. text = none \o text /\ runes = none \o runes
  BY <1>2, ConcatEmptySeq
<1>6. \A i \in FencesFrom(text, 1) : i > Len(none)
  <2>1. Len(none) = 0
    BY <1>2
  <2>2. \A i \in FencesFrom(text, 1) : i \in 1 .. Len(text) - 2
    BY DEF FencesFrom
  <2>3. Len(text) \in Nat
    BY LenProperties
  <2>4. QED BY <2>1, <2>2, <2>3
<1>7. Reads(none, files, none)
  <2> SUFFICES ASSUME NEW X \in Seq(Symbols), NEW F \in Seq(FileSet)
               PROVE  Read(Runes(none), [text |-> X, files |-> files \o F])
                         = [text |-> X \o none, files |-> F]
    BY Zenon DEF Reads
  <2>1. files \o F = F /\ X \o none = X
    BY <1>2, <1>3, ConcatEmptySeq
  <2>2. Runes(none) = none
    BY <1>2, RunesEmpty, Zenon
  <2>3. Read(none, [text |-> X, files |-> F]) = [text |-> X, files |-> F]
    BY <1>2, ReadEmpty, Zenon
  <2>4. QED BY <2>1, <2>2, <2>3, Zenon
<1>8. WholeEnd(none)
  BY <1>2 DEF WholeEnd
<1>9. \E A \in Seq(Symbols), B \in Seq(Bytes), P \in Seq(Symbols) :
          /\ e.text = A \o B /\ Runes(text) = P \o Runes(B) /\ WholeEnd(A)
          /\ \A i \in FencesFrom(e.text, 1) : i > Len(A)
          /\ Reads(A, e.files, P)
  BY <1>2, <1>4, <1>5, <1>6, <1>7, <1>8, Zenon
<1>10. QED BY <1>1, <1>4, <1>9, Zenon DEF Recovers

\* A text is read, with its files, as what it was before they were taken out.
LEMMA RecoveredRead ==
    ASSUME NEW whole, NEW e, Recovers(e, whole)
    PROVE  Reads(e.text, e.files, whole)
<1>1. PICK A \in Seq(Symbols), B \in Seq(Bytes), P \in Seq(Symbols) :
          /\ e.text = A \o B /\ whole = P \o Runes(B) /\ WholeEnd(A)
          /\ Reads(A, e.files, P)
  BY Zenon DEF Recovers
<1>2. PICK files \in Seq(FileSet) : files = e.files
  BY DEF Recovers, Extracting
<1>3. PICK a \in Seq(Symbols), b \in Seq(Symbols) :
          a = Runes(A) /\ b = Runes(B) /\ b \in Seq(Plain) /\ B \in Seq(Symbols)
  <2>1. /\ Runes(A) \in Seq(Symbols) /\ Runes(B) \in Seq(Symbols)
        /\ Runes(B) \in Seq(Plain) /\ B \in Seq(Symbols)
    BY RunesOfSymbols, RunesOfBytes
  <2>2. QED BY <2>1, Zenon
<1>4. Runes(A \o B) = a \o b
  BY <1>1, <1>3, WholeEndRunes
<1>5. ASSUME NEW X \in Seq(Symbols), NEW F \in Seq(FileSet)
      PROVE  Read(a \o b, [text |-> X, files |-> files \o F])
                = [text |-> X \o (P \o b), files |-> F]
  <2>0. PICK r : r = [text |-> X, files |-> files \o F]
    OBVIOUS
  <2>1. Read(a, r) = [text |-> X \o P, files |-> F]
    BY <1>1, <1>2, <1>3, <2>0, Zenon DEF Reads
  <2>2. Read(a \o b, r) = Read(b, Read(a, r))
    BY ReadConcat
  <2>3. PICK p \in Seq(Symbols) : p = X \o P
    BY ConcatProperties
  <2>4. Read(b, [text |-> p, files |-> F]) = [text |-> p \o b, files |-> F]
    BY <1>3, ReadPlain
  <2>5. Group(X, P, b)
    BY Grouped
  <2>6. p \o b = X \o (P \o b)
    BY <2>3, <2>5, Zenon DEF Group
  <2>7. Read(a \o b, r) = [text |-> p \o b, files |-> F]
    BY <2>1, <2>2, <2>3, <2>4, Zenon
  <2>8. QED BY <2>0, <2>6, <2>7, Zenon
<1>6. Reads(A \o B, files, P \o b)
  BY <1>4, <1>5 DEF Reads
<1>7. QED BY <1>1, <1>2, <1>3, <1>6, Zenon

\* ExtractLongCodeBlocks leaves the reader all that the text had.
LEMMA ExtractRead ==
    ASSUME NEW text \in Seq(Bytes)
    PROVE  Reads(Extract(text).text, Extract(text).files, Runes(text))
<1> DEFINE Good == {e \in Extracting : Recovers(e, Runes(text))}
<1>1. [text |-> text, files |-> << >>] \in Good
  BY NothingRecovered DEF Recovers
<1>2. \A e \in Good : Replaced(e) \in Good
  <2> SUFFICES ASSUME NEW e \in Good PROVE Replaced(e) \in Good
    OBVIOUS
  <2>1. Recovers(Replaced(e), Runes(text))
    BY ReplacedRecovers
  <2>2. QED BY <2>1 DEF Recovers
<1>3. text \in Seq(Symbols)
  BY RunesOfBytes
<1>4. Extract(text) \in Good
  <2> HIDE DEF Good
  <2>1. QED BY <1>1, <1>2, <1>3, ExtractKeeps
<1>5. QED BY <1>4, RecoveredRead

\* With its files in the places of their placeholders, the text is as before.
LEMMA ExtractRebuilds ==
    ASSUME NEW text \in Seq(Bytes)
    PROVE  Rebuilt(Extract(text)) = Runes(text)
<1>1. PICK left \in Seq(Symbols), files \in Seq(FileSet), runes \in Seq(Symbols) :
          left = Extract(text).text /\ files = Extract(text).files /\ runes = Runes(text)
  <2>1. text \in Seq(Symbols) /\ Runes(text) \in Seq(Symbols)
    BY RunesOfBytes
  <2>2. Extract(text) \in Extracting
    BY <2>1, ExtractType
  <2>3. QED BY <2>1, <2>2 DEF Extracting
<1>2. PICK nothing \in Seq(Symbols), none \in Seq(FileSet) :
          /\ nothing = << >> /\ none = << >>
          /\ nothing \o runes = runes /\ files \o none = files
  <2>1. << >> \in Seq(Symbols) /\ << >> \in Seq(FileSet)
    BY EmptySeq
  <2>2. << >> \o runes = runes /\ files \o << >> = files
    BY ConcatEmptySeq
  <2>3. QED BY <2>1, <2>2, Zenon
<1>3. Reads(left, files, runes)
  BY <1>1, ExtractRead, Zenon
<1>4. Read(Runes(left), [text |-> nothing, files |-> files \o none])
         = [text |-> nothing \o runes, files |-> none]
  BY <1>3, Zenon DEF Reads
<1>5. Read(Runes(left), [text |-> << >>, files |-> files])
         = [text |-> runes, files |-> none]
  BY <1>2, <1>4, Zenon
<1>6. Rebuilt(Extract(text)) = Read(Runes(left), [text |-> << >>, files |-> files]).text
  BY <1>1, Zenon DEF Rebuilt, Read
<1>7. QED BY <1>1, <1>5, <1>6

-----------------------------------------------------------------------------
(* The pieces of a segment. *)

\* A piece is a text, or a file.
LEMMA PieceType ==
    ASSUME NEW piece \in GoodPieces
    PROVE  TextOf(piece) \in Seq(Symbols) /\ FileOf(piece) \in Seq(FileSet)
<1>1. CASE piece \in [kind : {"text"}, text : FittingTexts]
  <2>1. piece.kind = "text" /\ piece.text \in Seq(Symbols)
    BY <1>1 DEF FittingTexts
  <2>2. Runes(piece.text) \in Seq(Symbols) /\ << >> \in Seq(FileSet)
    BY <2>1, RunesOfSymbols, EmptySeq
  <2>3. TextOf(piece) = Runes(piece.text) /\ FileOf(piece) = << >>
    BY <2>1 DEF TextOf, FileOf
  <2>4. QED BY <2>2, <2>3
<1>2. CASE piece \in [kind : {"file"}, file : FileSet]
  <2>1. piece.kind = "file" /\ piece.file \in FileSet
    BY <1>2
  <2>2. TextOf(piece) = << >> /\ FileOf(piece) = <<piece.file>>
    BY <2>1 DEF TextOf, FileOf
  <2>3. << >> \in Seq(Symbols) /\ <<piece.file>> \in Seq(FileSet)
    BY <2>1
  <2>4. QED BY <2>2, <2>3
<1>3. QED BY <1>1, <1>2 DEF GoodPieces

\* The texts and the files of pieces.
LEMMA OfPieces ==
    ASSUME NEW a \in Seq(GoodPieces), NEW b \in Seq(GoodPieces)
    PROVE  /\ Texts(a) \in Seq(Symbols) /\ Files(a) \in Seq(FileSet)
           /\ Texts(a \o b) = Texts(a) \o Texts(b)
           /\ Files(a \o b) = Files(a) \o Files(b)
<1> DEFINE textOf == [piece \in GoodPieces |-> TextOf(piece)]
           fileOf == [piece \in GoodPieces |-> FileOf(piece)]
<1>1. textOf \in [GoodPieces -> Seq(Symbols)] /\ fileOf \in [GoodPieces -> Seq(FileSet)]
  BY PieceType
<1>2. ASSUME NEW s \in Seq(GoodPieces)
      PROVE  /\ Map(s, TextOf) = Mapped(s, textOf) /\ Map(s, FileOf) = Mapped(s, fileOf)
             /\ Map(s, TextOf) \in Seq(Seq(Symbols)) /\ Map(s, FileOf) \in Seq(Seq(FileSet))
  <2>1. /\ DOMAIN s = 1 .. Len(s) /\ Len(s) \in Nat
        /\ \A i \in DOMAIN s : s[i] \in GoodPieces
    BY LenProperties, ElementOfSeq
  <2>2. /\ \A i \in DOMAIN s : TextOf(s[i]) = textOf[s[i]] /\ TextOf(s[i]) \in Seq(Symbols)
        /\ \A i \in DOMAIN s : FileOf(s[i]) = fileOf[s[i]] /\ FileOf(s[i]) \in Seq(FileSet)
    BY <2>1, PieceType
  <2> HIDE DEF textOf, fileOf
  <2>3. Map(s, TextOf) = Mapped(s, textOf) /\ Map(s, FileOf) = Mapped(s, fileOf)
    BY <2>2, Zenon DEF Map, Mapped
  <2>4. /\ \A i \in 1 .. Len(s) : textOf[s[i]] \in Seq(Symbols)
        /\ \A i \in 1 .. Len(s) : fileOf[s[i]] \in Seq(FileSet)
    BY <2>1, <2>2
  <2>5. [i \in 1 .. Len(s) |-> textOf[s[i]]] \in Seq(Seq(Symbols))
    BY <2>1, <2>4
  <2>6. [i \in 1 .. Len(s) |-> fileOf[s[i]]] \in Seq(Seq(FileSet))
    BY <2>1, <2>4
  <2>7. QED BY <2>1, <2>3, <2>5, <2>6, Zenon DEF Mapped
<1>3. a \o b \in Seq(GoodPieces)
  BY ConcatProperties
<1> HIDE DEF textOf, fileOf
<1>4. /\ Map(a \o b, TextOf) = Map(a, TextOf) \o Map(b, TextOf)
      /\ Map(a \o b, FileOf) = Map(a, FileOf) \o Map(b, FileOf)
  <2>1. MapsBoth(a, b, textOf)
    BY <1>1, MappedConcat
  <2>2. MapsBoth(a, b, fileOf)
    BY <1>1, MappedConcat
  <2>3. QED BY <1>2, <1>3, <2>1, <2>2, Zenon DEF MapsBoth
<1>5. /\ Map(a, TextOf) \in Seq(Seq(Symbols)) /\ Map(b, TextOf) \in Seq(Seq(Symbols))
      /\ Map(a, FileOf) \in Seq(Seq(FileSet)) /\ Map(b, FileOf) \in Seq(Seq(FileSet))
  BY <1>2
<1>6. Texts(a) \in Seq(Symbols) /\ Files(a) \in Seq(FileSet)
  BY <1>5, FlattenType DEF Texts, Files
<1>7. Texts(a \o b) = Texts(a) \o Texts(b)
  <2>1. FlattenSeq(Map(a, TextOf) \o Map(b, TextOf))
           = FlattenSeq(Map(a, TextOf)) \o FlattenSeq(Map(b, TextOf))
    BY <1>5, FlattenConcat
  <2>2. QED BY <1>4, <2>1, Zenon DEF Texts
<1>8. Files(a \o b) = Files(a) \o Files(b)
  <2>1. FlattenSeq(Map(a, FileOf) \o Map(b, FileOf))
           = FlattenSeq(Map(a, FileOf)) \o FlattenSeq(Map(b, FileOf))
    BY <1>5, FlattenConcat
  <2>2. QED BY <1>4, <2>1, Zenon DEF Files
<1>9. QED BY <1>6, <1>7, <1>8

\* Messages have no files.
LEMMA OfTextPieces ==
    ASSUME NEW texts, NEW A, texts \in Seq(A)
    PROVE  /\ Texts(Map(texts, TextPiece)) = FlattenSeq(Map(texts, Runes))
           /\ Files(Map(texts, TextPiece)) = << >>
<1>1. PICK all : all = Map(texts, TextPiece)
  OBVIOUS
<1>2. PICK n \in Nat : n = Len(texts) /\ DOMAIN texts = 1 .. n
  BY LenProperties
<1>3. all = [i \in 1 .. n |-> TextPiece(texts[i])] /\ DOMAIN all = 1 .. n
  BY <1>1, <1>2 DEF Map
<1>4. \A i \in 1 .. n : TextOf(all[i]) = Runes(texts[i]) /\ FileOf(all[i]) = << >>
  BY <1>3 DEF TextPiece, TextOf, FileOf
<1>5. Map(all, TextOf) = Map(texts, Runes)
  BY <1>2, <1>3, <1>4, Zenon DEF Map
<1>6. Map(all, FileOf) \in Seq({<< >>})
  <2>1. Map(all, FileOf) = [i \in 1 .. n |-> << >>]
    BY <1>3, <1>4, Zenon DEF Map
  <2>2. [i \in 1 .. n |-> << >>] \in [1 .. n -> {<< >>}]
    OBVIOUS
  <2>3. QED BY <2>1, <2>2
<1>7. QED BY <1>1, <1>5, <1>6, FlattenNothing DEF Texts, Files

\* Files have no text.
LEMMA OfFilePieces ==
    ASSUME NEW files \in Seq(FileSet)
    PROVE  /\ Texts(Map(files, FilePiece)) = << >>
           /\ Files(Map(files, FilePiece)) = files
<1>1. PICK all : all = Map(files, FilePiece)
  OBVIOUS
<1>2. PICK n \in Nat : n = Len(files) /\ DOMAIN files = 1 .. n
  BY LenProperties
<1>3. all = [i \in 1 .. n |-> FilePiece(files[i])] /\ DOMAIN all = 1 .. n
  BY <1>1, <1>2 DEF Map
<1>4. \A i \in 1 .. n : TextOf(all[i]) = << >> /\ FileOf(all[i]) = <<files[i]>>
  BY <1>3 DEF FilePiece, TextOf, FileOf
<1>5. Map(all, FileOf) = [i \in DOMAIN files |-> <<files[i]>>]
  BY <1>2, <1>3, <1>4, Zenon DEF Map
<1>6. Map(all, TextOf) \in Seq({<< >>})
  <2>1. Map(all, TextOf) = [i \in 1 .. n |-> << >>]
    BY <1>3, <1>4, Zenon DEF Map
  <2>2. [i \in 1 .. n |-> << >>] \in [1 .. n -> {<< >>}]
    OBVIOUS
  <2>3. QED BY <2>1, <2>2
<1>7. QED BY <1>1, <1>5, <1>6, FlattenNothing, FlattenSingles DEF Texts, Files

\* What is left of a segment, and its files.
LEMMA PartsType ==
    ASSUME NEW text \in Seq(Bytes)
    PROVE  /\ Extract(text).text \in Seq(Symbols)
           /\ LeftOf(text) \in Seq(Symbols) /\ FilesOf(text) \in Seq(FileSet)
<1>1. text \in Seq(Symbols)
  BY RunesOfBytes
<1>2. Extract(text) \in Extracting
  BY <1>1, ExtractType
<1>3. Extract(text).text \in Seq(Symbols) /\ Extract(text).files \in Seq(FileSet)
  BY <1>2 DEF Extracting
<1>4. PICK left \in Seq(Symbols) : left = StripMarkdown(Extract(text).text)
  BY <1>3, StripType
<1>5. QED BY <1>3, <1>4, RunesOfSymbols DEF LeftOf, FilesOf

\* The pieces of a segment show what is left of its text, and have its files.
LEMMA PiecesShow ==
    ASSUME NEW text \in Seq(Bytes)
    PROVE  /\ Visible(Texts(Pieces(text))) = Visible(LeftOf(text))
           /\ Files(Pieces(text)) = FilesOf(text)
<1>1. PICK left \in Seq(Symbols), files \in Seq(FileSet) :
          left = Extract(text).text /\ files = Extract(text).files
  BY PartsType DEF FilesOf
<1>2. PICK formatted \in Seq(Symbols) :
          formatted = FormatForWeChat(left) /\ Shown(formatted) = Shown(StripMarkdown(left))
  BY ShownFormat
<1>3. PICK texts \in Seq(Seq(Symbols)) :
          /\ texts = IF formatted = << >> THEN << >> ELSE SplitText(formatted)
          /\ FlattenSeq(Map(texts, Runes)) \in Seq(Symbols)
          /\ Visible(FlattenSeq(Map(texts, Runes))) = Shown(formatted)
  <2>1. CASE formatted = << >>
    <3>1. PICK none \in Seq(Seq(Symbols)) : none = << >>
      <4>1. << >> \in Seq(Seq(Symbols))
        BY EmptySeq
      <4>2. QED BY <4>1, Zenon
    <3>2. Map(none, Runes) = << >>
      BY <3>1 DEF Map
    <3>3. FlattenSeq(Map(none, Runes)) = << >>
      BY <3>2, FlattenEmpty
    <3>4. Shown(formatted) = << >> /\ Visible(<< >>) = << >> /\ << >> \in Seq(Symbols)
      BY <2>1, ShownEmpty, VisibleEmpty, EmptySeq
    <3>5. QED BY <2>1, <3>1, <3>3, <3>4, Zenon
  <2>2. CASE formatted # << >>
    <3>1. PICK made \in Seq(Seq(Symbols)) :
              /\ made = SplitText(formatted)
              /\ Map(made, Runes) \in Seq(Seq(Characters))
              /\ Visible(FlattenSeq(Map(made, Runes))) = Shown(formatted)
      BY ShownSplit
    <3>2. FlattenSeq(Map(made, Runes)) \in Seq(Symbols)
      BY <3>1, FlattenType, SymbolsDecoded, SeqMonotonic
    <3>3. QED BY <2>2, <3>1, <3>2, Zenon
  <2>3. QED BY <2>1, <2>2
<1>4. PICK messages, media :
          messages = Map(texts, TextPiece) /\ media = Map(files, FilePiece)
  OBVIOUS
<1>5. Pieces(text) = messages \o media
  BY <1>1, <1>2, <1>3, <1>4 DEF Pieces
<1>6. messages \in Seq(GoodPieces) /\ media \in Seq(GoodPieces)
  <2>1. Map(IF FormatForWeChat(Extract(text).text) = << >> THEN << >>
            ELSE SplitText(FormatForWeChat(Extract(text).text)), TextPiece) \in Seq(GoodPieces)
        /\ Map(Extract(text).files, FilePiece) \in Seq(GoodPieces)
    BY PartsAreGood
  <2>2. QED BY <1>1, <1>2, <1>3, <1>4, <2>1, Zenon
<1>7. /\ Texts(messages) = FlattenSeq(Map(texts, Runes)) /\ Files(messages) = << >>
      /\ Texts(media) = << >> /\ Files(media) = files
  BY <1>4, OfTextPieces, OfFilePieces
<1>8. /\ Texts(messages \o media) = Texts(messages) \o Texts(media)
      /\ Files(messages \o media) = Files(messages) \o Files(media)
  BY <1>6, OfPieces
<1>9. Texts(messages \o media) = FlattenSeq(Map(texts, Runes))
  BY <1>3, <1>7, <1>8, ConcatEmptySeq
<1>10. Files(messages \o media) = files
  BY <1>7, <1>8, ConcatEmptySeq
<1>11. Visible(LeftOf(text)) = Shown(formatted)
  BY <1>1, <1>2, Zenon DEF LeftOf, Shown
<1>12. FilesOf(text) = files
  BY <1>1 DEF FilesOf
<1>13. QED BY <1>3, <1>5, <1>9, <1>10, <1>11, <1>12, Zenon

-----------------------------------------------------------------------------
(* The reply is rebuilt. *)

\* What is made of segments, and of one more behind them.
GrowsBy(segments, text, op) ==
    /\ Mapped(Append(segments, text), op) = Append(Mapped(segments, op), op[text])
    /\ FlattenSeq(Mapped(Append(segments, text), op))
          = FlattenSeq(Mapped(segments, op)) \o op[text]

LEMMA MappedGrows ==
    ASSUME NEW A, NEW B, NEW segments \in Seq(A), NEW text \in A, NEW op \in [A -> Seq(B)]
    PROVE  FlattenSeq(Mapped(segments, op)) \in Seq(B) /\ GrowsBy(segments, text, op)
<1>1. PICK n \in Nat, longer \in Seq(A) :
          n = Len(segments) /\ longer = Append(segments, text)
  BY LenProperties, AppendProperties
<1>2. /\ DOMAIN segments = 1 .. n /\ DOMAIN longer = 1 .. n + 1
      /\ longer[n + 1] = text /\ \A i \in 1 .. n : longer[i] = segments[i]
  BY <1>1, LenProperties, AppendProperties
<1>3. \A i \in 1 .. n : op[segments[i]] \in Seq(B)
  BY <1>1, ElementOfSeq
<1>4. PICK parts \in Seq(Seq(B)) :
          /\ parts = Mapped(segments, op) /\ Len(parts) = n
          /\ \A i \in 1 .. n : parts[i] = op[segments[i]]
  <2>1. PICK parts : parts = [i \in 1 .. n |-> op[segments[i]]]
    OBVIOUS
  <2>2. parts \in [1 .. n -> Seq(B)] /\ \A i \in 1 .. n : parts[i] = op[segments[i]]
    BY <1>3, <2>1
  <2>3. parts \in Seq(Seq(B)) /\ Len(parts) = n
    BY <2>2
  <2>4. parts = Mapped(segments, op)
    BY <1>2, <2>1, Zenon DEF Mapped
  <2>5. QED BY <2>2, <2>3, <2>4
<1>5. PICK final \in Seq(B) : final = op[text]
  OBVIOUS
<1>6. Mapped(longer, op) = Append(parts, final)
  <2>1. PICK all : all = Mapped(longer, op)
    OBVIOUS
  <2>2. all = [i \in 1 .. n + 1 |-> op[longer[i]]]
    BY <1>2, <2>1, Zenon DEF Mapped
  <2>3. PICK both \in Seq(Seq(B)) : both = Append(parts, final)
    BY AppendProperties
  <2>4. /\ Len(both) = n + 1 /\ both[n + 1] = final
        /\ \A i \in 1 .. n : both[i] = parts[i]
    BY <1>4, <2>3, AppendProperties
  <2>5. ASSUME NEW i \in 1 .. n + 1 PROVE both[i] = op[longer[i]]
    <3>1. CASE i = n + 1
      BY <1>2, <1>5, <2>4, <3>1
    <3>2. CASE i # n + 1
      <4>1. i \in 1 .. n
        BY <3>2
      <4>2. QED BY <1>2, <1>4, <2>4, <4>1
    <3>3. QED BY <3>1, <3>2
  <2>6. both = [i \in 1 .. n + 1 |-> both[i]]
    BY <2>4
  <2>7. both = [i \in 1 .. n + 1 |-> op[longer[i]]]
    BY <2>5, <2>6, Zenon
  <2>8. QED BY <2>1, <2>2, <2>3, <2>7, Zenon
<1>7. FlattenSeq(Append(parts, final)) = FlattenSeq(parts) \o final
  BY FlattenLast
<1>8. FlattenSeq(parts) \in Seq(B)
  BY FlattenType
<1>9. QED BY <1>1, <1>4, <1>5, <1>6, <1>7, <1>8, Zenon DEF GrowsBy

\* What is left of the segments, and of one more, and their files.
LEMMA OfSegments ==
    ASSUME NEW segments \in Seq(Seq(Bytes)), NEW text \in Seq(Bytes)
    PROVE  /\ FlattenSeq(Map(segments, LeftOf)) \in Seq(Symbols)
           /\ FlattenSeq(Map(Append(segments, text), LeftOf))
                 = FlattenSeq(Map(segments, LeftOf)) \o LeftOf(text)
           /\ FlattenSeq(Map(segments, FilesOf)) \in Seq(FileSet)
           /\ FlattenSeq(Map(Append(segments, text), FilesOf))
                 = FlattenSeq(Map(segments, FilesOf)) \o FilesOf(text)
<1>1. PICK leftOf \in [Seq(Bytes) -> Seq(Symbols)],
           filesOf \in [Seq(Bytes) -> Seq(FileSet)] :
          \A t \in Seq(Bytes) : leftOf[t] = LeftOf(t) /\ filesOf[t] = FilesOf(t)
  <2>1. [t \in Seq(Bytes) |-> LeftOf(t)] \in [Seq(Bytes) -> Seq(Symbols)]
    BY PartsType
  <2>2. [t \in Seq(Bytes) |-> FilesOf(t)] \in [Seq(Bytes) -> Seq(FileSet)]
    BY PartsType
  <2>3. QED BY <2>1, <2>2
<1>2. ASSUME NEW s \in Seq(Seq(Bytes))
      PROVE  Map(s, LeftOf) = Mapped(s, leftOf) /\ Map(s, FilesOf) = Mapped(s, filesOf)
  <2>1. \A i \in DOMAIN s : s[i] \in Seq(Bytes)
    BY LenProperties, ElementOfSeq
  <2>2. \A i \in DOMAIN s : leftOf[s[i]] = LeftOf(s[i]) /\ filesOf[s[i]] = FilesOf(s[i])
    BY <1>1, <2>1
  <2>3. QED BY <2>2, Zenon DEF Map, Mapped
<1>3. PICK longer \in Seq(Seq(Bytes)) : longer = Append(segments, text)
  BY AppendProperties
<1>4. FlattenSeq(Mapped(segments, leftOf)) \in Seq(Symbols) /\ GrowsBy(segments, text, leftOf)
  BY MappedGrows
<1>5. FlattenSeq(Mapped(segments, filesOf)) \in Seq(FileSet)
      /\ GrowsBy(segments, text, filesOf)
  BY MappedGrows
<1>6. /\ Map(segments, LeftOf) = Mapped(segments, leftOf)
      /\ Map(longer, LeftOf) = Mapped(longer, leftOf)
      /\ Map(segments, FilesOf) = Mapped(segments, filesOf)
      /\ Map(longer, FilesOf) = Mapped(longer, filesOf)
  BY <1>2
<1>7. leftOf[text] = LeftOf(text) /\ filesOf[text] = FilesOf(text)
  BY <1>1
<1>8. QED BY <1>3, <1>4, <1>5, <1>6, <1>7, Zenon DEF GrowsBy

\* These pieces show what is left of these segments, and have their files.
Tells(pieces, segments) ==
    /\ Visible(Texts(pieces)) = Visible(FlattenSeq(Map(segments, LeftOf)))
    /\ Files(pieces) = FlattenSeq(Map(segments, FilesOf))

\* What is told stays told when the pieces of the next segment follow.
LEMMA TellsFurther ==
    ASSUME NEW pieces \in Seq(GoodPieces), NEW segments \in Seq(Seq(Bytes)),
           NEW text \in Seq(Bytes), Tells(pieces, segments)
    PROVE  Tells(pieces \o Pieces(text), Append(segments, text))
<1>1. PICK next \in Seq(GoodPieces) : next = Pieces(text)
  BY PiecesAreGood
<1>2. PICK t \in Seq(Symbols), u \in Seq(Symbols) : t = Texts(pieces) /\ u = Texts(next)
  BY OfPieces
<1>3. Texts(pieces \o next) = t \o u /\ Files(pieces \o next) = Files(pieces) \o Files(next)
  BY <1>2, OfPieces
<1>4. PICK told \in Seq(Symbols), left \in Seq(Symbols) :
          /\ told = FlattenSeq(Map(segments, LeftOf)) /\ left = LeftOf(text)
          /\ FlattenSeq(Map(Append(segments, text), LeftOf)) = told \o left
  BY OfSegments, PartsType
<1>5. FlattenSeq(Map(Append(segments, text), FilesOf))
         = FlattenSeq(Map(segments, FilesOf)) \o FilesOf(text)
  BY OfSegments
<1>6. Visible(t) = Visible(told) /\ Files(pieces) = FlattenSeq(Map(segments, FilesOf))
  BY <1>2, <1>4 DEF Tells
<1>7. Visible(u) = Visible(left) /\ Files(next) = FilesOf(text)
  BY <1>1, <1>2, <1>4, PiecesShow
<1>8. Visible(t \o u) = Visible(t) \o Visible(u)
  BY VisibleConcat
<1>9. Visible(told \o left) = Visible(told) \o Visible(left)
  BY VisibleConcat
<1>10. Visible(Texts(pieces \o next)) = Visible(FlattenSeq(Map(Append(segments, text), LeftOf)))
  BY <1>3, <1>4, <1>6, <1>7, <1>8, <1>9, Zenon
<1>11. Files(pieces \o next) = FlattenSeq(Map(Append(segments, text), FilesOf))
  BY <1>3, <1>5, <1>6, <1>7, Zenon
<1>12. QED BY <1>1, <1>10, <1>11, Zenon DEF Tells

\* Nothing is told by no pieces.
LEMMA NothingTold == Tells(<< >>, << >>)
<1>1. /\ Map(<< >>, TextOf) = << >> /\ Map(<< >>, FileOf) = << >>
      /\ Map(<< >>, LeftOf) = << >> /\ Map(<< >>, FilesOf) = << >>
  BY DEF Map
<1>2. QED BY <1>1, FlattenEmpty, Zenon DEF Tells, Texts, Files

\* The pieces that were sent, whether they arrived or not.
PiecesOf(entries) == Map(entries, LAMBDA c : c.piece)

\* What was sent of a reply.
Entries == Seq([piece : GoodPieces, arrived : BOOLEAN])

LEMMA PiecesOfType ==
    ASSUME NEW entries \in Entries
    PROVE  /\ PiecesOf(entries) \in Seq(GoodPieces)
           /\ Len(PiecesOf(entries)) = Len(entries)
           /\ \A i \in 1 .. Len(entries) : PiecesOf(entries)[i] = entries[i].piece
<1>1. PICK n \in Nat : n = Len(entries) /\ DOMAIN entries = 1 .. n
  BY LenProperties DEF Entries
<1>2. \A i \in 1 .. n : entries[i].piece \in GoodPieces
  <2>1. \A i \in 1 .. n : entries[i] \in [piece : GoodPieces, arrived : BOOLEAN]
    BY <1>1, ElementOfSeq DEF Entries
  <2>2. QED BY <2>1
<1>3. PICK pieces : pieces = [i \in 1 .. n |-> entries[i].piece]
  OBVIOUS
<1>4. PiecesOf(entries) = pieces
  BY <1>1, <1>3 DEF PiecesOf, Map
<1>5. pieces \in [1 .. n -> GoodPieces] /\ \A i \in 1 .. n : pieces[i] = entries[i].piece
  BY <1>2, <1>3
<1>6. pieces \in Seq(GoodPieces) /\ Len(pieces) = n
  BY <1>5
<1>7. QED BY <1>1, <1>4, <1>5, <1>6

\* One entry more is one piece more.
LEMMA PiecesOfAppend ==
    ASSUME NEW entries \in Entries, NEW more \in [piece : GoodPieces, arrived : BOOLEAN]
    PROVE  PiecesOf(Append(entries, more)) = Append(PiecesOf(entries), more.piece)
<1>1. PICK n \in Nat, longer \in Entries, first \in GoodPieces :
          n = Len(entries) /\ longer = Append(entries, more) /\ first = more.piece
  BY LenProperties, AppendProperties DEF Entries
<1>2. Len(longer) = n + 1 /\ longer[n + 1] = more /\ \A i \in 1 .. n : longer[i] = entries[i]
  BY <1>1, AppendProperties DEF Entries
<1>3. PICK before \in Seq(GoodPieces), after \in Seq(GoodPieces) :
          /\ before = PiecesOf(entries) /\ after = PiecesOf(longer)
          /\ Len(before) = n /\ \A i \in 1 .. n : before[i] = entries[i].piece
          /\ Len(after) = n + 1 /\ \A i \in 1 .. n + 1 : after[i] = longer[i].piece
  <2>1. /\ PiecesOf(entries) \in Seq(GoodPieces)
        /\ Len(PiecesOf(entries)) = Len(entries)
        /\ \A i \in 1 .. Len(entries) : PiecesOf(entries)[i] = entries[i].piece
    BY PiecesOfType
  <2>2. /\ PiecesOf(longer) \in Seq(GoodPieces)
        /\ Len(PiecesOf(longer)) = Len(longer)
        /\ \A i \in 1 .. Len(longer) : PiecesOf(longer)[i] = longer[i].piece
    BY PiecesOfType
  <2>3. /\ Len(PiecesOf(entries)) = n
        /\ \A i \in 1 .. n : PiecesOf(entries)[i] = entries[i].piece
    BY <1>1, <2>1, Zenon
  <2>4. /\ Len(PiecesOf(longer)) = n + 1
        /\ \A i \in 1 .. n + 1 : PiecesOf(longer)[i] = longer[i].piece
    BY <1>2, <2>2, Zenon
  <2>5. QED BY <2>1, <2>2, <2>3, <2>4, Zenon
<1>4. PICK both \in Seq(GoodPieces) :
          /\ both = Append(before, first) /\ Len(both) = n + 1 /\ both[n + 1] = first
          /\ \A i \in 1 .. n : both[i] = before[i]
  <2>1. PICK joined \in Seq(GoodPieces) : joined = Append(before, first)
    BY AppendProperties
  <2>2. Len(joined) = n + 1 /\ joined[n + 1] = first /\ \A i \in 1 .. n : joined[i] = before[i]
    BY <1>1, <1>3, <2>1, AppendProperties
  <2>3. QED BY <2>1, <2>2, Zenon
<1>5. ASSUME NEW i \in 1 .. n + 1 PROVE after[i] = both[i]
  <2>1. CASE i = n + 1
    BY <1>1, <1>2, <1>3, <1>4, <2>1
  <2>2. CASE i # n + 1
    <3>1. i \in 1 .. n
      BY <2>2
    <3>2. QED BY <1>2, <1>3, <1>4, <3>1
  <2>3. QED BY <2>1, <2>2
<1>6. after = both
  BY <1>3, <1>4, <1>5, SeqEqual
<1>7. QED BY <1>1, <1>3, <1>4, <1>6, Zenon

\* All pieces are those that were sent and those that wait.
LEMMA PiecesOfReply ==
    DeliveryInv => /\ chat \in Entries /\ PiecesOf(chat) \in Seq(GoodPieces)
                   /\ AllPieces \in Seq(GoodPieces) /\ AllPieces = PiecesOf(chat) \o pending
<1> SUFFICES ASSUME DeliveryInv
             PROVE  /\ chat \in Entries /\ PiecesOf(chat) \in Seq(GoodPieces)
                    /\ AllPieces \in Seq(GoodPieces) /\ AllPieces = PiecesOf(chat) \o pending
  OBVIOUS
<1>1. chat \in Entries
  BY DEF DeliveryInv, Entries
<1>2. PiecesOf(chat) \in Seq(GoodPieces)
  BY <1>1, PiecesOfType
<1>3. AllPieces = PiecesOf(chat) \o pending
  BY Zenon DEF AllPieces, PiecesOf
<1>4. QED BY <1>1, <1>2, <1>3, ConcatProperties DEF DeliveryInv

LEMMA AllPiecesNext == AllPieces' = PiecesOf(chat') \o pending'
BY DEF AllPieces, PiecesOf, Map

\* The pieces of the reply tell what is left of all that the buffer sent.
Told == Tells(AllPieces, sent)

\* A segment is told by the pieces that sendReply makes of it.
LEMMA GivesTold ==
    ASSUME TypeOK, TypeOK', DeliveryInv, Told,
           NEW step, GivesSegment(step),
           sent' = sent \/ \E segment : sent' = Append(sent, segment)
    PROVE  Told'
<1>1. PICK before \in Seq(GoodPieces) :
          before = PiecesOf(chat) /\ AllPieces = before \o pending
  BY PiecesOfReply
<1>2. pending = << >> /\ chat' = chat
  BY DEF GivesSegment
<1>3. AllPieces = before
  BY <1>1, <1>2, ConcatEmptySeq
<1>4. AllPieces' = before \o pending'
  BY <1>1, <1>2, AllPiecesNext, Zenon
<1>5. PICK segments \in Seq(Seq(Bytes)) : segments = sent
  BY SentTexts
<1>6. Tells(before, segments)
  BY <1>3, <1>5 DEF Told
<1>7. CASE sent' = sent
  <2>1. pending' = << >>
    BY <1>5, <1>7, LenProperties DEF GivesSegment
  <2>2. AllPieces' = before
    BY <1>4, <2>1, ConcatEmptySeq
  <2>3. QED BY <1>5, <1>6, <1>7, <2>2 DEF Told
<1>8. CASE \E segment : sent' = Append(sent, segment)
  <2>1. PICK segment : sent' = Append(segments, segment)
    BY <1>5, <1>8
  <2>2. PICK longer \in Seq(Seq(Bytes)) : longer = sent'
    BY DEF TypeOK
  <2>3. PICK n \in Nat : n = Len(segments)
    BY LenProperties
  <2>4. Len(longer) = n + 1 /\ longer[n + 1] = segment
    BY <2>1, <2>2, <2>3
  <2>5. segment \in Seq(Bytes)
    <3>1. n + 1 \in 1 .. Len(longer)
      BY <2>4
    <3>2. QED BY <2>4, <3>1, ElementOfSeq
  <2>6. pending' = Pieces(segment)
    <3>1. Len(sent') > Len(sent)
      BY <1>5, <2>2, <2>3, <2>4
    <3>2. Last(sent') = segment
      BY <2>2, <2>4 DEF Last
    <3>3. QED BY <3>1, <3>2 DEF GivesSegment
  <2>7. Tells(before \o Pieces(segment), Append(segments, segment))
    BY <1>6, <2>5, TellsFurther
  <2>8. QED BY <1>4, <2>1, <2>6, <2>7 DEF Told
<1>9. QED BY <1>7, <1>8

\* The piece that is sent was the first that was still to be sent.
LEMMA SendPieceTold ==
    ASSUME DeliveryInv, Told, SendPiece PROVE Told'
<1>1. PICK rest \in Seq(GoodPieces) : rest = pending
  BY DEF DeliveryInv
<1>2. /\ pending # << >> /\ pending' = Tail(pending) /\ sent' = sent
      /\ \E arrived \in BOOLEAN :
            chat' = Append(chat, [piece |-> Head(pending), arrived |-> arrived])
  BY DEF SendPiece, RestAfter, vars
<1>3. PICK first \in GoodPieces, left \in Seq(GoodPieces), one \in Seq(GoodPieces) :
          /\ first = Head(rest) /\ left = Tail(rest)
          /\ one = <<first>> /\ rest = one \o left
  <2>1. Head(rest) \in GoodPieces /\ Tail(rest) \in Seq(GoodPieces)
    BY <1>1, <1>2, HeadTailProperties
  <2>2. <<Head(rest)>> \in Seq(GoodPieces)
    BY <2>1
  <2>3. rest = <<Head(rest)>> \o Tail(rest)
    BY <1>1, <1>2
  <2>4. QED BY <2>1, <2>2, <2>3, Zenon
<1>4. PICK before \in Seq(GoodPieces) :
          before = PiecesOf(chat) /\ AllPieces = before \o rest
  BY <1>1, PiecesOfReply
<1>5. AllPieces' = (before \o one) \o left
  <2>1. PICK more \in [piece : {first}, arrived : BOOLEAN] : chat' = Append(chat, more)
    <3>1. PICK arrived \in BOOLEAN :
              chat' = Append(chat, [piece |-> first, arrived |-> arrived])
      BY <1>1, <1>2, <1>3
    <3>2. [piece |-> first, arrived |-> arrived] \in [piece : {first}, arrived : BOOLEAN]
      OBVIOUS
    <3>3. QED BY <3>1, <3>2
  <2>2. more \in [piece : GoodPieces, arrived : BOOLEAN] /\ more.piece = first
    BY <2>1
  <2>3. PiecesOf(Append(chat, more)) = Append(before, first)
    BY <1>4, <2>2, PiecesOfAppend, PiecesOfReply
  <2>4. Append(before, first) = before \o <<first>>
    BY AppendIsConcat
  <2>5. QED BY <1>1, <1>2, <1>3, <2>1, <2>3, <2>4, AllPiecesNext, Zenon
<1>6. Group(before, one, left)
  BY Grouped
<1>7. AllPieces' = AllPieces
  BY <1>3, <1>4, <1>5, <1>6, Zenon DEF Group
<1>8. QED BY <1>2, <1>7 DEF Told

\* Then the reply is rebuilt.
LEMMA ToldRebuilds ==
    ASSUME TypeOK, Told PROVE ReplyRebuilt
<1>1. \A i \in DOMAIN sent : Rebuilt(Extract(sent[i])) = Runes(sent[i])
  <2> SUFFICES ASSUME NEW i \in DOMAIN sent
               PROVE  Rebuilt(Extract(sent[i])) = Runes(sent[i])
    OBVIOUS
  <2>1. sent[i] \in Seq(Bytes)
    BY SentTexts, LenProperties, ElementOfSeq
  <2>2. QED BY <2>1, ExtractRebuilds
<1>2. QED BY <1>1 DEF Told, Tells, ReplyRebuilt

\* Whatever the agent writes, in whatever chunks, and whatever fails to arrive:
\* the extracted files stand for the blocks they were taken from, and all that
\* the stripping leaves of the text is in the messages, white space apart, and
\* all files are sent, in order and once.
THEOREM ReplyIsRebuilt == DeliverySpec => []ReplyRebuilt
<1>1. DeliveryInit => DeliveryInv /\ Told
  <2> SUFFICES ASSUME DeliveryInit PROVE DeliveryInv /\ Told
    OBVIOUS
  <2>1. pending = << >> /\ chat = << >> /\ sent = << >>
    BY DEF DeliveryInit, Init
  <2>2. DeliveryInv
    BY <2>1 DEF DeliveryInv
  <2>3. AllPieces = << >>
    BY <2>1 DEF AllPieces, Map
  <2>4. QED BY <2>1, <2>2, <2>3, NothingTold DEF Told
<1>2. TypeOK /\ TypeOK' /\ DeliveryInv /\ Told /\ [DeliveryNext]_<<vars, deliveryVars>>
         => DeliveryInv' /\ Told'
  <2> SUFFICES ASSUME TypeOK, TypeOK', DeliveryInv, Told,
                      [DeliveryNext]_<<vars, deliveryVars>>
               PROVE  DeliveryInv' /\ Told'
    OBVIOUS
  <2>1. CASE GivesSegment(SendSegment)
    <3>1. sent' = sent \/ \E segment : sent' = Append(sent, segment)
      BY <2>1 DEF GivesSegment, SendSegment
    <3>2. QED BY <2>1, <3>1, GivesInv, GivesTold
  <2>2. CASE GivesSegment(Flush)
    <3>1. sent' = sent \/ \E segment : sent' = Append(sent, segment)
      BY <2>2 DEF GivesSegment, Flush
    <3>2. QED BY <2>2, <3>1, GivesInv, GivesTold
  <2>3. CASE SendPiece
    BY <2>3, SendPieceInv, SendPieceTold
  <2>4. CASE UNCHANGED deliveryVars /\ sent' = sent
    <3>1. pending' = pending /\ chat' = chat
      BY <2>4 DEF deliveryVars
    <3>2. AllPieces' = AllPieces
      BY <3>1, AllPiecesNext, PiecesOfReply, Zenon
    <3>3. QED BY <2>4, <3>1, <3>2 DEF DeliveryInv, Told
  <2>5. CASE NewBuffer /\ pending = << >> /\ chat' = << >> /\ UNCHANGED pending
    <3>1. pending' = << >> /\ chat' = << >> /\ sent' = << >>
      BY <2>5 DEF NewBuffer
    <3>2. DeliveryInv'
      BY <3>1 DEF DeliveryInv
    <3>3. AllPieces' = << >>
      <4>1. PiecesOf(<< >>) = << >> /\ << >> \o << >> = << >>
        BY DEF PiecesOf, Map
      <4>2. QED BY <3>1, <4>1, AllPiecesNext, Zenon
    <3>4. QED BY <3>1, <3>2, <3>3, NothingTold DEF Told
  <2>6. CASE UNCHANGED deliveryVars /\ (WriteReturns \/ \E chunk \in Chunks : Write(chunk))
    BY <2>4, <2>6 DEF WriteReturns, Write
  <2>7. CASE UNCHANGED <<vars, deliveryVars>>
    BY <2>4, <2>7 DEF vars
  <2>8. QED BY <2>1, <2>2, <2>3, <2>5, <2>6, <2>7 DEF DeliveryNext
<1>3. TypeOK /\ Told => ReplyRebuilt
  BY ToldRebuilds
<1>4. QED BY <1>1, <1>2, <1>3, DeliveryUsesBuffer, TypeCorrect, PTL DEF DeliverySpec
=============================================================================

----------------------------- MODULE SseProofs -----------------------------
(***************************************************************************)
(* The SSE reader, for responses of any length over any alphabet, cut in    *)
(* any way.  Two readers are compared: the one of the specification, which  *)
(* reads the whole text, and the same one set on the buffer after the       *)
(* frames already yielded.  But for a CR at the very end, which the buffer  *)
(* holds back, they always stand at the same point.                         *)
(***************************************************************************)
EXTENDS SseEvents, SequenceTheorems, TLAPS

\* The characters of decoded text.
Symbols == (Alphabet \ {"lead", "cont"}) \cup {"pair", "bad", LF}
Texts == Seq(Symbols)

NoCR(text) == \A i \in DOMAIN text : text[i] # CR
EndsInCR(text) == text # <<>> /\ Last(text) = CR

-----------------------------------------------------------------------------
(* Sequences.                                                              *)

\* A sequence with one more element.
LEMMA AppendFacts ==
    ASSUME NEW S, NEW s \in Seq(S), NEW c \in S
    PROVE  /\ Append(s, c) \in Seq(S) /\ Append(s, c) # <<>>
           /\ Last(Append(s, c)) = c /\ Front(Append(s, c)) = s
           /\ Len(Append(s, c)) = Len(s) + 1 /\ Append(s, c)[Len(s) + 1] = c
           /\ DOMAIN Append(s, c) = DOMAIN s \cup {Len(s) + 1}
           /\ \A i \in DOMAIN s : Append(s, c)[i] = s[i]
  BY DEF Last, Front

\* A text is its last character after the others.
LEMMA SplitLast ==
    ASSUME NEW S, NEW s \in Seq(S), s # <<>>
    PROVE  Front(s) \in Seq(S) /\ Last(s) \in S /\ s = Append(Front(s), Last(s))
  BY DEF Last, Front

\* What is left of a sequence from a position on.
LEMMA RestFacts ==
    ASSUME NEW S, NEW s \in Seq(S), NEW k \in 0..Len(s)
    PROVE  LET rest == SubSeq(s, k + 1, Len(s)) IN
           /\ rest \in Seq(S) /\ Len(rest) = Len(s) - k
           /\ \A i \in 1..(Len(s) - k) : rest[i] = s[k + i]
  <1> DEFINE n == Len(s)
             rest == SubSeq(s, k + 1, n)
  <1>1. n \in Nat /\ k + 1 \in 1..(n + 1) /\ n - (k + 1) + 1 = n - k
    OBVIOUS
  <1>2. rest \in Seq(S) /\ Len(rest) = n - k
    BY SubSeqProperties
  <1>3. ASSUME NEW i \in 1..(n - k) PROVE rest[i] = s[k + i]
    <2>1. (k + 1) + i - 1 = k + i /\ i \in 1..(n - (k + 1) + 1)
      BY <1>1
    <2> QED
      BY <2>1
  <1> QED
    BY <1>2, <1>3

\* Appending to the second part appends to the whole.
LEMMA ConcatAppend ==
    ASSUME NEW S, NEW s \in Seq(S), NEW t \in Seq(S), NEW c \in S
    PROVE  s \o Append(t, c) = Append(s \o t, c)
  OBVIOUS

\* The last character of a text says whether it ends in CR.
LEMMA EndsAppend ==
    ASSUME NEW s \in Texts, NEW c \in Symbols
    PROVE  EndsInCR(Append(s, c)) <=> c = CR
  BY AppendFacts DEF EndsInCR, Texts

\* No CR before and none added.
LEMMA NoCRAppend ==
    ASSUME NEW s \in Texts, NEW c \in Symbols
    PROVE  NoCR(Append(s, c)) <=> NoCR(s) /\ c # CR
  BY AppendFacts DEF NoCR, Texts

\* A text without CR does not end in one.
LEMMA NoCREnds ==
    ASSUME NEW s \in Texts, NoCR(s)
    PROVE  ~EndsInCR(s)
  BY DEF NoCR, EndsInCR, Last, Texts

\* What is held back of a text is a CR or nothing.
LEMMA SettledCases ==
    ASSUME NEW s \in Texts
    PROVE  /\ Settled(s) \in Texts
           /\ s = IF EndsInCR(s) THEN Append(Settled(s), CR) ELSE Settled(s)
           /\ EndsInCR(s) => CR \in Symbols
  BY SplitLast DEF Settled, EndsInCR, Texts

\* Only the last character of a text can be unsettled.
LEMMA SettledAppend ==
    ASSUME NEW s \in Texts, NEW c \in Symbols
    PROVE  Settled(Append(s, c)) = IF c = CR THEN s ELSE Append(s, c)
  BY AppendFacts DEF Settled, Texts

-----------------------------------------------------------------------------
(* The decoder.                                                            *)

Decoded(held, bytes) == Decoder!Fold([text |-> <<>>, lead |-> held], bytes)

\* A byte adds characters to the text.
LEMMA DecodeByteTyped ==
    ASSUME NEW t \in Texts, NEW l \in BOOLEAN, NEW b \in Alphabet
    PROVE  LET d == DecodeByte([text |-> t, lead |-> l], b) IN
           d.text \in Texts /\ d.lead \in BOOLEAN /\ d = [text |-> d.text, lead |-> d.lead]
  <1>1. "bad" \in Symbols /\ "pair" \in Symbols
    BY DEF Symbols
  <1>2. b \notin {"lead", "cont"} => b \in Symbols
    BY DEF Symbols
  <1> DEFINE torn == IF l THEN <<"bad">> ELSE <<>>
  <1>3. t \o torn \in Texts
    BY <1>1 DEF Texts
  <1> HIDE DEF torn
  <1>4. CASE b = "lead"
    BY <1>3, <1>4 DEF DecodeByte, torn
  <1>5. CASE b = "cont"
    <2>1. Append(t, IF l THEN "pair" ELSE "bad") \in Texts
      BY <1>1 DEF Texts
    <2> QED
      BY <1>5, <2>1 DEF DecodeByte
  <1>6. CASE b \notin {"lead", "cont"}
    <2>1. Append(t \o torn, b) \in Texts
      BY <1>2, <1>3, <1>6, AppendFacts DEF Texts
    <2> QED
      BY <1>6, <2>1 DEF DecodeByte, torn
  <1> QED
    BY <1>4, <1>5, <1>6

\* Bytes decode to text.
LEMMA DecodedTyped ==
    ASSUME NEW h \in BOOLEAN, NEW bytes \in Seq(Alphabet)
    PROVE  LET d == Decoded(h, bytes) IN
           d.text \in Texts /\ d.lead \in BOOLEAN /\ d = [text |-> d.text, lead |-> d.lead]
  <1> DEFINE Typed(d) == /\ d.text \in Texts /\ d.lead \in BOOLEAN
                         /\ d = [text |-> d.text, lead |-> d.lead]
             P == {s \in Seq(Alphabet) : Typed(Decoded(h, s))}
  <1>1. <<>> \in P
    <2>1. Decoded(h, <<>>) = [text |-> <<>>, lead |-> h]
      BY Decoder!FoldEmpty DEF Decoded
    <2>2. <<>> \in Texts
      BY DEF Texts
    <2> QED
      BY <2>1, <2>2
  <1>2. ASSUME NEW s \in Seq(Alphabet), NEW b \in Alphabet, s \in P PROVE Append(s, b) \in P
    <2> DEFINE d == Decoded(h, s)
    <2>1. Decoded(h, Append(s, b)) = DecodeByte(d, b)
      BY Decoder!FoldAppend DEF Decoded
    <2>2. Typed(d)
      BY <1>2
    <2> HIDE DEF d
    <2>3. Typed(DecodeByte(d, b))
      <3>1. DecodeByte(d, b) = DecodeByte([text |-> d.text, lead |-> d.lead], b)
        BY <2>2, Zenon
      <3> QED
        BY <2>2, <3>1, DecodeByteTyped
    <2> QED
      BY <2>1, <2>3
  <1> HIDE DEF P
  <1>3. Seq(Alphabet) \subseteq P
    BY <1>1, <1>2, Decoder!SeqSets
  <1> QED
    BY <1>3 DEF P

\* What a byte adds does not depend on the text before it.
LEMMA DecodeByteAfter ==
    ASSUME NEW t \in Texts, NEW u \in Texts, NEW l \in BOOLEAN, NEW b \in Alphabet
    PROVE  LET d == DecodeByte([text |-> u, lead |-> l], b) IN
           DecodeByte([text |-> t \o u, lead |-> l], b) = [text |-> t \o d.text, lead |-> d.lead]
  <1>1. "bad" \in Symbols /\ "pair" \in Symbols /\ (b \notin {"lead", "cont"} => b \in Symbols)
    BY DEF Symbols
  <1>2. \A c \in Symbols : t \o Append(u, c) = Append(t \o u, c)
    BY ConcatAppend DEF Texts
  <1>3. /\ (t \o u) \o <<>> = t \o u /\ u \o <<>> = u
        /\ (t \o u) \o <<"bad">> = t \o (u \o <<"bad">>)
        /\ u \o <<"bad">> \in Texts
    BY <1>1 DEF Texts
  <1>4. \A c \in Symbols : t \o Append(u \o <<"bad">>, c) = Append(t \o (u \o <<"bad">>), c)
    BY <1>3, ConcatAppend DEF Texts
  <1> QED
    BY <1>1, <1>2, <1>3, <1>4 DEF DecodeByte

\* The decoder carries nothing from chunk to chunk but half a character.
DecodesOn(h, s, t) ==
    LET d == Decoded(h, s)
        e == Decoded(d.lead, t) IN
    Decoded(h, s \o t) = [text |-> d.text \o e.text, lead |-> e.lead]

\* If cutting somewhere makes no difference before a byte, it makes none after it.
LEMMA DecodedConcatStep ==
    ASSUME NEW h \in BOOLEAN, NEW s \in Seq(Alphabet), NEW u \in Seq(Alphabet),
           NEW b \in Alphabet, DecodesOn(h, s, u)
    PROVE  DecodesOn(h, s, Append(u, b))
  <1> DEFINE d == Decoded(h, s)
             e == Decoded(d.lead, u)
             next == DecodeByte(e, b)
             v == s \o u
  <1>1. d.text \in Texts /\ d.lead \in BOOLEAN
    BY DecodedTyped
  <1>2. e.text \in Texts /\ e.lead \in BOOLEAN /\ e = [text |-> e.text, lead |-> e.lead]
    BY <1>1, DecodedTyped
  <1>3. s \o Append(u, b) = Append(v, b) /\ v \in Seq(Alphabet)
    BY ConcatAppend
  <1>4. Decoded(h, v) = [text |-> d.text \o e.text, lead |-> e.lead]
    BY DEF DecodesOn
  <1>5. Decoded(d.lead, Append(u, b)) = next
    BY Decoder!FoldAppend DEF Decoded
  <1> HIDE DEF d, v
  <1>6. Decoded(h, Append(v, b)) = DecodeByte(Decoded(h, v), b)
    BY <1>3, Decoder!FoldAppend DEF Decoded
  <1> HIDE DEF e
  <1>7. DecodeByte([text |-> d.text \o e.text, lead |-> e.lead], b)
          = [text |-> d.text \o next.text, lead |-> next.lead]
    <2> DEFINE byte == DecodeByte([text |-> e.text, lead |-> e.lead], b)
    <2>1. DecodeByte([text |-> d.text \o e.text, lead |-> e.lead], b)
            = [text |-> d.text \o byte.text, lead |-> byte.lead]
      BY <1>1, <1>2, DecodeByteAfter
    <2>2. byte = next
      BY <1>2, Zenon
    <2> QED
      BY <2>1, <2>2, Zenon
  <1> HIDE DEF next
  <1>8. Decoded(h, s \o Append(u, b)) = [text |-> d.text \o next.text, lead |-> next.lead]
    BY <1>3, <1>4, <1>6, <1>7, Zenon
  <1> QED
    BY <1>5, <1>8, Zenon DEF DecodesOn, d

\* Decoding the second part from the state the first left it in decodes the whole.
LEMMA DecodedConcat ==
    ASSUME NEW h \in BOOLEAN, NEW s \in Seq(Alphabet), NEW t \in Seq(Alphabet)
    PROVE  DecodesOn(h, s, t)
  <1> DEFINE P == {u \in Seq(Alphabet) : DecodesOn(h, s, u)}
  <1>1. <<>> \in P
    <2> DEFINE d == Decoded(h, s)
    <2>1. d.text \in Texts /\ d = [text |-> d.text, lead |-> d.lead]
      BY DecodedTyped
    <2>2. Decoded(d.lead, <<>>) = [text |-> <<>>, lead |-> d.lead]
      BY Decoder!FoldEmpty DEF Decoded
    <2>3. s \o <<>> = s /\ d.text \o <<>> = d.text
      BY <2>1 DEF Texts
    <2> HIDE DEF d
    <2>4. Decoded(h, s \o <<>>)
            = [text |-> d.text \o Decoded(d.lead, <<>>).text, lead |-> Decoded(d.lead, <<>>).lead]
      <3> DEFINE e == Decoded(d.lead, <<>>)
      <3>1. e.text = <<>> /\ e.lead = d.lead
        BY <2>2
      <3>2. Decoded(h, s \o <<>>) = d
        BY <2>3, Zenon DEF d
      <3> HIDE DEF e
      <3> QED
        BY <2>1, <2>3, <3>1, <3>2, Zenon DEF e
    <2>5. DecodesOn(h, s, <<>>)
      BY <2>4, Zenon DEF DecodesOn, d
    <2> QED
      BY <2>5
  <1>2. ASSUME NEW u \in Seq(Alphabet), NEW b \in Alphabet, u \in P PROVE Append(u, b) \in P
    <2>1. DecodesOn(h, s, Append(u, b)) /\ Append(u, b) \in Seq(Alphabet)
      BY <1>2, DecodedConcatStep, AppendFacts
    <2> QED
      BY <2>1
  <1> HIDE DEF P
  <1>3. Seq(Alphabet) \subseteq P
    BY <1>1, <1>2, Decoder!SeqSets
  <1> QED
    BY <1>3 DEF P

-----------------------------------------------------------------------------
(* Reading.                                                                *)

Read(r, text) == Reader!Fold(r, text)

IsReading(r) ==
    /\ r = [yielded |-> r.yielded, parts |-> r.parts, line |-> r.line, cr |-> r.cr]
    /\ r.line \in Texts /\ r.cr \in BOOLEAN

\* The same but for the memory of a CR.
SamePoint(r, q) == r.yielded = q.yielded /\ r.parts = q.parts /\ r.line = q.line

\* A response begins at the start of an event.
LEMMA FreshReading ==
    ASSUME NEW f
    PROVE  IsReading(Fresh(f)) /\ Fresh(f).cr = FALSE
  BY DEF IsReading, Fresh, Texts

\* A character leaves the reader within a line of text.
LEMMA ReadCharTyped ==
    ASSUME NEW r, IsReading(r), NEW c \in Symbols
    PROVE  IsReading(ReadChar(r, c)) /\ (ReadChar(r, c).cr <=> c = CR)
  <1>1. <<>> \in Texts /\ Append(r.line, c) \in Texts
    BY DEF IsReading, Texts
  <1>2. CASE c = LF /\ r.cr
    BY <1>2 DEF ReadChar, SecondHalf, IsReading, CR, LF
  <1>3. CASE ~(c = LF /\ r.cr) /\ c \in {CR, LF}
    BY <1>1, <1>3 DEF ReadChar, LineEnded, IsReading
  <1>4. CASE c \notin {CR, LF}
    BY <1>1, <1>4 DEF ReadChar, LineGrows, IsReading
  <1> QED
    BY <1>2, <1>3, <1>4

\* Nothing read.
LEMMA ReadEmpty ==
    ASSUME NEW r
    PROVE  Read(r, <<>>) = r
  BY Reader!FoldEmpty DEF Read

\* One more character read.
LEMMA ReadAppend ==
    ASSUME NEW r, NEW text \in Texts, NEW c \in Symbols
    PROVE  Read(r, Append(text, c)) = ReadChar(Read(r, text), c)
  BY Reader!FoldAppend DEF Read, Texts

\* Reading the second part from where the first was left reads the whole.
LEMMA ReadConcat ==
    ASSUME NEW r, NEW s \in Texts, NEW t \in Texts
    PROVE  Read(r, s \o t) = Read(Read(r, s), t)
  BY Reader!FoldConcat DEF Read, Texts

\* Induction over texts.
LEMMA TextSets ==
    ASSUME NEW P, <<>> \in P,
           \A s \in Texts : \A c \in Symbols : s \in P => Append(s, c) \in P
    PROVE  Texts \subseteq P
  BY Reader!SeqSets DEF Texts

\* Text leaves the reader within a line of text.
LEMMA ReadTyped ==
    ASSUME NEW r, IsReading(r), NEW text \in Texts
    PROVE  IsReading(Read(r, text))
  <1> DEFINE P == {s \in Texts : IsReading(Read(r, s))}
  <1>1. <<>> \in P
    BY ReadEmpty DEF Texts
  <1>2. ASSUME NEW s \in Texts, NEW c \in Symbols, s \in P PROVE Append(s, c) \in P
    <2>1. IsReading(ReadChar(Read(r, s), c)) /\ Append(s, c) \in Texts
      BY <1>2, ReadCharTyped, AppendFacts DEF Texts
    <2> QED
      BY <2>1, ReadAppend
  <1> HIDE DEF P
  <1>3. Texts \subseteq P
    BY <1>1, <1>2, TextSets
  <1> QED
    BY <1>3 DEF P

\* The reader remembers a CR exactly when it has just read one.
LEMMA ReadCR ==
    ASSUME NEW f, NEW text \in Texts
    PROVE  Read(Fresh(f), text).cr <=> EndsInCR(text)
  <1>1. CASE text = <<>>
    BY <1>1, ReadEmpty, FreshReading DEF EndsInCR
  <1>2. CASE text # <<>>
    <2> DEFINE s == Front(text)
               c == Last(text)
    <2>1. s \in Texts /\ c \in Symbols /\ text = Append(s, c)
      BY <1>2, SplitLast DEF Texts
    <2> HIDE DEF s, c
    <2>2. IsReading(Read(Fresh(f), s))
      BY <2>1, FreshReading, ReadTyped
    <2>3. ReadChar(Read(Fresh(f), s), c).cr <=> c = CR
      BY <2>1, <2>2, ReadCharTyped
    <2> QED
      BY <2>1, <2>3, ReadAppend, EndsAppend
  <1> QED
    BY <1>1, <1>2

\* A CR is read alike from the same point, whatever came before.
LEMMA SamePointCR ==
    ASSUME NEW r, NEW q, SamePoint(r, q)
    PROVE  ReadChar(r, CR) = ReadChar(q, CR)
  BY DEF SamePoint, ReadChar, LineEnded, CR, LF

\* Readers at the same point that have both read a CR last, or neither, are equal.
LEMMA SamePointEqual ==
    ASSUME NEW r, NEW q, IsReading(r), IsReading(q), SamePoint(r, q), r.cr = q.cr
    PROVE  r = q
  BY DEF SamePoint, IsReading

\* The same point once the CR held back is set aside: with it, the readers are
\* equal.
Abreast(text, f, rest) ==
    /\ SamePoint(Read(Fresh(<<>>), Settled(text)), Read(Fresh(f), Settled(rest)))
    /\ EndsInCR(text) <=> EndsInCR(rest)

\* Both readers read on alike.
LEMMA AbreastEqual ==
    ASSUME NEW f, NEW text \in Texts, NEW rest \in Texts, Abreast(text, f, rest)
    PROVE  Read(Fresh(<<>>), text) = Read(Fresh(f), rest)
  <1> DEFINE r == Read(Fresh(<<>>), Settled(text))
             q == Read(Fresh(f), Settled(rest))
  <1>1. SamePoint(r, q)
    BY DEF Abreast
  <1>2. Settled(text) \in Texts /\ Settled(rest) \in Texts
    BY SettledCases
  <1>3. CASE EndsInCR(text)
    <2>1. CR \in Symbols /\ text = Append(Settled(text), CR) /\ rest = Append(Settled(rest), CR)
      BY <1>3, SettledCases DEF Abreast
    <2>2. Read(Fresh(<<>>), text) = ReadChar(r, CR) /\ Read(Fresh(f), rest) = ReadChar(q, CR)
      BY <1>2, <2>1, ReadAppend
    <2> QED
      BY <1>1, <2>2, SamePointCR
  <1>4. CASE ~EndsInCR(text)
    <2>1. text = Settled(text) /\ rest = Settled(rest) /\ ~EndsInCR(rest)
      BY <1>4, SettledCases DEF Abreast
    <2>2. IsReading(r) /\ IsReading(q)
      BY <1>2, FreshReading, ReadTyped
    <2>3. ~r.cr /\ ~q.cr /\ r.cr \in BOOLEAN /\ q.cr \in BOOLEAN
      BY <1>4, <2>1, <2>2, ReadCR DEF IsReading
    <2> HIDE DEF r, q
    <2>4. r = q
      BY <1>1, <2>2, <2>3, SamePointEqual
    <2> QED
      BY <2>1, <2>4 DEF r, q
  <1> QED
    BY <1>3, <1>4

-----------------------------------------------------------------------------
(* Line ends.                                                              *)

NormalizedSoFar(text) == Normalizer!Fold([out |-> <<>>, cr |-> FALSE], text)

\* One more character normalised.
LEMMA NormalizedAppend ==
    ASSUME NEW text \in Texts, NEW c \in Symbols
    PROVE  NormalizedSoFar(Append(text, c)) = NormalizeChar(NormalizedSoFar(text), c)
  BY Normalizer!FoldAppend DEF NormalizedSoFar, Texts

\* Text is read alike before and after its line ends are normalised.
NormalizedAlike(f, text) ==
    LET n == NormalizedSoFar(text) IN
    /\ n.out \in Texts /\ NoCR(n.out)
    /\ n.cr <=> EndsInCR(text)
    /\ SamePoint(Read(Fresh(f), text), Read(Fresh(f), n.out))

\* If the normalised text reads like the text, so does it with one more character.
LEMMA NormalizedAlikeStep ==
    ASSUME NEW f, NEW s \in Texts, NEW c \in Symbols, NormalizedAlike(f, s)
    PROVE  NormalizedAlike(f, Append(s, c))
  <1> DEFINE n == NormalizedSoFar(s)
             r == Read(Fresh(f), s)
             q == Read(Fresh(f), n.out)
  <1>1. NormalizedSoFar(Append(s, c)) = NormalizeChar(n, c)
    BY NormalizedAppend
  <1>2. /\ n.out \in Texts /\ NoCR(n.out) /\ (n.cr <=> EndsInCR(s)) /\ SamePoint(r, q)
    BY DEF NormalizedAlike
  <1>3. (r.cr <=> n.cr) /\ ~q.cr
    BY <1>2, ReadCR, NoCREnds
  <1>4. Read(Fresh(f), Append(s, c)) = ReadChar(r, c)
    BY ReadAppend
  <1>5. \A b \in Symbols : Read(Fresh(f), Append(n.out, b)) = ReadChar(q, b)
    BY <1>2, ReadAppend
  <1>6. /\ LF \in Symbols /\ LF # CR
        /\ \A b \in Symbols : Append(n.out, b) \in Texts
        /\ \A b \in Symbols : b # CR => NoCR(Append(n.out, b))
    BY <1>2, NoCRAppend, AppendFacts DEF Symbols, CR, LF, Texts
  <1>7. EndsInCR(Append(s, c)) <=> c = CR
    BY EndsAppend
  <1> HIDE DEF n, r, q
  <1>8. CASE c = CR
    <2>1. NormalizeChar(n, c).out = Append(n.out, LF) /\ NormalizeChar(n, c).cr
      BY <1>8 DEF NormalizeChar
    <2>2. SamePoint(ReadChar(r, c), ReadChar(q, LF))
      BY <1>2, <1>3, <1>6, <1>8 DEF SamePoint, ReadChar, LineEnded
    <2> QED
      BY <1>1, <1>4, <1>5, <1>6, <1>7, <1>8, <2>1, <2>2 DEF NormalizedAlike
  <1>9. CASE c = LF /\ n.cr
    <2>1. NormalizeChar(n, c).out = n.out /\ ~NormalizeChar(n, c).cr
      BY <1>6, <1>9 DEF NormalizeChar
    <2>2. SamePoint(ReadChar(r, c), q)
      BY <1>2, <1>3, <1>9 DEF SamePoint, ReadChar, SecondHalf
    <2> QED
      BY <1>1, <1>2, <1>4, <1>6, <1>7, <1>9, <2>1, <2>2 DEF NormalizedAlike, q
  <1>10. CASE c # CR /\ ~(c = LF /\ n.cr)
    <2>1. NormalizeChar(n, c).out = Append(n.out, c) /\ ~NormalizeChar(n, c).cr
      BY <1>10 DEF NormalizeChar
    <2>2. SamePoint(ReadChar(r, c), ReadChar(q, c))
      BY <1>2, <1>3, <1>10 DEF SamePoint, ReadChar, LineEnded, LineGrows
    <2> QED
      BY <1>1, <1>4, <1>5, <1>6, <1>7, <1>10, <2>1, <2>2 DEF NormalizedAlike
  <1> QED
    BY <1>8, <1>9, <1>10

\* The normalised text reads like the text and has no CR.
LEMMA NormalizedReads ==
    ASSUME NEW f, NEW text \in Texts
    PROVE  /\ Normalized(text) \in Texts /\ NoCR(Normalized(text))
           /\ SamePoint(Read(Fresh(f), text), Read(Fresh(f), Normalized(text)))
  <1> DEFINE P == {s \in Texts : NormalizedAlike(f, s)}
  <1>1. <<>> \in P
    <2>1. NormalizedSoFar(<<>>) = [out |-> <<>>, cr |-> FALSE]
      BY Normalizer!FoldEmpty DEF NormalizedSoFar
    <2>2. NormalizedSoFar(<<>>).out = <<>> /\ ~NormalizedSoFar(<<>>).cr
      BY <2>1
    <2>3. <<>> \in Texts /\ NoCR(<<>>) /\ ~EndsInCR(<<>>)
      BY DEF NoCR, EndsInCR, Texts
    <2>4. NormalizedAlike(f, <<>>)
      BY <2>1, <2>2, <2>3, Zenon DEF NormalizedAlike, SamePoint
    <2> QED
      BY <2>3, <2>4
  <1>2. ASSUME NEW s \in Texts, NEW c \in Symbols, s \in P PROVE Append(s, c) \in P
    BY <1>2, NormalizedAlikeStep, AppendFacts DEF Texts
  <1> HIDE DEF P
  <1>3. NormalizedAlike(f, text)
    BY <1>1, <1>2, TextSets DEF P
  <1> QED
    BY <1>3 DEF NormalizedAlike, Normalized, NormalizedSoFar

\* Text without a CR is normal; so is what a CR is read as.
LEMMA NormalizedPlain ==
    ASSUME NEW text \in Texts, NoCR(text)
    PROVE  NormalizedSoFar(text) = [out |-> text, cr |-> FALSE]
  <1> DEFINE P == {s \in Texts : NoCR(s) => NormalizedSoFar(s) = [out |-> s, cr |-> FALSE]}
  <1>1. <<>> \in P
    BY Normalizer!FoldEmpty DEF NormalizedSoFar, Texts
  <1>2. ASSUME NEW s \in Texts, NEW c \in Symbols, s \in P PROVE Append(s, c) \in P
    <2>1. Append(s, c) \in Texts /\ (NoCR(Append(s, c)) <=> NoCR(s) /\ c # CR)
      BY NoCRAppend, AppendFacts DEF Texts
    <2>2. ASSUME NoCR(s), c # CR
          PROVE  NormalizedSoFar(Append(s, c)) = [out |-> Append(s, c), cr |-> FALSE]
      <3>1. NormalizedSoFar(s) = [out |-> s, cr |-> FALSE]
        BY <1>2, <2>2
      <3>2. NormalizedSoFar(Append(s, c)) = NormalizeChar([out |-> s, cr |-> FALSE], c)
        BY <3>1, NormalizedAppend
      <3> QED
        BY <2>2, <3>2 DEF NormalizeChar
    <2> QED
      BY <2>1, <2>2
  <1> HIDE DEF P
  <1>3. text \in P
    BY <1>1, <1>2, TextSets
  <1> QED
    BY <1>3 DEF P

\* A text without CR is normalised as it is.
LEMMA NormalizedItself ==
    ASSUME NEW text \in Texts, NoCR(text)
    PROVE  Normalized(text) = text
  <1>1. NormalizedSoFar(text) = [out |-> text, cr |-> FALSE]
    BY NormalizedPlain
  <1>2. Normalized(text) = NormalizedSoFar(text).out
    BY Zenon DEF Normalized, NormalizedSoFar
  <1> QED
    BY <1>1, <1>2

\* What becomes of a CR at the end, and of what follows it.
LEMMA NormalizedEnd ==
    ASSUME NEW text \in Texts, NoCR(text), CR \in Symbols
    PROVE  /\ Normalized(Append(text, CR)) = Append(text, LF)
           /\ \A c \in Symbols : c \notin {CR, LF} =>
                Normalized(Append(Append(text, CR), c)) = Append(Append(text, LF), c)
  <1>1. NormalizedSoFar(Append(text, CR)) = [out |-> Append(text, LF), cr |-> TRUE]
    <2>1. NormalizedSoFar(Append(text, CR)) = NormalizeChar([out |-> text, cr |-> FALSE], CR)
      BY NormalizedAppend, NormalizedPlain
    <2> QED
      BY <2>1 DEF NormalizeChar
  <1>2. Append(text, CR) \in Texts
    BY AppendFacts DEF Texts
  <1>3. ASSUME NEW c \in Symbols, c \notin {CR, LF}
        PROVE  NormalizedSoFar(Append(Append(text, CR), c)).out = Append(Append(text, LF), c)
    BY <1>1, <1>2, <1>3, NormalizedAppend DEF NormalizeChar
  <1> QED
    BY <1>1, <1>3 DEF Normalized, NormalizedSoFar

-----------------------------------------------------------------------------
(* An event and its data.                                                  *)

\* The parts of the lines that are over.
Gathered(text) == Collector!Fold(<<>>, Split(text).lines)

\* One more character split.
LEMMA SplitAppend ==
    ASSUME NEW text \in Texts, NEW c \in Symbols
    PROVE  Split(Append(text, c)) = SplitChar(Split(text), c)
  BY Splitter!FoldAppend DEF Split, Texts

LEMMA SplitEmpty == Split(<<>>) = [lines |-> <<>>, line |-> <<>>]
  BY Splitter!FoldEmpty DEF Split

\* An event splits into lines.
LEMMA SplitTyped ==
    ASSUME NEW text \in Texts
    PROVE  Split(text).lines \in Seq(Texts) /\ Split(text).line \in Texts
  <1> DEFINE P == {s \in Texts : Split(s).lines \in Seq(Texts) /\ Split(s).line \in Texts}
  <1>1. <<>> \in P
    <2>1. Split(<<>>).lines = <<>> /\ Split(<<>>).line = <<>>
      BY SplitEmpty
    <2>2. <<>> \in Texts /\ <<>> \in Seq(Texts)
      BY DEF Texts
    <2> QED
      BY <2>1, <2>2
  <1>2. ASSUME NEW s \in Texts, NEW c \in Symbols, s \in P PROVE Append(s, c) \in P
    <2> DEFINE l == Split(s).lines
               x == Split(s).line
    <2>1. l \in Seq(Texts) /\ x \in Texts
      BY <1>2
    <2>2. Append(l, x) \in Seq(Texts) /\ Append(x, c) \in Texts /\ <<>> \in Texts
          /\ Append(s, c) \in Texts
      BY <2>1, AppendFacts DEF Texts
    <2>3. Split(Append(s, c)) = IF c = LF THEN [lines |-> Append(l, x), line |-> <<>>]
                                ELSE [lines |-> l, line |-> Append(x, c)]
      BY SplitAppend DEF SplitChar
    <2> HIDE DEF l, x
    <2>4. CASE c = LF
      <3>1. Split(Append(s, c)).lines = Append(l, x) /\ Split(Append(s, c)).line = <<>>
        BY <2>3, <2>4
      <3> QED
        BY <2>2, <3>1
    <2>5. CASE c # LF
      <3>1. Split(Append(s, c)).lines = l /\ Split(Append(s, c)).line = Append(x, c)
        BY <2>3, <2>5
      <3> QED
        BY <2>1, <2>2, <3>1
    <2> QED
      BY <2>4, <2>5
  <1> HIDE DEF P
  <1>3. Texts \subseteq P
    BY <1>1, <1>2, TextSets
  <1> QED
    BY <1>3 DEF P

\* The unfinished line counts.
LEMMA DataPartsGathered ==
    ASSUME NEW text \in Texts
    PROVE  DataParts(text) = PartAdded(Gathered(text), Split(text).line)
  BY SplitTyped, Collector!FoldAppend DEF DataParts, Gathered

\* No lines have no data.
LEMMA GatheredEmpty ==
    Gathered(<<>>) = <<>> /\ Split(<<>>).line = <<>> /\ DataParts(<<>>) = <<>>
  <1>1. Split(<<>>).lines = <<>> /\ Split(<<>>).line = <<>>
    BY SplitEmpty
  <1>2. Gathered(<<>>) = <<>>
    BY <1>1, Collector!FoldEmpty DEF Gathered
  <1>3. DataParts(<<>>) = PartAdded(<<>>, <<>>)
    <2>1. <<>> \in Texts
      BY DEF Texts
    <2>2. DataParts(<<>>) = PartAdded(Gathered(<<>>), Split(<<>>).line)
      BY <2>1, DataPartsGathered
    <2> QED
      BY <1>1, <1>2, <2>2
  <1> QED
    BY <1>1, <1>2, <1>3 DEF PartAdded, IsData

\* The data of one more line.
LEMMA GatheredAppend ==
    ASSUME NEW text \in Texts, NEW c \in Symbols
    PROVE  IF c = LF THEN /\ Gathered(Append(text, c)) = DataParts(text)
                          /\ Split(Append(text, c)).line = <<>>
           ELSE /\ Gathered(Append(text, c)) = Gathered(text)
                /\ Split(Append(text, c)).line = Append(Split(text).line, c)
  <1> DEFINE l == Split(text).lines
             x == Split(text).line
             next == Split(Append(text, c))
  <1>1. l \in Seq(Texts) /\ x \in Texts
    BY SplitTyped
  <1>2. next = IF c = LF THEN [lines |-> Append(l, x), line |-> <<>>]
               ELSE [lines |-> l, line |-> Append(x, c)]
    BY SplitAppend DEF SplitChar
  <1>3. Gathered(Append(text, c)) = Collector!Fold(<<>>, next.lines)
        /\ Gathered(text) = Collector!Fold(<<>>, l)
        /\ DataParts(text) = Collector!Fold(<<>>, Append(l, x))
    BY DEF Gathered, DataParts
  <1> HIDE DEF next, l, x
  <1>4. CASE c = LF
    <2>1. next.lines = Append(l, x) /\ next.line = <<>>
      BY <1>2, <1>4
    <2> QED
      BY <1>3, <1>4, <2>1 DEF next
  <1>5. CASE c # LF
    <2>1. next.lines = l /\ next.line = Append(x, c)
      BY <1>2, <1>5
    <2> QED
      BY <1>3, <1>5, <2>1 DEF next, x
  <1> QED
    BY <1>4, <1>5

\* A line without the field name adds nothing.
LEMMA NoPart ==
    /\ \A parts : PartAdded(parts, <<>>) = parts
    /\ \A parts, c : c # "data" => PartAdded(parts, <<c>>) = parts
  BY DEF PartAdded, IsData

\* An event without data yields nothing.
LEMMA NothingYielded ==
    ASSUME NEW y
    PROVE  Yield(y, <<>>) = y
  BY DEF Yield, Verdict

\* Blank text has no data.
NoData(text) == \A i \in DOMAIN text : text[i] # "data"

\* A text without a data field has no data.
LEMMA NoDataParts ==
    ASSUME NEW text \in Texts, NoData(text)
    PROVE  DataParts(text) = <<>>
  <1> DEFINE P == {s \in Texts : NoData(s) => Gathered(s) = <<>> /\ NoData(Split(s).line)}
  <1>1. ASSUME NEW s \in Texts, NoData(s) PROVE PartAdded(<<>>, s) = <<>>
    <2>1. s # <<>> => Head(s) # "data"
      BY <1>1 DEF NoData, Texts
    <2> QED
      BY <2>1 DEF PartAdded, IsData
  <1>2. \A s \in Texts : \A c \in Symbols :
           Append(s, c) \in Texts /\ (NoData(Append(s, c)) <=> NoData(s) /\ c # "data")
    BY AppendFacts DEF NoData, Texts
  <1>3. <<>> \in P
    BY GatheredEmpty DEF NoData, Texts
  <1>4. ASSUME NEW s \in Texts, NEW c \in Symbols, s \in P PROVE Append(s, c) \in P
    <2> SUFFICES ASSUME NoData(s), c # "data"
                 PROVE  Gathered(Append(s, c)) = <<>> /\ NoData(Split(Append(s, c)).line)
      BY <1>2
    <2> DEFINE x == Split(s).line
    <2>1. Gathered(s) = <<>> /\ NoData(x) /\ x \in Texts
      BY <1>4, SplitTyped
    <2>2. DataParts(s) = <<>>
      BY <1>1, <2>1, DataPartsGathered
    <2>3. NoData(<<>>) /\ NoData(Append(x, c))
      BY <1>2, <2>1 DEF NoData
    <2> HIDE DEF x
    <2> QED
      BY <2>1, <2>2, <2>3, GatheredAppend DEF x
  <1> HIDE DEF P
  <1>5. text \in P
    BY <1>3, <1>4, TextSets
  <1>6. Gathered(text) = <<>> /\ NoData(Split(text).line) /\ Split(text).line \in Texts
    BY <1>5, SplitTyped DEF P
  <1> QED
    BY <1>1, <1>6, DataPartsGathered

-----------------------------------------------------------------------------
(* Reading an event.                                                       *)

NoBlank(text) == \A i \in 1..(Len(text) - 1) : ~(text[i] = LF /\ text[i + 1] = LF)

\* A blank line is completed by an LF after an LF.
LEMMA NoBlankAppend ==
    ASSUME NEW s \in Texts, NEW c \in Symbols
    PROVE  NoBlank(Append(s, c)) <=> NoBlank(s) /\ ~(c = LF /\ s # <<>> /\ Last(s) = LF)
  <1> DEFINE n == Append(s, c)
             k == Len(s)
  <1>1. /\ k \in Nat /\ Len(n) = k + 1 /\ n[k + 1] = c /\ (s # <<>> <=> k > 0)
        /\ \A i \in 1..k : n[i] = s[i]
        /\ Last(s) = s[k]
    BY DEF Last, Texts
  <1> HIDE DEF n
  <1>2. NoBlank(n) <=> \A i \in 1..k : ~(n[i] = LF /\ n[i + 1] = LF)
    BY <1>1 DEF NoBlank
  <1>3. NoBlank(s) <=> \A i \in 1..(k - 1) : ~(s[i] = LF /\ s[i + 1] = LF)
    BY DEF NoBlank
  <1> HIDE DEF k
  <1>4. ASSUME NoBlank(n) PROVE NoBlank(s) /\ ~(c = LF /\ s # <<>> /\ Last(s) = LF)
    <2>1. ASSUME NEW i \in 1..(k - 1), s[i] = LF, s[i + 1] = LF PROVE FALSE
      BY <1>1, <1>2, <1>4, <2>1
    <2>2. ASSUME c = LF, k > 0, s[k] = LF PROVE FALSE
      BY <1>1, <1>2, <1>4, <2>2
    <2> QED
      BY <1>1, <1>3, <2>1, <2>2
  <1>5. ASSUME NoBlank(s), ~(c = LF /\ s # <<>> /\ Last(s) = LF) PROVE NoBlank(n)
    <2> SUFFICES ASSUME NEW i \in 1..k, n[i] = LF, n[i + 1] = LF PROVE FALSE
      BY <1>2
    <2>1. CASE i = k
      BY <1>1, <1>5, <2>1
    <2>2. CASE i # k
      <3>1. i \in 1..(k - 1) /\ i + 1 \in 1..k
        BY <1>1, <2>2
      <3> QED
        BY <1>1, <1>3, <1>5, <3>1
    <2> QED
      BY <2>1, <2>2
  <1> QED
    BY <1>4, <1>5 DEF n

\* Within an event the reader yields nothing and gathers what parse_sse_event
\* will gather.
WithinEvent(f, text) ==
    /\ Read(Fresh(f), text) = [yielded |-> [frames |-> f, failed |-> FALSE],
                               parts |-> Gathered(text), line |-> Split(text).line, cr |-> FALSE]
    /\ Split(text).line = <<>> => text = <<>> \/ Last(text) = LF

\* A character that completes no blank line leaves the reader within the event.
LEMMA WithinEventStep ==
    ASSUME NEW f, NEW s \in Texts, NEW c \in Symbols, WithinEvent(f, s),
           c # CR, ~(c = LF /\ s # <<>> /\ Last(s) = LF)
    PROVE  WithinEvent(f, Append(s, c))
  <1> DEFINE y == [frames |-> f, failed |-> FALSE]
             g == Gathered(s)
             x == Split(s).line
             r == [yielded |-> y, parts |-> g, line |-> x, cr |-> FALSE]
  <1>1. Read(Fresh(f), Append(s, c)) = ReadChar(r, c)
    BY ReadAppend DEF WithinEvent
  <1>2. x \in Texts /\ Last(Append(s, c)) = c /\ Append(x, c) # <<>>
    BY SplitTyped, AppendFacts DEF Texts
  <1>3. CASE c = LF
    <2>1. Gathered(Append(s, c)) = PartAdded(g, x) /\ Split(Append(s, c)).line = <<>>
      BY <1>3, GatheredAppend, DataPartsGathered
    <2>2. ASSUME x = <<>> PROVE g = <<>> /\ PartAdded(g, x) = <<>>
      <3>1. s = <<>>
        BY <1>3, <2>2 DEF WithinEvent
      <3> QED
        BY <2>2, <3>1, GatheredEmpty, NoPart
    <2>3. Yield(y, <<>>) = y
      BY NothingYielded
    <2> HIDE DEF y, g, x
    <2>4. ReadChar(r, c) = [yielded |-> y, parts |-> PartAdded(g, x), line |-> <<>>, cr |-> FALSE]
      <3>1. ReadChar(r, c) = LineEnded(r, c) /\ c # CR
        BY <1>3 DEF ReadChar, CR, LF
      <3>2. LineEnded(r, c) = [yielded |-> IF x = <<>> THEN Yield(y, g) ELSE y,
                               parts |-> IF x = <<>> THEN <<>> ELSE PartAdded(g, x),
                               line |-> <<>>, cr |-> FALSE]
        BY <3>1 DEF LineEnded
      <3> QED
        BY <2>2, <2>3, <3>1, <3>2
    <2> QED
      BY <1>1, <1>2, <1>3, <2>1, <2>4 DEF WithinEvent, y
  <1>4. CASE c # LF
    <2>1. Gathered(Append(s, c)) = g /\ Split(Append(s, c)).line = Append(x, c)
      BY <1>4, GatheredAppend
    <2> HIDE DEF y, g, x
    <2>2. ReadChar(r, c) = [yielded |-> y, parts |-> g, line |-> Append(x, c), cr |-> FALSE]
      BY <1>4 DEF ReadChar, LineGrows
    <2> QED
      BY <1>1, <1>2, <2>1, <2>2 DEF WithinEvent, y
  <1> QED
    BY <1>3, <1>4

\* Within an event the reader has gathered the data of the lines split off it.
LEMMA EventGathered ==
    ASSUME NEW f, NEW text \in Texts, NoCR(text), NoBlank(text)
    PROVE  WithinEvent(f, text)
  <1> DEFINE P == {s \in Texts : NoCR(s) /\ NoBlank(s) => WithinEvent(f, s)}
  <1>1. <<>> \in P
    <2>1. Read(Fresh(f), <<>>) = Fresh(f) /\ Gathered(<<>>) = <<>> /\ Split(<<>>).line = <<>>
      BY ReadEmpty, GatheredEmpty
    <2>2. WithinEvent(f, <<>>)
      BY <2>1, Zenon DEF WithinEvent, Fresh
    <2>3. <<>> \in Texts
      BY DEF Texts
    <2> QED
      BY <2>2, <2>3
  <1>2. ASSUME NEW s \in Texts, NEW c \in Symbols, s \in P PROVE Append(s, c) \in P
    BY <1>2, WithinEventStep, NoCRAppend, NoBlankAppend, AppendFacts DEF Texts
  <1> HIDE DEF P
  <1>3. text \in P
    BY <1>1, <1>2, TextSets
  <1> QED
    BY <1>3 DEF P

\* The second line end dispatches the event: what follows is read afresh.
LEMMA EventRead ==
    ASSUME NEW f, NEW event \in Texts, NoCR(event), NoBlank(Append(event, LF))
    PROVE  Read(Fresh(f), Append(Append(event, LF), LF))
             = [yielded |-> Yield([frames |-> f, failed |-> FALSE], DataParts(event)),
                parts |-> <<>>, line |-> <<>>, cr |-> FALSE]
  <1> DEFINE y == [frames |-> f, failed |-> FALSE]
             parts == DataParts(event)
  <1>1. LF \in Symbols /\ LF # CR
    BY DEF Symbols, LF, CR
  <1>2. Append(event, LF) \in Texts /\ NoCR(Append(event, LF))
    BY <1>1, NoCRAppend, AppendFacts DEF Texts
  <1>3. WithinEvent(f, Append(event, LF))
    BY <1>2, EventGathered
  <1>4. Gathered(Append(event, LF)) = parts /\ Split(Append(event, LF)).line = <<>>
    BY <1>1, GatheredAppend
  <1> HIDE DEF y, parts
  <1>5. Read(Fresh(f), Append(event, LF)) = [yielded |-> y, parts |-> parts, line |-> <<>>, cr |-> FALSE]
    BY <1>3, <1>4 DEF WithinEvent, y
  <1>6. ReadChar([yielded |-> y, parts |-> parts, line |-> <<>>, cr |-> FALSE], LF)
          = [yielded |-> Yield(y, parts), parts |-> <<>>, line |-> <<>>, cr |-> FALSE]
    BY <1>1 DEF ReadChar, LineEnded
  <1> QED
    BY <1>1, <1>2, <1>5, <1>6, ReadAppend DEF y, parts

\* What is left when a response is over, with or without a blank line at its
\* end, means what parse_sse_event makes of it.
LEMMA RestRead ==
    ASSUME NEW f, NEW text \in Texts, NoCR(text), NoBlank(text)
    PROVE  Finished(Read(Fresh(f), text)) = Yield([frames |-> f, failed |-> FALSE], DataParts(text))
  <1>1. WithinEvent(f, text)
    BY EventGathered
  <1> DEFINE y == [frames |-> f, failed |-> FALSE]
             g == Gathered(text)
             x == Split(text).line
  <1>2. Read(Fresh(f), text) = [yielded |-> y, parts |-> g, line |-> x, cr |-> FALSE]
    BY <1>1 DEF WithinEvent
  <1>3. DataParts(text) = PartAdded(g, x)
    BY DataPartsGathered
  <1> HIDE DEF y, g, x
  <1>4. Finished(Read(Fresh(f), text)) = Yield(y, PartAdded(g, x))
    BY <1>2 DEF Finished
  <1> QED
    BY <1>3, <1>4 DEF y

\* The end of a response whose buffer holds back a CR.
LEMMA HeldRestRead ==
    ASSUME NEW f, NEW text \in Texts, NoCR(text), NoBlank(text),
           NEW rest \in {Append(text, LF), Append(Append(text, LF), "bad")}
    PROVE  Finished(Read(Fresh(f), rest)) = Yield([frames |-> f, failed |-> FALSE], DataParts(rest))
  <1> DEFINE y == [frames |-> f, failed |-> FALSE]
             ended == Append(text, LF)
  <1>1. LF \in Symbols /\ "bad" \in Symbols /\ LF # CR /\ "bad" # CR /\ "bad" # LF /\ "bad" # "data"
    BY DEF Symbols, LF, CR
  <1>2. /\ ended \in Texts /\ NoCR(ended) /\ Append(ended, "bad") \in Texts
        /\ NoCR(Append(ended, "bad"))
    BY <1>1, NoCRAppend, AppendFacts DEF Texts
  <1>3. CASE NoBlank(ended)
    <2>1. NoBlank(Append(ended, "bad"))
      BY <1>1, <1>2, <1>3, NoBlankAppend
    <2> QED
      BY <1>2, <1>3, <2>1, RestRead
  <1>4. CASE ~NoBlank(ended)
    <2> DEFINE event == Front(text)
               parts == DataParts(event)
               r == [yielded |-> Yield(y, parts), parts |-> <<>>, line |-> <<>>, cr |-> FALSE]
    <2>1. text # <<>> /\ Last(text) = LF
      BY <1>1, <1>4, NoBlankAppend
    <2>2. event \in Texts /\ text = Append(event, LF)
      BY <2>1, SplitLast DEF Texts
    <2> HIDE DEF event
    <2>3. NoCR(event)
      BY <1>1, <2>2, NoCRAppend
    <2>4. Read(Fresh(f), ended) = r
      BY <2>2, <2>3, EventRead
    <2>5. Gathered(text) = parts /\ Split(text).line = <<>> /\ DataParts(text) = parts
      BY <1>1, <2>2, GatheredAppend, DataPartsGathered, NoPart
    <2>6. Gathered(ended) = parts /\ Split(ended).line = <<>> /\ DataParts(ended) = parts
      BY <1>1, <1>2, <2>5, GatheredAppend, DataPartsGathered, NoPart
    <2>7. DataParts(Append(ended, "bad")) = PartAdded(parts, <<"bad">>)
      <3>1. /\ Gathered(Append(ended, "bad")) = parts
            /\ Split(Append(ended, "bad")).line = Append(<<>>, "bad")
        BY <1>1, <1>2, <2>6, GatheredAppend
      <3>2. Append(<<>>, "bad") = <<"bad">>
        OBVIOUS
      <3> QED
        BY <1>2, <3>1, <3>2, DataPartsGathered
    <2> HIDE DEF y, parts
    <2>8. Finished(r) = Yield(y, parts)
      BY NoPart, NothingYielded DEF Finished
    <2>9. Finished(ReadChar(r, "bad")) = Yield(y, parts)
      <3>1. ReadChar(r, "bad") = [yielded |-> Yield(y, parts), parts |-> <<>>,
                                  line |-> Append(<<>>, "bad"), cr |-> FALSE]
        BY <1>1 DEF ReadChar, LineGrows
      <3>2. Append(<<>>, "bad") = <<"bad">>
        OBVIOUS
      <3> QED
        BY <1>1, <3>1, <3>2, NoPart, NothingYielded DEF Finished
    <2>10. Read(Fresh(f), Append(ended, "bad")) = ReadChar(r, "bad")
      BY <1>1, <1>2, <2>4, ReadAppend
    <2>11. PartAdded(parts, <<"bad">>) = parts
      BY <1>1, NoPart
    <2> HIDE DEF r, ended
    <2>12. CASE rest = ended
      BY <2>4, <2>6, <2>8, <2>12 DEF y
    <2>13. CASE rest = Append(ended, "bad")
      BY <2>7, <2>9, <2>10, <2>11, <2>13 DEF y
    <2> QED
      BY <2>12, <2>13 DEF ended
  <1> QED
    BY <1>3, <1>4

-----------------------------------------------------------------------------
(* The buffer.                                                             *)

\* The buffer holds no CR but perhaps its last character.
CROnlyLast(text) == \A i \in DOMAIN text : text[i] = CR => i = Len(text)

\* Without its last CR the buffer has none.
LEMMA CROnlyLastSettled ==
    ASSUME NEW text \in Texts
    PROVE  CROnlyLast(text) <=> NoCR(Settled(text))
  <1> DEFINE s == Settled(text)
  <1>1. s \in Texts
    BY SettledCases
  <1>2. CASE EndsInCR(text)
    <2>1. text = Append(s, CR) /\ CR \in Symbols
      BY <1>2, SettledCases
    <2>2. /\ Len(text) = Len(s) + 1 /\ DOMAIN text = DOMAIN s \cup {Len(s) + 1}
          /\ \A i \in DOMAIN s : text[i] = s[i]
      BY <1>1, <2>1, AppendFacts DEF Texts
    <2>3. \A i \in DOMAIN s : i # Len(s) + 1
      BY <1>1 DEF Texts
    <2> HIDE DEF s
    <2> QED
      BY <2>2, <2>3 DEF CROnlyLast, NoCR, s
  <1>3. CASE ~EndsInCR(text)
    <2>1. s = text
      BY <1>3, SettledCases
    <2>2. text # <<>> => text[Len(text)] # CR /\ Len(text) \in DOMAIN text
      BY <1>3 DEF EndsInCR, Last, Texts
    <2>3. text = <<>> => DOMAIN text = {}
      OBVIOUS
    <2> HIDE DEF s
    <2> QED
      BY <2>1, <2>2, <2>3 DEF CROnlyLast, NoCR, s
  <1> QED
    BY <1>2, <1>3

\* A chunk keeps the readers abreast, wherever it was cut.
LEMMA ChunkAbreast ==
    ASSUME NEW f, NEW text \in Texts, NEW rest \in Texts, NEW added \in Texts,
           CROnlyLast(rest), Abreast(text, f, rest)
    PROVE  LET b == NormalizedButLast(rest \o added) IN
           b \in Texts /\ CROnlyLast(b) /\ Abreast(text \o added, f, b)
  <1>1. Read(Fresh(<<>>), text) = Read(Fresh(f), rest)
    BY AbreastEqual
  <1>2. CASE added = <<>>
    <2>1. text \o added = text /\ rest \o added = rest
      BY <1>2 DEF Texts
    <2>2. Settled(rest) \in Texts /\ NoCR(Settled(rest))
      BY SettledCases, CROnlyLastSettled
    <2>3. Normalized(Settled(rest)) = Settled(rest)
      BY <2>2, NormalizedItself
    <2>4. rest = IF EndsInCR(rest) THEN Append(Settled(rest), CR) ELSE Settled(rest)
      BY SettledCases
    <2>5. NormalizedButLast(rest) = rest
      <3>1. CASE EndsInCR(rest)
        BY <2>3, <2>4, <3>1, Zenon DEF NormalizedButLast, EndsInCR, Settled
      <3>2. CASE ~EndsInCR(rest)
        BY <2>3, <2>4, <3>2, Zenon DEF NormalizedButLast, EndsInCR
      <3> QED
        BY <3>1, <3>2
    <2> QED
      BY <2>1, <2>5
  <1>3. CASE added # <<>>
    <2> DEFINE a == Front(added)
               c == Last(added)
    <2>1. a \in Texts /\ c \in Symbols /\ added = Append(a, c)
      BY <1>3, SplitLast DEF Texts
    <2> HIDE DEF a, c
    <2> DEFINE s == text \o a
               t == rest \o a
    <2>2. s \in Texts /\ t \in Texts /\ Append(s, c) \in Texts /\ Append(t, c) \in Texts
      BY <2>1, AppendFacts DEF Texts
    <2>3. text \o added = Append(s, c) /\ rest \o added = Append(t, c)
      BY <2>1, ConcatAppend DEF Texts
    <2>4. Read(Fresh(<<>>), s) = Read(Fresh(f), t)
      BY <1>1, <2>1, ReadConcat
    <2> HIDE DEF s, t
    <2>5. Read(Fresh(<<>>), Append(s, c)) = Read(Fresh(f), Append(t, c))
      <3>1. Read(Fresh(<<>>), text \o added) = Read(Fresh(f), rest \o added)
        BY <1>1, ReadConcat
      <3> QED
        BY <2>3, <3>1
    <2>6. /\ Last(Append(t, c)) = c /\ Front(Append(t, c)) = t /\ Append(t, c) # <<>>
          /\ EndsInCR(Append(s, c)) <=> c = CR
          /\ Settled(Append(s, c)) = IF c = CR THEN s ELSE Append(s, c)
      <3>1. Last(Append(t, c)) = c /\ Front(Append(t, c)) = t /\ Append(t, c) # <<>>
        BY <2>1, <2>2, AppendFacts DEF Texts
      <3>2. EndsInCR(Append(s, c)) <=> c = CR
        BY <2>1, <2>2, EndsAppend
      <3>3. Settled(Append(s, c)) = IF c = CR THEN s ELSE Append(s, c)
        BY <2>1, <2>2, SettledAppend
      <3> QED
        BY <3>1, <3>2, <3>3
    <2>7. CASE c = CR
      <3> DEFINE n == Normalized(t)
      <3>1. n \in Texts /\ NoCR(n) /\ SamePoint(Read(Fresh(f), t), Read(Fresh(f), n))
        BY <2>2, NormalizedReads
      <3>2. NormalizedButLast(Append(t, c)) = Append(n, c)
        BY <2>6, <2>7, Zenon DEF NormalizedButLast
      <3> HIDE DEF n
      <3>3. /\ Append(n, c) \in Texts /\ Settled(Append(n, c)) = n
            /\ EndsInCR(Append(n, c)) <=> c = CR
        BY <2>1, <2>7, <3>1, AppendFacts, SettledAppend, EndsAppend DEF Texts
      <3>4. CROnlyLast(Append(n, c))
        BY <3>1, <3>3, CROnlyLastSettled
      <3>5. Abreast(Append(s, c), f, Append(n, c))
        BY <2>4, <2>6, <2>7, <3>1, <3>3 DEF Abreast
      <3> QED
        BY <2>3, <3>2, <3>3, <3>4, <3>5
    <2>8. CASE c # CR
      <3> DEFINE n == Normalized(Append(t, c))
      <3>1. n \in Texts /\ NoCR(n) /\ SamePoint(Read(Fresh(f), Append(t, c)), Read(Fresh(f), n))
        BY <2>2, NormalizedReads
      <3>2. NormalizedButLast(Append(t, c)) = n
        BY <2>6, <2>8, Zenon DEF NormalizedButLast
      <3> HIDE DEF n
      <3>3. ~EndsInCR(n) /\ Settled(n) = n
        BY <3>1, NoCREnds, SettledCases
      <3>4. CROnlyLast(n)
        BY <3>1, <3>3, CROnlyLastSettled
      <3>5. Abreast(Append(s, c), f, n)
        BY <2>5, <2>6, <2>8, <3>1, <3>3 DEF Abreast
      <3> QED
        BY <2>3, <3>1, <3>2, <3>4, <3>5
    <2> QED
      BY <2>7, <2>8
  <1> QED
    BY <1>2, <1>3

\* The blank line found is the first.
LEMMA FirstBlank ==
    ASSUME NEW text \in Texts
    PROVE  LET at == BlankLine(text) IN
           IF at = 0 THEN NoBlank(text)
           ELSE /\ at \in 1..(Len(text) - 1) /\ text[at] = LF /\ text[at + 1] = LF
                /\ \A i \in 1..(at - 1) : ~(text[i] = LF /\ text[i + 1] = LF)
  <1> DEFINE blanks == {i \in 1..(Len(text) - 1) : text[i] = LF /\ text[i + 1] = LF}
  <1>1. BlankLine(text) = IF blanks = {} THEN 0 ELSE Min(blanks)
    BY DEF BlankLine
  <1>2. CASE blanks = {}
    BY <1>1, <1>2 DEF NoBlank
  <1>3. CASE blanks # {}
    <2>1. blanks \in SUBSET Nat /\ Len(text) \in Nat
      BY DEF Texts
    <2>2. PICK x \in blanks : \A y \in blanks : x <= y
      BY <1>3, <2>1, Decoder!LeastNat
    <2>3. Min(blanks) \in blanks /\ \A y \in blanks : Min(blanks) <= y
      BY <2>2 DEF Min
    <2> DEFINE at == Min(blanks)
    <2>4. at \in 1..(Len(text) - 1) /\ text[at] = LF /\ text[at + 1] = LF
      BY <2>3
    <2>5. ASSUME NEW i \in 1..(at - 1), text[i] = LF, text[i + 1] = LF PROVE FALSE
      <3>1. i \in 1..(Len(text) - 1) /\ ~(at <= i)
        BY <2>1, <2>4, <2>5
      <3> QED
        BY <2>3, <2>5, <3>1
    <2> HIDE DEF at
    <2>6. at # 0
      BY <2>4
    <2> QED
      BY <1>1, <1>3, <2>4, <2>5, <2>6 DEF at
  <1> QED
    BY <1>2, <1>3

\* What is yielded and what is left make up the buffer.
LEMMA EventSplit ==
    ASSUME NEW text \in Texts, NEW at, at = BlankLine(text), at # 0, CROnlyLast(text)
    PROVE  LET event == SubSeq(text, 1, at - 1)
               rest == SubSeq(text, at + 2, Len(text)) IN
           /\ event \in Texts /\ NoCR(event) /\ NoBlank(Append(event, LF))
           /\ rest \in Texts /\ CROnlyLast(rest)
           /\ text = Append(Append(event, LF), LF) \o rest
           /\ EndsInCR(text) <=> EndsInCR(rest)
  <1> DEFINE n == Len(text)
             event == SubSeq(text, 1, at - 1)
             rest == SubSeq(text, at + 2, n)
             ended == Append(event, LF)
             head == Append(ended, LF)
  <1>1. /\ at \in 1..(n - 1) /\ text[at] = LF /\ text[at + 1] = LF /\ n \in Nat
        /\ \A i \in 1..(at - 1) : ~(text[i] = LF /\ text[i + 1] = LF)
    BY FirstBlank DEF Texts
  <1>2. event \in Texts /\ Len(event) = at - 1 /\ \A i \in 1..(at - 1) : event[i] = text[i]
    BY <1>1 DEF Texts
  <1>3. /\ rest \in Texts /\ Len(rest) = n - (at + 1)
        /\ \A i \in 1..(n - (at + 1)) : rest[i] = text[at + 1 + i]
    <2>1. at + 1 \in 0..n /\ (at + 1) + 1 = at + 2
      BY <1>1
    <2> QED
      BY <2>1, RestFacts DEF Texts
  <1> HIDE DEF event, rest, n
  <1>4. LF \in Symbols /\ LF # CR
    BY DEF Symbols, LF, CR
  <1>5. /\ ended \in Texts /\ Len(ended) = at /\ ended[at] = LF
        /\ \A i \in 1..(at - 1) : ended[i] = text[i]
    BY <1>1, <1>2, <1>4 DEF Texts
  <1>6. /\ head \in Texts /\ Len(head) = at + 1 /\ head[at + 1] = LF
        /\ \A i \in 1..at : head[i] = ended[i]
    BY <1>1, <1>4, <1>5 DEF Texts
  <1>7. NoCR(event)
    <2>1. ASSUME NEW i \in 1..(at - 1), text[i] = CR PROVE FALSE
      BY <1>1, <2>1 DEF CROnlyLast, n, Texts
    <2> QED
      BY <1>1, <1>2, <2>1 DEF NoCR, Texts
  <1>8. NoBlank(ended)
    <2>1. ASSUME NEW i \in 1..(at - 1) PROVE ended[i] = text[i] /\ ended[i + 1] = text[i + 1]
      BY <1>1, <1>5
    <2> QED
      BY <1>1, <1>5, <2>1 DEF NoBlank
  <1>9. text = head \o rest
    <2> DEFINE whole == head \o rest
    <2>1. /\ whole \in Seq(Symbols) /\ Len(whole) = (at + 1) + (n - (at + 1))
          /\ \A i \in 1..((at + 1) + (n - (at + 1))) :
                whole[i] = IF i <= at + 1 THEN head[i] ELSE rest[i - (at + 1)]
      <3> HIDE DEF head
      <3>1. Len(head) = at + 1 /\ Len(rest) = n - (at + 1)
        BY <1>3, <1>6
      <3>2. head \in Texts /\ rest \in Texts
        BY <1>3, <1>6, Zenon
      <3>3. /\ whole \in Seq(Symbols) /\ Len(whole) = Len(head) + Len(rest)
            /\ \A i \in 1..(Len(head) + Len(rest)) :
                  whole[i] = IF i <= Len(head) THEN head[i] ELSE rest[i - Len(head)]
        BY <3>2, ConcatProperties, Zenon DEF Texts
      <3> HIDE DEF whole
      <3> QED
        BY <3>1, <3>3
    <2> HIDE DEF whole, head, ended
    <2>2. (at + 1) + (n - (at + 1)) = n
      BY <1>1
    <2>3. ASSUME NEW i \in 1..n PROVE whole[i] = text[i]
      <3>1. whole[i] = IF i <= at + 1 THEN head[i] ELSE rest[i - (at + 1)]
        BY <2>1, <2>2
      <3>2. CASE i <= at - 1
        <4>1. i \in 1..(at - 1) /\ i \in 1..at /\ i <= at + 1
          BY <1>1, <3>2
        <4> QED
          BY <1>5, <1>6, <3>1, <4>1
      <3>3. CASE i = at
        BY <1>1, <1>5, <1>6, <3>1, <3>3
      <3>4. CASE i = at + 1
        BY <1>1, <1>6, <3>1, <3>4
      <3>5. CASE i > at + 1
        <4>1. i - (at + 1) \in 1..(n - (at + 1)) /\ at + 1 + (i - (at + 1)) = i /\ ~(i <= at + 1)
          BY <1>1, <3>5
        <4> QED
          BY <1>3, <3>1, <4>1
      <3>6. i <= at - 1 \/ i = at \/ i = at + 1 \/ i > at + 1
        BY <1>1
      <3> QED
        BY <3>2, <3>3, <3>4, <3>5, <3>6
    <2>4. Len(whole) = n /\ n = Len(text) /\ text \in Seq(Symbols)
      BY <2>1, <2>2 DEF n, Texts
    <2>5. \A i \in 1..Len(whole) : whole[i] = text[i]
      BY <2>3, <2>4
    <2>6. whole = text
      BY <2>1, <2>4, <2>5, SeqEqual
    <2> QED
      BY <2>6 DEF whole
  <1>10. CROnlyLast(rest)
    <2>1. ASSUME NEW i \in 1..(n - (at + 1)), rest[i] = CR PROVE i = Len(rest)
      <3>1. text[at + 1 + i] = CR /\ at + 1 + i \in DOMAIN text
        BY <1>1, <1>3, <2>1 DEF n, Texts
      <3>2. at + 1 + i = n
        BY <3>1 DEF CROnlyLast, n
      <3> QED
        BY <1>1, <1>3, <3>2
    <2>2. DOMAIN rest = 1..(n - (at + 1))
      BY <1>3 DEF Texts
    <2> QED
      BY <2>1, <2>2 DEF CROnlyLast
  <1>11. EndsInCR(text) <=> EndsInCR(rest)
    <2>1. text # <<>> /\ (rest = <<>> <=> n = at + 1)
      BY <1>1, <1>3 DEF n, Texts
    <2>2. CASE n = at + 1
      BY <1>1, <1>4, <2>1, <2>2 DEF EndsInCR, Last, n
    <2>3. CASE n # at + 1
      <3>1. rest[Len(rest)] = text[n]
        <4>1. n - (at + 1) \in 1..(n - (at + 1)) /\ at + 1 + (n - (at + 1)) = n
          BY <1>1, <2>3
        <4> QED
          BY <1>3, <4>1
      <3> QED
        BY <2>1, <2>3, <3>1 DEF EndsInCR, Last, n
    <2> QED
      BY <2>2, <2>3
  <1> QED
    BY <1>2, <1>3, <1>7, <1>8, <1>9, <1>10, <1>11 DEF event, rest, n

\* An event cut off the front leaves a CR at the end where it is.
LEMMA SettledSplit ==
    ASSUME NEW head \in Texts, NEW rest \in Texts,
           EndsInCR(head \o rest) <=> EndsInCR(rest)
    PROVE  Settled(head \o rest) = head \o Settled(rest)
  <1>1. head \o rest \in Texts /\ Settled(rest) \in Texts /\ head \o Settled(rest) \in Texts
    BY SettledCases DEF Texts
  <1>2. CASE EndsInCR(rest)
    <2>1. rest = Append(Settled(rest), CR) /\ CR \in Symbols
      BY <1>2, SettledCases
    <2>2. head \o rest = Append(head \o Settled(rest), CR)
      BY <1>1, <2>1, ConcatAppend DEF Texts
    <2> QED
      BY <1>1, <2>1, <2>2, SettledAppend
  <1>3. CASE ~EndsInCR(rest)
    BY <1>1, <1>3, SettledCases
  <1> QED
    BY <1>2, <1>3

\* Once failed, a reading has failed for good.
LEMMA FailedForGood ==
    ASSUME NEW r, r.yielded.failed, NEW text \in Texts
    PROVE  Read(r, text).yielded = r.yielded
  <1> DEFINE P == {s \in Texts : Read(r, s).yielded = r.yielded}
  <1>1. <<>> \in P
    BY ReadEmpty DEF Texts
  <1>2. ASSUME NEW s \in Texts, NEW c \in Symbols, s \in P PROVE Append(s, c) \in P
    <2> DEFINE q == Read(r, s)
    <2>1. q.yielded = r.yielded /\ q.yielded.failed
      BY <1>2
    <2>2. Read(r, Append(s, c)) = ReadChar(q, c) /\ Append(s, c) \in Texts
      BY ReadAppend, AppendFacts DEF Texts
    <2> HIDE DEF q
    <2>3. \A parts : Yield(q.yielded, parts) = q.yielded
      BY <2>1 DEF Yield
    <2>4. ReadChar(q, c).yielded = q.yielded
      BY <2>3 DEF ReadChar, SecondHalf, LineEnded, LineGrows
    <2> QED
      BY <2>1, <2>2, <2>4
  <1> HIDE DEF P
  <1>3. Texts \subseteq P
    BY <1>1, <1>2, TextSets
  <1> QED
    BY <1>3 DEF P

\* An event is one of three things.
LEMMA Verdicts == \A parts : Verdict(parts) \in {"nothing", "malformed", "frame"}
  BY DEF Verdict

\* An event that is yielded keeps the readers abreast, unless it is malformed:
\* then the reading of the text has failed with the frames yielded so far.
LEMMA EventAbreast ==
    ASSUME NEW f, NEW text \in Texts, NEW buf \in Texts, CROnlyLast(buf), Abreast(text, f, buf),
           NEW at, at = BlankLine(buf), at # 0
    PROVE  LET parts == DataParts(SubSeq(buf, 1, at - 1))
               rest == SubSeq(buf, at + 2, Len(buf)) IN
           IF Verdict(parts) = "malformed"
           THEN Read(Fresh(<<>>), Settled(text)).yielded = [frames |-> f, failed |-> TRUE]
           ELSE Abreast(text, IF Verdict(parts) = "frame" THEN Append(f, parts) ELSE f, rest)
  <1> DEFINE event == SubSeq(buf, 1, at - 1)
             rest == SubSeq(buf, at + 2, Len(buf))
             head == Append(Append(event, LF), LF)
             parts == DataParts(event)
             y == [frames |-> f, failed |-> FALSE]
             r == [yielded |-> Yield(y, parts), parts |-> <<>>, line |-> <<>>, cr |-> FALSE]
  <1>1. /\ event \in Texts /\ NoCR(event) /\ NoBlank(Append(event, LF)) /\ rest \in Texts
        /\ buf = head \o rest /\ (EndsInCR(buf) <=> EndsInCR(rest))
    BY EventSplit
  <1> HIDE DEF event, rest
  <1>2. head \in Texts
    <2>1. LF \in Symbols
      BY DEF Symbols
    <2> QED
      BY <1>1, <2>1, AppendFacts DEF Texts
  <1>3. Read(Fresh(f), head) = r
    BY <1>1, EventRead
  <1> HIDE DEF head, parts
  <1>4. Settled(buf) = head \o Settled(rest) /\ Settled(rest) \in Texts
    BY <1>1, <1>2, SettledSplit, SettledCases
  <1>5. Read(Fresh(f), Settled(buf)) = Read(r, Settled(rest))
    <2> HIDE DEF r
    <2> QED
      BY <1>2, <1>3, <1>4, ReadConcat
  <1>6. SamePoint(Read(Fresh(<<>>), Settled(text)), Read(r, Settled(rest)))
        /\ (EndsInCR(text) <=> EndsInCR(rest))
    BY <1>1, <1>5 DEF Abreast
  <1>7. CASE Verdict(parts) = "malformed"
    <2>1. r.yielded = [frames |-> f, failed |-> TRUE]
      BY <1>7 DEF Yield
    <2> HIDE DEF r
    <2>2. r.yielded.failed
      BY <2>1
    <2>3. Read(r, Settled(rest)).yielded = [frames |-> f, failed |-> TRUE]
      BY <1>4, <2>1, <2>2, FailedForGood
    <2> QED
      BY <1>6, <1>7, <2>3 DEF SamePoint, parts, event
  <1>8. CASE Verdict(parts) = "frame"
    <2>1. r = Fresh(Append(f, parts))
      BY <1>8 DEF Yield, Fresh
    <2> HIDE DEF r
    <2> QED
      BY <1>6, <1>8, <2>1 DEF Abreast, parts, event, rest
  <1>9. CASE Verdict(parts) = "nothing"
    <2>1. r = Fresh(f)
      BY <1>9 DEF Yield, Fresh
    <2> HIDE DEF r
    <2> QED
      BY <1>6, <1>9, <2>1 DEF Abreast, parts, event, rest
  <1> QED
    BY <1>7, <1>8, <1>9, Verdicts

\* What is left at the end of the response means the end of the text.
LEMMA EndAbreast ==
    ASSUME NEW f, NEW text \in Texts, NEW buf \in Texts, CROnlyLast(buf), Abreast(text, f, buf),
           BlankLine(buf) = 0, NEW torn, torn \in {<<>>, <<"bad">>}
    PROVE  /\ Normalized(buf \o torn) \in Texts
           /\ Finished(Read(Fresh(<<>>), text \o torn))
                = Yield([frames |-> f, failed |-> FALSE], DataParts(Normalized(buf \o torn)))
  <1> DEFINE rest == Normalized(buf \o torn)
             y == [frames |-> f, failed |-> FALSE]
  <1>1. "bad" \in Symbols /\ "bad" \notin {CR, LF}
    BY DEF Symbols, CR, LF
  <1>2. torn \in Texts /\ buf \o torn \in Texts
    <2>1. <<>> \in Texts /\ <<"bad">> \in Texts
      BY <1>1 DEF Texts
    <2>2. torn \in Texts
      BY <2>1
    <2> QED
      BY <2>2, ConcatProperties DEF Texts
  <1>3. Read(Fresh(<<>>), text \o torn) = Read(Fresh(f), buf \o torn)
    BY <1>2, AbreastEqual, ReadConcat
  <1>4. rest \in Texts /\ NoCR(rest) /\ SamePoint(Read(Fresh(f), buf \o torn), Read(Fresh(f), rest))
    BY <1>2, NormalizedReads
  <1>5. Finished(Read(Fresh(<<>>), text \o torn)) = Finished(Read(Fresh(f), rest))
    BY <1>3, <1>4 DEF Finished, SamePoint
  <1>6. NoBlank(buf)
    BY FirstBlank
  <1>7. \A s \in Texts : s \o <<>> = s /\ s \o <<"bad">> = Append(s, "bad")
    BY <1>1 DEF Texts
  <1>8. CASE EndsInCR(buf)
    <2> DEFINE s == Settled(buf)
    <2>1. s \in Texts /\ NoCR(s) /\ CR \in Symbols /\ buf = Append(s, CR)
      BY <1>8, SettledCases, CROnlyLastSettled
    <2> HIDE DEF s
    <2>2. NoBlank(s)
      BY <1>6, <2>1, NoBlankAppend
    <2>3. CASE torn = <<>>
      <3>1. rest = Append(s, LF)
        BY <1>7, <2>1, <2>3, NormalizedEnd
      <3> HIDE DEF rest
      <3>2. Finished(Read(Fresh(f), rest)) = Yield(y, DataParts(rest))
        BY <2>1, <2>2, <3>1, HeldRestRead
      <3> QED
        BY <1>4, <1>5, <3>2 DEF rest
    <2>4. CASE torn = <<"bad">>
      <3>1. rest = Append(Append(s, LF), "bad")
        BY <1>1, <1>7, <2>1, <2>4, NormalizedEnd
      <3> HIDE DEF rest
      <3>2. Finished(Read(Fresh(f), rest)) = Yield(y, DataParts(rest))
        BY <2>1, <2>2, <3>1, HeldRestRead
      <3> QED
        BY <1>4, <1>5, <3>2 DEF rest
    <2> QED
      BY <2>3, <2>4
  <1>9. CASE ~EndsInCR(buf)
    <2>1. NoCR(buf)
      BY <1>9, SettledCases, CROnlyLastSettled
    <2>2. NoCR(buf \o torn) /\ NoBlank(buf \o torn)
      <3>1. NoCR(Append(buf, "bad")) /\ NoBlank(Append(buf, "bad"))
        BY <1>1, <1>6, <2>1, NoCRAppend, NoBlankAppend
      <3>2. buf \o torn = buf \/ buf \o torn = Append(buf, "bad")
        BY <1>7
      <3> QED
        BY <1>6, <2>1, <3>1, <3>2
    <2>3. rest = buf \o torn
      BY <1>2, <2>2, NormalizedItself
    <2> HIDE DEF rest
    <2>4. Finished(Read(Fresh(f), rest)) = Yield(y, DataParts(rest))
      BY <1>2, <2>2, <2>3, RestRead
    <2> QED
      BY <1>4, <1>5, <2>4 DEF rest
  <1> QED
    BY <1>8, <1>9

-----------------------------------------------------------------------------
(* The invariant.                                                          *)

Meant == Decoded(FALSE, received)

\* While the response is open the decoder and the reader have carried over all
\* that the bytes so far mean.
InStep == lead = Meant.lead /\ Abreast(Meant.text, frames, buffer)

Payloads == {DataParts(text) : text \in Texts}

SseInv ==
    /\ TypeOK /\ frames \in Seq(Payloads)
    /\ status = "open" => InStep
    /\ ChunkingInvisible

\* The text of a whole response: half a character at its end is a torn one.
Torn(l) == IF l THEN <<"bad">> ELSE <<>>

\* The decoder flushed at the end replaces half a character.
LEMMA DecodeFinal ==
    ASSUME NEW h \in BOOLEAN, NEW bytes \in Seq(Alphabet)
    PROVE  LET d == Decoded(h, bytes) IN
           Decode(h, bytes, TRUE).text = d.text \o Torn(d.lead)
  <1> DEFINE d == Decoded(h, bytes)
  <1>1. d.text \in Texts /\ d.lead \in BOOLEAN
    BY DecodedTyped
  <1>2. Decode(h, bytes, TRUE) = IF d.lead THEN [text |-> Append(d.text, "bad"), lead |-> FALSE]
                                 ELSE d
    BY DEF Decode, Decoded
  <1> HIDE DEF d
  <1>3. d.text \o <<"bad">> = Append(d.text, "bad") /\ d.text \o <<>> = d.text
    BY <1>1 DEF Texts
  <1>4. Decode(h, bytes, TRUE).text = d.text \o Torn(d.lead)
    <2>1. CASE d.lead
      <3>1. Decode(h, bytes, TRUE) = [text |-> Append(d.text, "bad"), lead |-> FALSE]
        BY <1>2, <2>1, Zenon
      <3>2. Torn(d.lead) = <<"bad">>
        BY <2>1, Zenon DEF Torn
      <3>3. Decode(h, bytes, TRUE).text = Append(d.text, "bad")
        <4>1. \A r, t, l : r = [text |-> t, lead |-> l] => r.text = t
          OBVIOUS
        <4> QED
          BY <3>1, <4>1, Zenon
      <3> QED
        BY <1>3, <3>2, <3>3, Zenon
    <2>2. CASE ~d.lead
      BY <1>2, <1>3, <2>2 DEF Torn
    <2> QED
      BY <2>1, <2>2
  <1> QED
    BY <1>4, Zenon DEF d

\* What the flush adds is text.
LEMMA TornTyped ==
    ASSUME NEW l \in BOOLEAN
    PROVE  Torn(l) \in {<<>>, <<"bad">>} /\ Torn(l) \in Texts
  BY DEF Torn, Texts, Symbols

\* The types in the terms of this module.
LEMMA BufferTyped ==
    ASSUME TypeOK
    PROVE  /\ buffer \in Texts /\ CROnlyLast(buffer)
           /\ received \in Seq(Alphabet) /\ lead \in BOOLEAN
  BY DEF TypeOK, Texts, Symbols, CROnlyLast

\* What the frames of a response are compared with.
LEMMA MeantAtEnd ==
    ASSUME received \in Seq(Alphabet)
    PROVE  Reading(Decode(FALSE, received, TRUE).text)
             = Read(Fresh(<<>>), Meant.text \o Torn(Meant.lead))
  BY DecodeFinal, Zenon DEF Reading, Read, Meant

\* A delivery does to the frames what the reader does to what it has yielded.
LEMMA DeliverYields ==
    ASSUME NEW parts \in Payloads, NEW next \in {"open", "ended"}, Deliver(parts, next),
           TypeOK, frames \in Seq(Payloads)
    PROVE  LET y == Yield([frames |-> frames, failed |-> FALSE], parts) IN
           /\ frames' = y.frames /\ (status' = "malformed" <=> y.failed)
           /\ status' \in {next, "malformed"}
           /\ frames' \in Seq(Payloads)
           /\ \A i \in DOMAIN frames' : Verdict(frames'[i]) = "frame"
  <1>1. /\ frames' = IF Verdict(parts) = "frame" THEN Append(frames, parts) ELSE frames
        /\ status' = IF Verdict(parts) = "malformed" THEN "malformed" ELSE next
    BY DEF Deliver
  <1>2. \A i \in DOMAIN frames : Verdict(frames[i]) = "frame"
    BY DEF TypeOK
  <1>3. /\ Append(frames, parts) \in Seq(Payloads)
        /\ DOMAIN Append(frames, parts) = DOMAIN frames \cup {Len(frames) + 1}
        /\ Append(frames, parts)[Len(frames) + 1] = parts
        /\ \A i \in DOMAIN frames : Append(frames, parts)[i] = frames[i]
    BY AppendFacts
  <1>4. CASE Verdict(parts) = "frame"
    <2>1. \A i \in DOMAIN frames' : Verdict(frames'[i]) = "frame"
      BY <1>1, <1>2, <1>3, <1>4
    <2> QED
      BY <1>1, <1>3, <1>4, <2>1 DEF Yield
  <1>5. CASE Verdict(parts) = "nothing"
    BY <1>1, <1>2, <1>5 DEF Yield
  <1>6. CASE Verdict(parts) = "malformed"
    BY <1>1, <1>2, <1>6 DEF Yield
  <1> QED
    BY <1>4, <1>5, <1>6, Verdicts

\* A chunk moves both readers by the text it decodes to.
LEMMA ChunkKeeps ==
    ASSUME SseInv, NEW n \in 1..(MaxBytes - Len(received)), NEW chunk \in [1..n -> Alphabet],
           ChunkArrives(chunk)
    PROVE  SseInv'
  <1> DEFINE d == Decoded(FALSE, received)
             e == Decoded(lead, chunk)
  <1>1. /\ buffer \in Texts /\ CROnlyLast(buffer) /\ received \in Seq(Alphabet)
        /\ lead \in BOOLEAN /\ TypeOK
    BY BufferTyped DEF SseInv
  <1>2. chunk \in Seq(Alphabet) /\ Len(chunk) = n
    BY <1>1, BoundsAssumption
  <1>3. status = "open" /\ InStep
    BY DEF ChunkArrives, AtResponse, SseInv
  <1>4. d.text \in Texts /\ d.lead = lead /\ e.text \in Texts /\ e.lead \in BOOLEAN
    BY <1>1, <1>2, <1>3, DecodedTyped DEF InStep, Meant
  <1>5. Decode(lead, chunk, FALSE) = e
    BY DEF Decode, Decoded
  <1>6. /\ received' = received \o chunk /\ lead' = e.lead
        /\ buffer' = NormalizedButLast(buffer \o e.text)
        /\ frames' = frames /\ status' = status
    BY <1>5, Zenon DEF ChunkArrives
  <1>7. Decoded(FALSE, received \o chunk) = [text |-> d.text \o e.text, lead |-> e.lead]
    BY <1>1, <1>2, <1>4, DecodedConcat, Zenon DEF DecodesOn
  <1> HIDE DEF d, e
  <1>8. Meant'.text = d.text \o e.text /\ Meant'.lead = e.lead
    <2>1. Meant' = Decoded(FALSE, received \o chunk)
      BY <1>6 DEF Meant
    <2>2. Meant' = [text |-> d.text \o e.text, lead |-> e.lead]
      BY <1>7, <2>1, Zenon
    <2> QED
      BY <2>2
  <1>9. Abreast(d.text, frames, buffer)
    BY <1>3 DEF InStep, Meant, d
  <1>10. buffer' \in Texts /\ CROnlyLast(buffer') /\ Abreast(d.text \o e.text, frames, buffer')
    BY <1>1, <1>4, <1>6, <1>9, ChunkAbreast
  <1>11. received' \in Seq(Alphabet) /\ Len(received') <= MaxBytes
    <2>1. received' \in Seq(Alphabet) /\ Len(received') = Len(received) + Len(chunk)
      BY <1>1, <1>2, <1>6, ConcatProperties
    <2> QED
      BY <1>1, <1>2, <2>1, BoundsAssumption
  <1>12. TypeOK'
    BY <1>1, <1>4, <1>6, <1>10, <1>11 DEF TypeOK, Texts, Symbols, CROnlyLast
  <1>13. InStep'
    BY <1>6, <1>8, <1>10 DEF InStep
  <1>14. ChunkingInvisible'
    BY <1>3, <1>6 DEF ChunkingInvisible
  <1> QED
    BY <1>6, <1>12, <1>13, <1>14 DEF SseInv

\* An event yielded moves the second reader past it; a malformed one stops both.
LEMMA EventKeeps ==
    ASSUME SseInv, EventYielded
    PROVE  SseInv'
  <1> DEFINE at == BlankLine(buffer)
             event == SubSeq(buffer, 1, at - 1)
             rest == SubSeq(buffer, at + 2, Len(buffer))
             parts == DataParts(event)
             y == Yield([frames |-> frames, failed |-> FALSE], parts)
  <1>1. /\ buffer \in Texts /\ CROnlyLast(buffer) /\ received \in Seq(Alphabet)
        /\ lead \in BOOLEAN /\ TypeOK /\ frames \in Seq(Payloads)
    BY BufferTyped DEF SseInv
  <1>2. status = "open" /\ InStep /\ at # 0
    BY DEF EventYielded, SseInv
  <1>3. Meant.text \in Texts /\ Meant.lead = lead /\ Abreast(Meant.text, frames, buffer)
    BY <1>1, <1>2, DecodedTyped DEF InStep, Meant
  <1>4. event \in Texts /\ rest \in Texts /\ CROnlyLast(rest)
    BY <1>1, <1>2, EventSplit
  <1>5. IF Verdict(parts) = "malformed"
        THEN Read(Fresh(<<>>), Settled(Meant.text)).yielded = [frames |-> frames, failed |-> TRUE]
        ELSE Abreast(Meant.text,
                     IF Verdict(parts) = "frame" THEN Append(frames, parts) ELSE frames, rest)
    BY <1>1, <1>2, <1>3, EventAbreast
  <1>6. buffer' = rest /\ Deliver(parts, "open") /\ received' = received /\ lead' = lead
    BY Zenon DEF EventYielded
  <1>7. parts \in Payloads
    BY <1>4 DEF Payloads
  <1> HIDE DEF at, event, rest, parts
  <1>8. /\ frames' = y.frames /\ (status' = "malformed" <=> y.failed)
        /\ status' \in {"open", "malformed"} /\ frames' \in Seq(Payloads)
        /\ \A i \in DOMAIN frames' : Verdict(frames'[i]) = "frame"
    BY <1>1, <1>6, <1>7, DeliverYields
  <1>9. Meant' = Meant
    BY <1>6 DEF Meant
  <1>10. TypeOK'
    BY <1>1, <1>4, <1>6, <1>8 DEF TypeOK, Texts, Symbols, CROnlyLast
  <1>11. CASE Verdict(parts) = "malformed"
    <2>1. y = [frames |-> frames, failed |-> TRUE]
      BY <1>11 DEF Yield
    <2>2. frames' = frames /\ status' = "malformed"
      BY <1>8, <2>1
    <2> DEFINE whole == Meant.text \o Torn(Meant.lead)
    <2>3. Read(Fresh(<<>>), whole).yielded = [frames |-> frames, failed |-> TRUE]
      <3> DEFINE s == Settled(Meant.text)
                 r == Read(Fresh(<<>>), s)
      <3>1. r.yielded = [frames |-> frames, failed |-> TRUE]
        BY <1>5, <1>11
      <3>2. s \in Texts /\ Torn(Meant.lead) \in Texts
        BY <1>1, <1>3, SettledCases, TornTyped
      <3>3. Read(Fresh(<<>>), Meant.text).yielded = r.yielded
        <4>1. CASE EndsInCR(Meant.text)
          <5>1. Meant.text = Append(s, CR) /\ CR \in Symbols
            BY <1>3, <4>1, SettledCases
          <5>2. <<CR>> \in Texts /\ Append(s, CR) = s \o <<CR>>
            BY <3>2, <5>1 DEF Texts
          <5>3. Read(Fresh(<<>>), Meant.text) = Read(r, <<CR>>)
            <6> HIDE DEF s
            <6>1. Read(Fresh(<<>>), s \o <<CR>>) = Read(r, <<CR>>)
              BY <3>2, <5>2, ReadConcat
            <6> QED
              BY <5>1, <5>2, <6>1
          <5> HIDE DEF r
          <5> QED
            BY <3>1, <5>2, <5>3, FailedForGood
        <4>2. CASE ~EndsInCR(Meant.text)
          BY <1>3, <4>2, SettledCases
        <4> QED
          BY <4>1, <4>2
      <3> DEFINE q == Read(Fresh(<<>>), Meant.text)
      <3>4. Read(Fresh(<<>>), whole) = Read(q, Torn(Meant.lead))
        BY <1>3, <3>2, ReadConcat
      <3>5. q.yielded = [frames |-> frames, failed |-> TRUE]
        BY <3>1, <3>3
      <3> HIDE DEF q, whole
      <3> QED
        BY <3>2, <3>4, <3>5, FailedForGood
    <2>4. Finished(Read(Fresh(<<>>), whole)) = [frames |-> frames, failed |-> TRUE]
      <3> HIDE DEF whole
      <3> QED
        BY <2>3 DEF Finished, Yield
    <2>5. Finished(Reading(Decode(FALSE, received, TRUE).text)) = [frames |-> frames, failed |-> TRUE]
      BY <1>1, <2>4, MeantAtEnd
    <2>6. ChunkingInvisible'
      <3> DEFINE meant == Finished(Reading(Decode(FALSE, received, TRUE).text))
      <3>1. meant = [frames |-> frames, failed |-> TRUE]
        BY <2>5, Zenon
      <3>2. meant' = meant
        BY <1>6
      <3> HIDE DEF meant
      <3>3. frames' = meant'.frames /\ meant'.failed /\ status' = "malformed"
        <4>1. meant' = [frames |-> frames, failed |-> TRUE]
          BY <3>1, <3>2, Zenon
        <4> QED
          BY <2>2, <4>1
      <3> QED
        BY <3>3 DEF meant, ChunkingInvisible
    <2> QED
      BY <1>8, <1>10, <2>2, <2>6 DEF SseInv
  <1>12. CASE Verdict(parts) # "malformed"
    <2>1. /\ frames' = IF Verdict(parts) = "frame" THEN Append(frames, parts) ELSE frames
          /\ status' = "open"
      BY <1>6, <1>12 DEF Deliver
    <2>2. Abreast(Meant.text, frames', rest)
      BY <1>5, <1>12, <2>1
    <2>3. InStep'
      BY <1>3, <1>6, <1>9, <2>2 DEF InStep
    <2>4. ChunkingInvisible'
      BY <2>1 DEF ChunkingInvisible
    <2> QED
      BY <1>8, <1>10, <2>3, <2>4 DEF SseInv
  <1> QED
    BY <1>11, <1>12

\* The flush yields what the end of the response means.
LEMMA EndKeeps ==
    ASSUME SseInv, ResponseEnds
    PROVE  SseInv'
  <1> DEFINE rest == Flushed(buffer \o Decode(lead, <<>>, TRUE).text)
             y == Yield([frames |-> frames, failed |-> FALSE], DataParts(rest))
             whole == Meant.text \o Torn(Meant.lead)
  <1>1. /\ buffer \in Texts /\ CROnlyLast(buffer) /\ received \in Seq(Alphabet)
        /\ lead \in BOOLEAN /\ TypeOK /\ frames \in Seq(Payloads)
    BY BufferTyped DEF SseInv
  <1>2. status = "open" /\ InStep /\ BlankLine(buffer) = 0
    BY DEF ResponseEnds, AtResponse, SseInv
  <1>3. Meant.text \in Texts /\ Meant.lead = lead /\ Abreast(Meant.text, frames, buffer)
    BY <1>1, <1>2, DecodedTyped DEF InStep, Meant
  <1>4. Decode(lead, <<>>, TRUE).text = Torn(lead)
    <2>1. Decoded(lead, <<>>) = [text |-> <<>>, lead |-> lead]
      BY Decoder!FoldEmpty DEF Decoded
    <2>2. Decode(lead, <<>>, TRUE).text = Decoded(lead, <<>>).text \o Torn(Decoded(lead, <<>>).lead)
      <3>1. <<>> \in Seq(Alphabet)
        OBVIOUS
      <3> QED
        BY <1>1, <3>1, DecodeFinal
    <2>3. <<>> \o Torn(lead) = Torn(lead)
      BY <1>1, TornTyped DEF Texts
    <2>4. Decoded(lead, <<>>).text = <<>> /\ Decoded(lead, <<>>).lead = lead
      BY <2>1
    <2> QED
      BY <2>2, <2>3, <2>4
  <1>5. rest = Normalized(buffer \o Torn(Meant.lead))
    BY <1>3, <1>4, Zenon DEF Flushed
  <1>6. rest \in Texts /\ Finished(Read(Fresh(<<>>), whole)) = y
    <2> DEFINE torn == Torn(Meant.lead)
    <2>1. torn \in {<<>>, <<"bad">>}
      BY <1>1, <1>3, TornTyped
    <2>2. rest = Normalized(buffer \o torn) /\ whole = Meant.text \o torn
      BY <1>5
    <2> HIDE DEF torn, rest, whole
    <2>3. /\ Normalized(buffer \o torn) \in Texts
          /\ Finished(Read(Fresh(<<>>), Meant.text \o torn))
               = Yield([frames |-> frames, failed |-> FALSE], DataParts(Normalized(buffer \o torn)))
      <3>1. /\ Meant.text \in Texts /\ buffer \in Texts /\ CROnlyLast(buffer)
            /\ Abreast(Meant.text, frames, buffer) /\ BlankLine(buffer) = 0
            /\ torn \in {<<>>, <<"bad">>}
        BY <1>1, <1>2, <1>3, <2>1, Zenon
      <3>2. \A f, t : \A text, buf \in Texts :
              CROnlyLast(buf) /\ Abreast(text, f, buf) /\ BlankLine(buf) = 0 /\ t \in {<<>>, <<"bad">>}
              => /\ Normalized(buf \o t) \in Texts
                 /\ Finished(Read(Fresh(<<>>), text \o t))
                      = Yield([frames |-> f, failed |-> FALSE], DataParts(Normalized(buf \o t)))
        BY EndAbreast
      <3> QED
        BY <3>1, <3>2, Zenon
    <2> QED
      BY <2>2, <2>3, Zenon
  <1>7. /\ Deliver(IF ToSet(rest) \subseteq {" ", LF, CR} THEN <<>> ELSE DataParts(rest), "ended")
        /\ lead' = FALSE /\ buffer' = <<>> /\ received' = received
    BY Zenon DEF ResponseEnds
  <1> HIDE DEF rest
  <1>8. ToSet(rest) \subseteq {" ", LF, CR} => DataParts(rest) = <<>>
    <2>1. ToSet(rest) \subseteq {" ", LF, CR} => NoData(rest)
      BY DEF ToSet, NoData, LF, CR
    <2> QED
      BY <1>6, <2>1, NoDataParts
  <1>9. Deliver(DataParts(rest), "ended") /\ DataParts(rest) \in Payloads
    BY <1>6, <1>7, <1>8 DEF Payloads
  <1>10. /\ frames' = y.frames /\ (status' = "malformed" <=> y.failed)
         /\ status' \in {"ended", "malformed"} /\ frames' \in Seq(Payloads)
         /\ \A i \in DOMAIN frames' : Verdict(frames'[i]) = "frame"
    BY <1>1, <1>9, DeliverYields
  <1> HIDE DEF y, whole
  <1>11. TypeOK'
    <2>1. buffer' \in Texts /\ CROnlyLast(buffer')
      <3>1. <<>> \in Texts /\ CROnlyLast(<<>>)
        BY DEF Texts, CROnlyLast
      <3> QED
        BY <1>7, <3>1
    <2> QED
      BY <1>1, <1>7, <1>10, <2>1 DEF TypeOK, Texts, Symbols, CROnlyLast
  <1>12. Finished(Reading(Decode(FALSE, received, TRUE).text)) = y
    BY <1>1, <1>6, MeantAtEnd DEF whole
  <1>13. ChunkingInvisible'
    BY <1>7, <1>10, <1>12 DEF ChunkingInvisible
  <1> QED
    BY <1>10, <1>11, <1>13 DEF SseInv

\* The invariant holds at the start and every step keeps it.
LEMMA SseInvariant == Spec => []SseInv
  <1>1. Init => SseInv
    <2> SUFFICES ASSUME Init PROVE SseInv
      OBVIOUS
    <2>1. /\ received = <<>> /\ lead = FALSE /\ buffer = <<>> /\ frames = <<>> /\ status = "open"
      BY DEF Init
    <2>2. TypeOK /\ frames \in Seq(Payloads)
      <3>1. /\ \A S : <<>> \in Seq(S)
            /\ Len(<<>>) = 0 /\ DOMAIN <<>> = {} /\ 0 <= MaxBytes
        BY BoundsAssumption
      <3>2. frames \in Seq(Payloads)
        BY <2>1, <3>1
      <3>3. TypeOK
        BY <2>1, <3>1 DEF TypeOK
      <3> QED
        BY <3>2, <3>3
    <2>3. Meant = [text |-> <<>>, lead |-> FALSE]
      BY <2>1, Decoder!FoldEmpty DEF Meant, Decoded
    <2>4. Abreast(<<>>, <<>>, <<>>)
      BY DEF Abreast, SamePoint
    <2>5. InStep
      BY <2>1, <2>3, <2>4 DEF InStep
    <2> QED
      BY <2>1, <2>2, <2>5 DEF SseInv, ChunkingInvisible
  <1>2. SseInv /\ [Next]_vars => SseInv'
    <2> SUFFICES ASSUME SseInv, [Next]_vars PROVE SseInv'
      OBVIOUS
    <2>1. CASE BrokenOff
      <3>1. UNCHANGED <<received, lead, buffer, frames>> /\ status' = "broken"
        BY <2>1 DEF BrokenOff
      <3>2. TypeOK'
        BY <3>1 DEF SseInv, TypeOK
      <3> QED
        BY <3>1, <3>2 DEF SseInv, ChunkingInvisible
    <2>2. CASE UNCHANGED vars
      <3>1. TypeOK' /\ ChunkingInvisible'
        BY <2>2 DEF SseInv, TypeOK, ChunkingInvisible, vars
      <3>2. status' = "open" => InStep'
        BY <2>2 DEF SseInv, InStep, Meant, vars
      <3> QED
        BY <2>2, <3>1, <3>2 DEF SseInv, vars
    <2> QED
      BY <2>1, <2>2, ChunkKeeps, EventKeeps, EndKeeps DEF Next
  <1> QED
    BY <1>1, <1>2, PTL DEF Spec

-----------------------------------------------------------------------------
\* Every variable always has its type, and a CR is only ever the last character
\* of the buffer.
THEOREM SseTyped == Spec => []TypeOK
  <1>1. SseInv => TypeOK
    BY DEF SseInv
  <1> QED
    BY <1>1, SseInvariant, PTL

\* However the bytes of a response were cut into chunks, what is yielded of it
\* and whether it fails is what its bytes mean.
THEOREM CutsDoNotMatter == Spec => []ChunkingInvisible
  <1>1. SseInv => ChunkingInvisible
    BY DEF SseInv
  <1> QED
    BY <1>1, SseInvariant, PTL

\* When the reader waits for bytes, every event completed by those it has had
\* is yielded, but for one that a CR at their very end may still complete.
THEOREM YieldedInTime == Spec => []NothingLags
  <1>1. SseInv => NothingLags
    <2> SUFFICES ASSUME SseInv, AtResponse
                 PROVE  frames = Reading(Settled(Decode(FALSE, received, FALSE).text)).yielded.frames
      BY DEF NothingLags
    <2> DEFINE s == Settled(buffer)
    <2>1. /\ buffer \in Texts /\ CROnlyLast(buffer) /\ received \in Seq(Alphabet)
          /\ Abreast(Meant.text, frames, buffer) /\ BlankLine(buffer) = 0
      BY BufferTyped DEF SseInv, AtResponse, InStep
    <2>2. s \in Texts /\ NoCR(s)
      BY <2>1, SettledCases, CROnlyLastSettled
    <2>3. NoBlank(s)
      <3>1. NoBlank(buffer)
        BY <2>1, FirstBlank
      <3>2. buffer = s \/ (CR \in Symbols /\ buffer = Append(s, CR))
        <4>1. CASE EndsInCR(buffer)
          <5>1. s \in Texts /\ CR \in Symbols /\ buffer = Append(s, CR)
            BY <2>1, <4>1, SettledCases
          <5> QED
            BY <5>1, Zenon
        <4>2. CASE ~EndsInCR(buffer)
          <5>1. s = buffer
            BY <2>1, <4>2, SettledCases
          <5> QED
            BY <5>1, Zenon
        <4> QED
          BY <4>1, <4>2
      <3> HIDE DEF s
      <3> QED
        BY <2>2, <3>1, <3>2, NoBlankAppend
    <2>4. Read(Fresh(frames), s).yielded.frames = frames
      BY <2>2, <2>3, EventGathered DEF WithinEvent
    <2>5. Read(Fresh(<<>>), Settled(Meant.text)).yielded = Read(Fresh(frames), s).yielded
      BY <2>1 DEF Abreast, SamePoint
    <2>6. Decode(FALSE, received, FALSE) = Meant
      BY DEF Decode, Decoded, Meant
    <2> QED
      BY <2>4, <2>5, <2>6, Zenon DEF Reading, Read
  <1> QED
    BY <1>1, SseInvariant, PTL
=============================================================================

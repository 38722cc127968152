-------------------------- MODULE JobOutputsProofs --------------------------
(***************************************************************************)
(* Theorems about JobOutputs, for every content of the log, every size of  *)
(* a page, any number of clients and of attempts.  What a follower prints  *)
(* is about decoding, which is recursive: the first section proves what    *)
(* the decoder does by induction over the bytes, which NatSetInduction     *)
(* makes available, the second what a page does, and the state machine     *)
(* comes after them.                                                       *)
(***************************************************************************)
EXTENDS JobOutputs, SequenceTheorems, WellFoundedInduction, TLAPS

-----------------------------------------------------------------------------
(* The decoder.                                                             *)

\* Induction over the natural numbers, for a set.
LEMMA NatSetInduction ==
  ASSUME NEW S, 0 \in S, \A n \in Nat : n \in S => n + 1 \in S
  PROVE  Nat \subseteq S
<1> DEFINE T == Nat \ S
           R == {ss \in Nat \X Nat : ss[1] < ss[2]}
<1>1. SUFFICES ASSUME T # {} PROVE FALSE
  OBVIOUS
<1>2. IsWellFoundedOn(R, Nat)
  BY NatLessThanWellFounded DEF OpToRel
<1>3. PICK x \in T : \A y \in T : <<y, x>> \notin R
  <2>1. T \subseteq Nat
    OBVIOUS
  <2> HIDE DEF T, R
  <2>2. QED
    BY <1>1, <1>2, <2>1, WFMin
<1>4. x \in Nat /\ x # 0 /\ x - 1 \in Nat /\ x - 1 < x
  BY SMT
<1>5. x - 1 \in S
  BY <1>3, <1>4
<1>6. QED
  BY <1>4, <1>5

\* The decoder before the first byte, and Decode with its function named.
Start == [text |-> <<>>, waiting |-> 0]

Decoder(bytes) ==
  CHOOSE d : d = [n \in 0..Len(bytes) |->
    IF n = 0 THEN [text |-> <<>>, waiting |-> 0]
             ELSE Feed(d[n-1], bytes[n])]

\* Decode is the last value of that function.
LEMMA DecodeIsDecoder ==
  ASSUME NEW bytes PROVE Decode(bytes) = Decoder(bytes)[Len(bytes)]
BY DEF Decode, Decoder

\* The function that Decode chooses exists, and obeys its equations.
LEMMA DecoderRec ==
  ASSUME NEW s \in Seq(Byte)
  PROVE  /\ Decoder(s)[0] = Start
         /\ \A n \in 1..Len(s) : Decoder(s)[n] = Feed(Decoder(s)[n-1], s[n])
<1> DEFINE Body(f, n) == [i \in 0..n |-> IF i = 0 THEN Start
                                                   ELSE Feed(f[i-1], s[i])]
           H == {n \in Nat : \E f : f = Body(f, n)}
<1>1. 0 \in H
  <2>1. [i \in 0..0 |-> Start] = Body([i \in 0..0 |-> Start], 0)
    OBVIOUS
  <2> QED BY <2>1
<1>2. ASSUME NEW n \in Nat, n \in H PROVE n + 1 \in H
  <2>1. PICK f : f = Body(f, n)
    BY <1>2
  <2> DEFINE g == [i \in 0..(n+1) |-> IF i <= n THEN f[i]
                                                 ELSE Feed(f[n], s[n+1])]
  <2> HIDE DEF Body
  <2>2. \A i \in 0..n : f[i] = IF i = 0 THEN Start ELSE Feed(f[i-1], s[i])
    BY <2>1 DEF Body
  <2>3. ASSUME NEW i \in 0..(n+1)
        PROVE  g[i] = IF i = 0 THEN Start ELSE Feed(g[i-1], s[i])
    <3>1. CASE i = 0
      BY <2>2, <3>1
    <3>2. CASE i # 0 /\ i <= n
      BY <2>2, <3>2
    <3>3. CASE i = n + 1
      BY <3>3
    <3> QED BY <3>1, <3>2, <3>3
  <2>4. g = Body(g, n+1)
    BY <2>3 DEF Body
  <2> QED BY <2>4
<1>3. Nat \subseteq H
  <2> HIDE DEF H
  <2> QED BY <1>1, <1>2, NatSetInduction
<1>4. Len(s) \in Nat
  OBVIOUS
<1>5. \E f : f = Body(f, Len(s))
  BY <1>3, <1>4
<1>6. Decoder(s) = Body(Decoder(s), Len(s))
  BY <1>5 DEF Decoder, Start
<1>7. QED BY <1>4, <1>6

\* What the decoder has read decides what it has made of it.
LEMMA SamePrefix ==
  ASSUME NEW s \in Seq(Byte), NEW t \in Seq(Byte), NEW k \in Nat,
         k <= Len(s), k <= Len(t), \A i \in 1..k : s[i] = t[i]
  PROVE  Decoder(s)[k] = Decoder(t)[k]
<1> DEFINE H == {n \in Nat : n <= k => Decoder(s)[n] = Decoder(t)[n]}
<1>1. 0 \in H
  BY DecoderRec
<1>2. ASSUME NEW n \in Nat, n \in H PROVE n + 1 \in H
  <2>1. CASE n + 1 <= k
    <3>1. n + 1 \in 1..Len(s) /\ n + 1 \in 1..Len(t) /\ n + 1 \in 1..k
      BY <2>1
    <3>2. /\ Decoder(s)[n+1] = Feed(Decoder(s)[n], s[n+1])
          /\ Decoder(t)[n+1] = Feed(Decoder(t)[n], t[n+1])
      BY <3>1, DecoderRec
    <3>3. QED
      BY <1>2, <2>1, <3>1, <3>2
  <2>2. QED
    BY <2>1
<1>3. Nat \subseteq H
  <2> HIDE DEF H
  <2> QED BY <1>1, <1>2, NatSetInduction
<1>4. QED
  BY <1>3

\* The bytes of the job from the a-th to the n-th, and the decoder that has
\* been started at a and has read up to n.
Piece(a, n) == SubSeq(Content, a + 1, n)
From(a, n) == Decode(Piece(a, n))

\* A piece has the bytes of its place.
LEMMA PieceType ==
  ASSUME NEW a \in 0..Len(Content), NEW n \in a..Len(Content)
  PROVE  /\ Piece(a, n) \in Seq(Byte) /\ Len(Piece(a, n)) = n - a
         /\ \A i \in 1..(n - a) : Piece(a, n)[i] = Content[a + i]
<1>1. Content \in Seq(Byte) /\ Len(Content) \in Nat
  BY OutputsAssumption
<1>2. \A i \in (a + 1)..n : Content[i] \in Byte
  BY <1>1
<1>3. a \in Nat /\ n \in Nat /\ a <= n
  BY <1>1
<1>4. /\ Piece(a, n) \in Seq(Byte)
      /\ Len(Piece(a, n)) = IF a + 1 <= n THEN n - (a + 1) + 1 ELSE 0
      /\ \A i \in 1..(n - (a + 1) + 1) :
           Piece(a, n)[i] = Content[(a + 1) + i - 1]
  BY <1>2, <1>3, SubSeqProperties DEF Piece
<1>5. QED
  BY <1>3, <1>4

\* A decoder that has read nothing.
LEMMA FromStart ==
  ASSUME NEW a \in 0..Len(Content) PROVE From(a, a) = Start
<1>1. a \in a..Len(Content)
  BY OutputsAssumption
<1>2. Piece(a, a) \in Seq(Byte) /\ Len(Piece(a, a)) = 0
  BY <1>1, PieceType, OutputsAssumption
<1>3. QED
  BY <1>2, DecoderRec, DecodeIsDecoder DEF From

\* It goes on byte by byte.
LEMMA FromStep ==
  ASSUME NEW a \in 0..Len(Content), NEW n \in a..Len(Content), n < Len(Content)
  PROVE  From(a, n + 1) = Feed(From(a, n), Content[n + 1])
<1>0. /\ Len(Content) \in Nat /\ a \in Nat /\ n \in Nat
      /\ n + 1 \in a..Len(Content)
  BY OutputsAssumption
<1> DEFINE s == Piece(a, n)
           t == Piece(a, n + 1)
<1>1. /\ s \in Seq(Byte) /\ Len(s) = n - a
      /\ \A i \in 1..(n - a) : s[i] = Content[a + i]
  BY PieceType
<1>2. /\ t \in Seq(Byte) /\ Len(t) = n + 1 - a
      /\ \A i \in 1..(n + 1 - a) : t[i] = Content[a + i]
  BY <1>0, PieceType
<1> HIDE DEF s, t
<1>3. Decoder(s)[n - a] = Decoder(t)[n - a]
  BY <1>0, <1>1, <1>2, SamePrefix
<1>4. /\ Decoder(t)[n + 1 - a] = Feed(Decoder(t)[n + 1 - a - 1], t[n + 1 - a])
      /\ n + 1 - a - 1 = n - a /\ t[n + 1 - a] = Content[n + 1]
  BY <1>0, <1>2, DecoderRec
<1>5. QED
  BY <1>1, <1>2, <1>3, <1>4, DecodeIsDecoder DEF From, s, t

States == [text : Seq(Glyphs), waiting : 0..2]

\* The characters that a byte ends are characters.
LEMMA EndsType ==
  ASSUME NEW w \in 0..2, NEW b \in Byte
  PROVE  Ends(w, b) \in Seq(Glyphs)
<1> DEFINE cut == IF w > 0 THEN <<"bad">> ELSE <<>>
<1>1. /\ <<"bad">> \in Seq(Glyphs) /\ <<"wide">> \in Seq(Glyphs)
      /\ <<"narrow">> \in Seq(Glyphs) /\ <<>> \in Seq(Glyphs)
  BY EmptySeq DEF Glyphs
<1>2. cut \in Seq(Glyphs)
  BY <1>1
<1>3. cut \o <<"narrow">> \in Seq(Glyphs)
  <2> HIDE DEF cut
  <2> QED BY <1>1, <1>2, ConcatProperties
<1>4. QED
  BY <1>1, <1>2, <1>3 DEF Ends

\* One more byte: the decoder is in a state, with one more byte waiting at
\* most.
LEMMA FeedType ==
  ASSUME NEW d \in States, NEW b \in Byte
  PROVE  Feed(d, b) \in States /\ Feed(d, b).waiting <= d.waiting + 1
<1>1. d.text \in Seq(Glyphs) /\ d.waiting \in 0..2
  BY DEF States
<1>2. d.text \o Ends(d.waiting, b) \in Seq(Glyphs)
  BY <1>1, EndsType, ConcatProperties
<1>3. QED
  BY <1>1, <1>2 DEF Feed, States

\* The decoder is always in one of its states.
LEMMA FromType ==
  ASSUME NEW a \in 0..Len(Content), NEW n \in a..Len(Content)
  PROVE  From(a, n) \in States /\ From(a, n).waiting <= n - a
<1>0. Len(Content) \in Nat /\ a \in Nat /\ n \in Nat /\ Content \in Seq(Byte)
  BY OutputsAssumption
<1> DEFINE H == {i \in Nat : a + i <= Len(Content) =>
                   From(a, a + i) \in States /\ From(a, a + i).waiting <= i}
<1>1. 0 \in H
  <2>1. From(a, a + 0) = Start
    BY <1>0, FromStart
  <2>2. Start \in States /\ Start.waiting = 0
    BY EmptySeq DEF Start, States
  <2>3. QED
    BY <2>1, <2>2
<1>2. ASSUME NEW i \in Nat, i \in H PROVE i + 1 \in H
  <2>1. SUFFICES ASSUME a + (i + 1) <= Len(Content)
                 PROVE  /\ From(a, a + (i + 1)) \in States
                        /\ From(a, a + (i + 1)).waiting <= i + 1
    OBVIOUS
  <2>2. From(a, a + i) \in States /\ From(a, a + i).waiting <= i
    BY <1>0, <1>2, <2>1
  <2>3. From(a, a + i + 1) = Feed(From(a, a + i), Content[a + i + 1])
    BY <1>0, <2>1, FromStep
  <2>4. a + i + 1 = a + (i + 1) /\ Content[a + i + 1] \in Byte
    BY <1>0, <2>1
  <2>5. /\ Feed(From(a, a + i), Content[a + i + 1]) \in States
        /\ Feed(From(a, a + i), Content[a + i + 1]).waiting
             <= From(a, a + i).waiting + 1
    BY <2>2, <2>4, FeedType
  <2>6. From(a, a + (i + 1)).waiting \in Int /\ From(a, a + i).waiting \in Int
    BY <2>2, <2>3, <2>4, <2>5 DEF States
  <2>7. QED
    BY <2>2, <2>3, <2>4, <2>5, <2>6
<1>3. Nat \subseteq H
  <2> HIDE DEF H
  <2> QED BY <1>1, <1>2, NatSetInduction
<1>4. n - a \in H /\ a + (n - a) = n
  BY <1>0, <1>3
<1>5. QED
  BY <1>0, <1>4

\* No character of the content is cut off by another one: its first byte is
\* followed by its other two, as far as there are bytes.
Unbroken ==
  \A i \in 1..Len(Content) : Content[i] = "lead" =>
    \A k \in 1..2 : i + k <= Len(Content) => Content[i + k] = "trail"

\* What waits are the last bytes.
Hangs(a, n) ==
  \A p \in Nat : From(a, n).waiting > 0 /\ p + From(a, n).waiting = n =>
    /\ p >= a /\ Content[p + 1] = "lead"
    /\ From(a, p).text = From(a, n).text /\ From(a, p).waiting = 0

\* What a byte does to the bytes that wait.
LEMMA FeedCases ==
  ASSUME NEW d \in States, NEW b \in Byte
  PROVE  /\ b = "char" => Feed(d, b).waiting = 0
         /\ b = "lead" => Feed(d, b).waiting = 1
         /\ b = "lead" /\ d.waiting = 0 => Feed(d, b).text = d.text
         /\ b = "trail" /\ d.waiting # 1 => Feed(d, b).waiting = 0
         /\ b = "trail" /\ d.waiting = 1 =>
              Feed(d, b).waiting = 2 /\ Feed(d, b).text = d.text
<1>1. d.text \in Seq(Glyphs) /\ d.text \o <<>> = d.text
  BY ConcatEmptySeq DEF States
<1>2. /\ b = "lead" /\ d.waiting = 0 => Ends(d.waiting, b) = <<>>
      /\ b = "trail" /\ d.waiting = 1 => Ends(d.waiting, b) = <<>>
  BY DEF Ends
<1>3. QED
  BY <1>1, <1>2 DEF Feed

\* The bytes that wait are the last ones, and without them the text is the
\* same and nothing waits.
LEMMA Hanging ==
  ASSUME Unbroken, NEW a \in 0..Len(Content), NEW n \in a..Len(Content)
  PROVE  Hangs(a, n)
<1>0. Len(Content) \in Nat /\ a \in Nat /\ n \in Nat /\ Content \in Seq(Byte)
  BY OutputsAssumption
<1> DEFINE H == {i \in Nat : a + i <= Len(Content) => Hangs(a, a + i)}
<1>1. 0 \in H
  <2>1. From(a, a + 0) = Start
    BY <1>0, FromStart
  <2>2. QED
    BY <2>1 DEF Start, Hangs
<1>2. ASSUME NEW i \in Nat, i \in H PROVE i + 1 \in H
  <2>1. SUFFICES ASSUME a + (i + 1) <= Len(Content)
                 PROVE  Hangs(a, a + (i + 1))
    OBVIOUS
  <2> DEFINE m == a + i
             w == From(a, m).waiting
             b == Content[m + 1]
  <2>2. m \in a..Len(Content) /\ m \in Nat /\ m < Len(Content) /\ Hangs(a, m)
    BY <1>0, <1>2, <2>1
  <2>3. From(a, m + 1) = Feed(From(a, m), b) /\ m + 1 = a + (i + 1)
    BY <1>0, <2>2, FromStep
  <2>4. From(a, m) \in States /\ w \in 0..2 /\ w <= m - a
    BY <2>2, FromType DEF States
  <2>5. b \in Byte
    BY <1>0, <2>2
  <2> HIDE DEF m, w, b
  <2>6. CASE b = "char"
    BY <2>3, <2>4, <2>6, <2>5, FeedCases DEF Hangs
  <2>7. CASE b = "lead"
    <3>1. w = 0
      <4>1. SUFFICES ASSUME w # 0 PROVE FALSE
        OBVIOUS
      <4>2. PICK p \in Nat : p + w = m /\ w \in 1..2
        BY <1>0, <2>2, <2>4, <4>1
      <4>3. Content[p + 1] = "lead" /\ p + 1 \in 1..Len(Content)
        BY <1>0, <2>2, <4>2 DEF Hangs, w
      <4>4. Content[(p + 1) + w] = "trail" /\ (p + 1) + w = m + 1
        BY <2>2, <4>2, <4>3 DEF Unbroken
      <4>5. QED
        BY <2>7, <4>4 DEF b
    <3>2. From(a, m + 1).waiting = 1 /\ From(a, m + 1).text = From(a, m).text
      BY <2>3, <2>4, <2>5, <2>7, <3>1, FeedCases DEF w
    <3>3. m >= a /\ \A p \in Nat : p + 1 = m + 1 => p = m
      BY <2>2
    <3>4. From(a, m).waiting = 0 /\ Content[m + 1] = "lead"
      BY <2>7, <3>1 DEF b, w
    <3>6. Hangs(a, m + 1)
      BY <3>2, <3>3, <3>4 DEF Hangs
    <3>5. QED
      BY <2>3, <3>6
  <2>8. CASE b = "trail" /\ w # 1
    BY <2>3, <2>4, <2>5, <2>8, FeedCases DEF Hangs, w
  <2>9. CASE b = "trail" /\ w = 1
    <3>1. From(a, m + 1).waiting = 2 /\ From(a, m + 1).text = From(a, m).text
      BY <2>3, <2>4, <2>5, <2>9, FeedCases DEF w
    <3>2. \A p \in Nat : p + 2 = m + 1 =>
            /\ p >= a /\ Content[p + 1] = "lead"
            /\ From(a, p).text = From(a, m).text /\ From(a, p).waiting = 0
      <4>1. SUFFICES ASSUME NEW p \in Nat, p + 2 = m + 1
                     PROVE  /\ p >= a /\ Content[p + 1] = "lead"
                            /\ From(a, p).text = From(a, m).text
                            /\ From(a, p).waiting = 0
        OBVIOUS
      <4>2. p + 1 = m
        BY <2>2, <4>1
      <4>3. QED
        BY <2>2, <2>9, <4>2 DEF Hangs, w
    <3>4. Hangs(a, m + 1)
      BY <3>1, <3>2 DEF Hangs
    <3>5. QED
      BY <2>3, <3>4
  <2>10. QED
    BY <2>5, <2>6, <2>7, <2>8, <2>9 DEF Byte
<1>3. Nat \subseteq H
  <2> HIDE DEF H
  <2> QED BY <1>1, <1>2, NatSetInduction
<1>4. n - a \in Nat /\ a + (n - a) = n
  BY <1>0
<1>5. QED
  BY <1>0, <1>3, <1>4

\* A character ends within two more bytes.
LEMMA Crossing ==
  ASSUME Unbroken, NEW a \in 0..Len(Content), NEW n \in a..Len(Content),
         n + 2 <= Len(Content)
  PROVE  \E e \in 0..2 : From(a, n + e).waiting = 0
<1>0. Len(Content) \in Nat /\ a \in Nat /\ n \in Nat /\ Content \in Seq(Byte)
  BY OutputsAssumption
<1> DEFINE w == From(a, n).waiting
<1>1. From(a, n) \in States /\ w \in 0..2 /\ w <= n - a
  BY FromType DEF States
<1>2. \A p \in Nat : w # 0 /\ p + w = n =>
        Content[p + 1] = "lead" /\ p + 1 \in 1..Len(Content)
  BY <1>0, <1>1, Hanging DEF Hangs
<1>3. /\ From(a, n + 1) = Feed(From(a, n), Content[n + 1])
      /\ Content[n + 1] \in Byte /\ From(a, n + 1) \in States
  BY <1>0, FromStep, FromType
<1>4. From(a, n + 1 + 1) = Feed(From(a, n + 1), Content[n + 1 + 1])
  BY <1>0, FromStep
<1>5. CASE w = 0
  BY <1>0, <1>5
<1>6. CASE w = 1
  <2>1. Content[n + 1] = "trail" /\ Content[n + 1 + 1] = "trail"
    <3>0. n - 1 \in Nat /\ (n - 1) + 1 = n
      BY <1>0, <1>1, <1>6
    <3>1. n \in 1..Len(Content) /\ Content[n] = "lead"
      BY <1>2, <1>6, <3>0
    <3>2. QED
      BY <1>0, <3>1 DEF Unbroken
  <2>2. From(a, n + 1).waiting = 2
    BY <1>1, <1>3, <1>6, <2>1, FeedCases
  <2>3. From(a, n + 1 + 1).waiting = 0
    BY <1>3, <1>4, <2>1, <2>2, FeedCases DEF Byte
  <2>4. QED
    BY <1>0, <2>3
<1>7. CASE w = 2
  <2>1. Content[n + 1] = "trail"
    <3>0. n - 2 \in Nat /\ (n - 2) + 2 = n /\ (n - 2) + 1 = n - 1
      BY <1>0, <1>1, <1>7
    <3>1. n - 1 \in 1..Len(Content) /\ Content[n - 1] = "lead"
      BY <1>2, <1>7, <3>0
    <3>2. n - 1 + 2 = n + 1 /\ 2 \in 1..2
      BY <1>0
    <3>3. QED
      BY <1>0, <3>1, <3>2 DEF Unbroken
  <2>2. From(a, n + 1).waiting = 0
    BY <1>1, <1>3, <1>7, <2>1, FeedCases
  <2>3. QED
    BY <2>2
<1>8. QED
  BY <1>1, <1>5, <1>6, <1>7

\* A decoder that has more text before it does the same.
LEMMA FeedBehind ==
  ASSUME NEW t \in Seq(Glyphs), NEW d \in States, NEW b \in Byte,
         NEW c \in States, c.text = t \o d.text, c.waiting = d.waiting
  PROVE  /\ Feed(c, b).text = t \o Feed(d, b).text
         /\ Feed(c, b).waiting = Feed(d, b).waiting
<1>1. d.text \in Seq(Glyphs) /\ d.waiting \in 0..2
  BY DEF States
<1>2. Ends(d.waiting, b) \in Seq(Glyphs)
  BY <1>1, EndsType
<1>a. \A x, y, z \in Seq(Glyphs) : (x \o y) \o z = x \o (y \o z)
  BY ConcatAssociative
<1>3. (t \o d.text) \o Ends(d.waiting, b) = t \o (d.text \o Ends(d.waiting, b))
  BY <1>1, <1>2, <1>a, Zenon
<1>4. QED
  BY <1>3 DEF Feed

\* Decoding from a to n is decoding to m and anew from there.
Continues(a, m, n) ==
  /\ From(a, n).text = From(a, m).text \o From(m, n).text
  /\ From(a, n).waiting = From(m, n).waiting

\* Where nothing waits, decoding can start anew.
LEMMA Restart ==
  ASSUME NEW a \in 0..Len(Content), NEW m \in a..Len(Content),
         NEW n \in m..Len(Content), From(a, m).waiting = 0
  PROVE  Continues(a, m, n)
<1>0. /\ Len(Content) \in Nat /\ a \in Nat /\ n \in Nat /\ m \in Nat
      /\ m \in 0..Len(Content) /\ Content \in Seq(Byte)
  BY OutputsAssumption
<1>t. From(a, m).text \in Seq(Glyphs)
  BY FromType DEF States
<1> DEFINE H == {i \in Nat : m + i <= Len(Content) => Continues(a, m, m + i)}
<1>1. 0 \in H
  <2>1. From(m, m).text = <<>> /\ From(m, m).waiting = 0
    BY <1>0, FromStart DEF Start
  <2>2. From(a, m).text \o <<>> = From(a, m).text
    BY <1>t, ConcatEmptySeq
  <2>3. Continues(a, m, m)
    BY <2>1, <2>2 DEF Continues
  <2>4. m + 0 = m
    BY <1>0
  <2>5. QED
    BY <2>3, <2>4
<1>2. ASSUME NEW i \in Nat, i \in H PROVE i + 1 \in H
  <2>1. SUFFICES ASSUME m + (i + 1) <= Len(Content)
                 PROVE  Continues(a, m, m + (i + 1))
    OBVIOUS
  <2> DEFINE k == m + i
  <2>2. /\ k \in a..Len(Content) /\ k \in m..Len(Content) /\ k \in Nat
        /\ k < Len(Content) /\ k + 1 = m + (i + 1)
    BY <1>0, <2>1
  <2>3. Continues(a, m, k)
    BY <1>2, <2>2
  <2>4. /\ From(a, k) \in States /\ From(m, k) \in States
        /\ Content[k + 1] \in Byte
    BY <1>0, <2>2, FromType
  <2>5. /\ From(a, k + 1) = Feed(From(a, k), Content[k + 1])
        /\ From(m, k + 1) = Feed(From(m, k), Content[k + 1])
    BY <1>0, <2>2, FromStep
  <2> HIDE DEF k
  <2>6. /\ Feed(From(a, k), Content[k + 1]).text
             = From(a, m).text \o Feed(From(m, k), Content[k + 1]).text
        /\ Feed(From(a, k), Content[k + 1]).waiting
             = Feed(From(m, k), Content[k + 1]).waiting
    BY <1>t, <2>3, <2>4, FeedBehind DEF Continues
  <2>7. Continues(a, m, k + 1)
    BY <2>5, <2>6, Zenon DEF Continues
  <2>8. QED
    BY <2>2, <2>7
<1>3. Nat \subseteq H
  <2> HIDE DEF H
  <2> QED BY <1>1, <1>2, NatSetInduction
<1>4. n - m \in H /\ m + (n - m) = n
  BY <1>0, <1>3
<1>5. QED
  BY <1>0, <1>4

-----------------------------------------------------------------------------
(* Pages.                                                                   *)

\* The smaller of two numbers.
LEMMA MinOfTwo ==
  ASSUME NEW x \in Nat, NEW y \in Nat
  PROVE  Min({x, y}) = IF x <= y THEN x ELSE y
BY DEF Min

\* Min is the smallest of a set of extra bytes.
LEMMA MinUpToThree ==
  ASSUME NEW E, E \subseteq 0..3, 3 \in E
  PROVE  Min(E) \in E /\ \A e \in E : Min(E) <= e
<1>1. \E m \in E : \A e \in E : m <= e
  <2>1. CASE 0 \in E
    BY <2>1
  <2>2. CASE 0 \notin E /\ 1 \in E
    BY <2>2
  <2>3. CASE 0 \notin E /\ 1 \notin E /\ 2 \in E
    BY <2>3
  <2>4. CASE 0 \notin E /\ 1 \notin E /\ 2 \notin E
    BY <2>4
  <2>5. QED
    BY <2>1, <2>2, <2>3, <2>4
<1>2. QED
  BY <1>1 DEF Min

\* The text of a piece with nothing behind it.
LEMMA WholeIs ==
  ASSUME NEW a, NEW n
  PROVE  Whole(Piece(a, n)) = IF From(a, n).waiting > 0
                              THEN Append(From(a, n).text, "bad")
                              ELSE From(a, n).text
BY DEF Whole, From

\* It is a text.
LEMMA WholeType ==
  ASSUME NEW a \in 0..Len(Content), NEW n \in a..Len(Content)
  PROVE  Whole(Piece(a, n)) \in Seq(Glyphs)
<1>1. From(a, n).text \in Seq(Glyphs) /\ "bad" \in Glyphs
  BY FromType DEF States, Glyphs
<1>2. Append(From(a, n).text, "bad") \in Seq(Glyphs)
  BY <1>1, AppendProperties
<1>3. QED
  BY <1>1, <1>2, WholeIs

\* Where nothing waits, the text is that of the two parts.
LEMMA WholeContinues ==
  ASSUME NEW a \in 0..Len(Content), NEW m \in a..Len(Content),
         NEW n \in m..Len(Content), From(a, m).waiting = 0
  PROVE  /\ Whole(Piece(a, m)) = From(a, m).text
         /\ Whole(Piece(a, n)) = From(a, m).text \o Whole(Piece(m, n))
<1>0. m \in 0..Len(Content) /\ n \in a..Len(Content)
  BY OutputsAssumption
<1> DEFINE t == From(a, m).text
           u == From(m, n).text
<1>1. t \in Seq(Glyphs) /\ u \in Seq(Glyphs) /\ From(m, n).waiting \in 0..2
  BY <1>0, FromType DEF States
<1>2. From(a, n).text = t \o u /\ From(a, n).waiting = From(m, n).waiting
  BY Restart DEF Continues
<1>3. \A x \in Seq(Glyphs), y \in Seq(Glyphs) :
        Append(x \o y, "bad") = x \o Append(y, "bad")
  <2>1. \A x \in Seq(Glyphs) : Append(x, "bad") = x \o <<"bad">>
    BY AppendIsConcat DEF Glyphs
  <2>2. <<"bad">> \in Seq(Glyphs)
    BY DEF Glyphs
  <2>3. \A x, y \in Seq(Glyphs) : x \o y \in Seq(Glyphs)
    BY ConcatProperties
  <2>4. \A x, y, z \in Seq(Glyphs) : (x \o y) \o z = x \o (y \o z)
    BY ConcatAssociative
  <2>5. SUFFICES ASSUME NEW x \in Seq(Glyphs), NEW y \in Seq(Glyphs)
                 PROVE  Append(x \o y, "bad") = x \o Append(y, "bad")
    OBVIOUS
  <2>6. Append(x \o y, "bad") = (x \o y) \o <<"bad">>
    BY <2>1, <2>3, Zenon
  <2>7. (x \o y) \o <<"bad">> = x \o (y \o <<"bad">>)
    BY <2>2, <2>4, Zenon
  <2>8. Append(y, "bad") = y \o <<"bad">>
    BY <2>1, Zenon
  <2>9. QED
    BY <2>6, <2>7, <2>8, Zenon
<1>4. Append(t \o u, "bad") = t \o Append(u, "bad")
  BY <1>1, <1>3
<1>t. Whole(Piece(a, m)) = t
  BY WholeIs
<1> HIDE DEF t, u
<1>5. CASE From(m, n).waiting > 0
  <2>1. Whole(Piece(m, n)) = Append(u, "bad")
    BY <1>5, WholeIs DEF u
  <2>2. Whole(Piece(a, n)) = Append(t \o u, "bad")
    BY <1>2, <1>5, WholeIs
  <2>3. QED
    BY <1>4, <1>t, <2>1, <2>2, Zenon DEF t
<1>6. CASE ~ (From(m, n).waiting > 0)
  <2>1. Whole(Piece(m, n)) = u
    BY <1>6, WholeIs DEF u
  <2>2. Whole(Piece(a, n)) = t \o u
    BY <1>2, <1>6, WholeIs
  <2>3. QED
    BY <1>t, <2>1, <2>2, Zenon DEF t
<1>7. QED
  BY <1>5, <1>6

\* What a page without its hanging bytes decodes to.
LEMMA WithoutHanging ==
  ASSUME Unbroken, NEW a \in 0..Len(Content), NEW n \in a..Len(Content)
  PROVE  LET p == n - From(a, n).waiting IN
         /\ p \in a..n /\ From(a, p).waiting = 0
         /\ From(a, p).text = From(a, n).text
<1> DEFINE p == n - From(a, n).waiting
<1>0. Len(Content) \in Nat /\ a \in Nat /\ n \in Nat
  BY OutputsAssumption
<1>1. /\ From(a, n) \in States /\ From(a, n).waiting \in 0..2
      /\ From(a, n).waiting <= n - a
  BY FromType DEF States
<1>2. p \in a..n /\ p \in Nat /\ p + From(a, n).waiting = n
  BY <1>0, <1>1
<1>3. CASE From(a, n).waiting = 0
  BY <1>0, <1>2, <1>3
<1>4. CASE From(a, n).waiting > 0
  <2> HIDE DEF p
  <2>1. From(a, p).text = From(a, n).text /\ From(a, p).waiting = 0
    BY <1>2, <1>4, Hanging DEF Hangs
  <2>2. QED
    BY <1>2, <2>1 DEF p
<1>5. QED
  BY <1>1, <1>3, <1>4

\* A page: the bytes from the offset up to e.
PageUpTo(e) ==
  LET d == From(offset, e) IN
  /\ printed' = printed \o IF saw THEN Whole(Piece(offset, e)) ELSE d.text
  /\ offset' = e - (IF saw THEN 0 ELSE d.waiting)
  /\ reader' = IF offset' = offset /\ saw THEN "ended" ELSE "ask"
  /\ e = offset => offset = len
  /\ Unbroken => d.waiting = 0 \/ e = len

\* What ReadPage does: it takes some bytes more, no further than the file, and
\* nothing of an unbroken content waits at its end but at the end of the file.
LEMMA ReadsPage ==
  ASSUME TypeOK, offset <= len, ReadPage
  PROVE  \E e \in offset..len : PageUpTo(e)
<1> DEFINE Ex(n) == Min({len, offset + n})
           Data(n) == SubSeq(Content, offset + 1, Ex(n))
           E == {e \in 0..3 : \/ Decode(Data(Limit + e)).waiting = 0
                              \/ e = 3 \/ offset + Limit + e >= len}
           extra == Min(E)
           e == Ex(Limit + extra)
           data == Data(Limit + extra)
           d == Decode(data)
<1>0. /\ Len(Content) \in Nat /\ offset \in Nat /\ len \in Nat /\ offset <= len
      /\ len <= Len(Content) /\ Limit \in Nat \ {0}
      /\ offset \in 0..Len(Content)
  BY OutputsAssumption DEF TypeOK
<1>1. extra \in E /\ \A x \in E : extra <= x
  <2>1. E \subseteq 0..3 /\ 3 \in E
    OBVIOUS
  <2> HIDE DEF E
  <2>2. QED
    BY <2>1, MinUpToThree
<1>2. \A n \in Nat : /\ Ex(n) = IF len <= offset + n THEN len ELSE offset + n
                     /\ Decode(Data(n)) = From(offset, Ex(n))
  <2>1. SUFFICES ASSUME NEW n \in Nat
                 PROVE  /\ Ex(n) = IF len <= offset + n THEN len ELSE offset + n
                        /\ Decode(Data(n)) = From(offset, Ex(n))
    OBVIOUS
  <2>2. offset + n \in Nat
    BY <1>0
  <2>3. QED
    BY <1>0, <2>2, MinOfTwo DEF From, Piece
<1>3. /\ printed' = printed \o IF saw THEN Whole(data) ELSE d.text
      /\ offset' = offset + Len(data) - (IF saw THEN 0 ELSE d.waiting)
      /\ reader' = IF offset' = offset /\ saw THEN "ended" ELSE "ask"
  BY DEF ReadPage, Prints, Waiting
<1> HIDE DEF Ex, Data, E, extra
<1>4. extra \in 0..3 /\ Limit + extra \in Nat
  BY <1>0, <1>1 DEF E
<1>5. /\ e = (IF len <= offset + (Limit + extra)
              THEN len ELSE offset + (Limit + extra))
      /\ d = From(offset, e)
  BY <1>2, <1>4
<1>6. /\ e \in offset..len /\ e \in offset..Len(Content)
      /\ e = offset => offset = len
  BY <1>0, <1>4, <1>5
<1>7. data = Piece(offset, e) /\ Len(data) = e - offset
  BY <1>0, <1>6, PieceType DEF Piece, Data
<1>8. ASSUME Unbroken, d.waiting # 0, e # len PROVE FALSE
  <2>1. offset + Limit + extra < len
    BY <1>0, <1>4, <1>5, <1>8
  <2>2. extra = 3
    BY <1>0, <1>1, <1>8, <2>1 DEF E
  <2>3. /\ offset + Limit + 2 <= Len(Content)
        /\ offset + Limit \in offset..Len(Content)
    BY <1>0, <2>1, <2>2
  <2>4. PICK x \in 0..2 : From(offset, (offset + Limit) + x).waiting = 0
    BY <1>0, <1>8, <2>3, Crossing
  <2>5. Limit + x \in Nat /\ ~ (len <= offset + (Limit + x))
        /\ offset + (Limit + x) = (offset + Limit) + x
    BY <1>0, <2>1, <2>2
  <2>6. Decode(Data(Limit + x)).waiting = 0
    BY <1>2, <2>4, <2>5
  <2>7. x \in E
    BY <2>6 DEF E
  <2>8. QED
    BY <1>1, <2>2, <2>7
<1>9. offset + Len(data) = e
  BY <1>0, <1>6, <1>7
<1> HIDE DEF e, data, d
<1>a. d = From(offset, e) /\ data = Piece(offset, e)
  BY <1>5, <1>7
<1>b. printed' = printed \o IF saw THEN Whole(Piece(offset, e))
                            ELSE From(offset, e).text
  BY <1>3, <1>a, Zenon
<1>c. offset' = e - (IF saw THEN 0 ELSE From(offset, e).waiting)
  <2>1. From(offset, e).waiting \in 0..2
    BY <1>0, <1>6, FromType DEF States
  <2>2. CASE saw
    <3>1. offset' = offset + Len(data) - 0
      BY <1>3, <2>2
    <3>2. QED
      BY <1>0, <1>6, <1>7, <2>2, <3>1
  <2>3. CASE ~saw
    <3>1. offset' = offset + Len(data) - From(offset, e).waiting
      BY <1>3, <1>a, <2>3
    <3>2. QED
      BY <1>0, <1>6, <1>7, <2>1, <2>3, <3>1
  <2>4. QED
    BY <2>2, <2>3, Zenon
<1>d. Unbroken => From(offset, e).waiting = 0 \/ e = len
  BY <1>8, <1>a, Zenon
<1>e. e = offset => offset = len
  BY <1>6
<1>10. PageUpTo(e)
  BY <1>3, <1>b, <1>c, <1>d, <1>e, Zenon DEF PageUpTo
<1>11. QED
  BY <1>6, <1>10

-----------------------------------------------------------------------------
(* The log and its follower.                                                *)

\* What the follower and the history know of the job; a follower that has
\* ended has all of the log.
LogInv ==
  /\ offset <= len
  /\ saw => ended
  /\ late => ended
  /\ reader = "ended" => ended
  /\ ~late /\ reader = "ended" => offset = len

\* The two halves of TypeOK.
RestTypes ==
  /\ {ended, survivor, late, saw} \subseteq BOOLEAN
  /\ len \in 0..Len(Content) /\ offset \in 0..Len(Content)
  /\ reader \in {"ask", "state", "ended"}
  /\ printed \in Seq(Glyphs)

FetchTypes ==
  /\ fetch \in [Fetchers ->
                 {"idle", "asking", "verify", "move", "DONE", "ERROR"}]
  /\ tries \in [Fetchers -> Nat]
  /\ \A f \in Fetchers : tries[f] <= Attempts[f]
  /\ request \in [Requests ->
                   Answers \cup {"unsent", "sent", "packing", "over"}]
  /\ slot \in Requests \cup {None}
  /\ got \in [Fetchers -> Bundles \cup {None}] /\ target \in Bundles \cup {None}

\* TypeOK is its two halves.
LEMMA TypeParts == TypeOK <=> RestTypes /\ FetchTypes
BY DEF TypeOK, RestTypes, FetchTypes

\* The initial state is typed.
LEMMA TypeInit == Init => TypeOK
<1>1. Len(Content) \in Nat /\ <<>> \in Seq(Glyphs)
  BY OutputsAssumption, EmptySeq
<1>2. Attempts \in [Fetchers -> Nat \ {0}]
  BY OutputsAssumption
<1>3. ASSUME Init PROVE RestTypes
  <2>1. {ended, survivor, late, saw} \subseteq BOOLEAN
    BY <1>3 DEF Init
  <2>2. QED
    BY <1>1, <1>3, <2>1 DEF Init, RestTypes
<1>4. ASSUME Init PROVE FetchTypes
  BY <1>2, <1>4 DEF Init, FetchTypes
<1>5. QED
  BY <1>3, <1>4, TypeParts

\* LogInv holds initially.
LEMMA LogInit == Init => LogInv
BY DEF Init, LogInv

\* Every step keeps the first half of the types and LogInv.
LEMMA LogStep ==
  TypeOK /\ LogInv /\ [Next]_vars => RestTypes' /\ LogInv'
<1> SUFFICES ASSUME TypeOK, LogInv, [Next]_vars PROVE RestTypes' /\ LogInv'
  OBVIOUS
<1>0. /\ Len(Content) \in Nat /\ RestTypes /\ len \in Nat /\ offset \in Nat
      /\ <<>> \in Seq(Glyphs) /\ {ended, late, saw, survivor} \subseteq BOOLEAN
  BY OutputsAssumption, TypeParts, EmptySeq DEF RestTypes
<1>1. ASSUME UNCHANGED <<log, follow>> PROVE RestTypes' /\ LogInv'
  BY <1>0, <1>1 DEF LogInv, RestTypes, log, follow
<1>2. CASE Write
  BY <1>0, <1>2 DEF Write, LogInv, RestTypes, follow
<1>3. CASE End
  BY <1>0, <1>3 DEF End, LogInv, RestTypes, follow
<1>4. CASE LookUp
  BY <1>0, <1>4 DEF LookUp, LogInv, RestTypes, log
<1>5. CASE ReadPage
  <2>1. PICK e \in offset..len : PageUpTo(e)
    BY <1>5, ReadsPage DEF LogInv
  <2> DEFINE d == From(offset, e)
             more == IF saw THEN Whole(Piece(offset, e)) ELSE d.text
  <2>2. offset \in 0..Len(Content) /\ e \in offset..Len(Content) /\ e \in Nat
    BY <1>0 DEF RestTypes
  <2>3. d.text \in Seq(Glyphs) /\ d.waiting \in 0..2 /\ d.waiting <= e - offset
    BY <2>2, FromType DEF States
  <2>4. more \in Seq(Glyphs)
    BY <2>2, <2>3, WholeType
  <2> HIDE DEF d, more
  <2>5. /\ printed' = printed \o more
        /\ offset' = e - (IF saw THEN 0 ELSE d.waiting)
        /\ reader' = (IF offset' = offset /\ saw THEN "ended" ELSE "ask")
        /\ e = offset => offset = len
    BY <2>1, Zenon DEF PageUpTo, more, d
  <2>6. printed' \in Seq(Glyphs)
    BY <1>0, <2>4, <2>5, ConcatProperties DEF RestTypes
  <2>7. offset' \in offset..e
    BY <1>0, <2>2, <2>3, <2>5
  <2>8. saw' = FALSE /\ UNCHANGED log
    BY <1>5 DEF ReadPage
  <2>9. reader' = "ended" => saw /\ offset' = len
    BY <1>0, <2>2, <2>5
  <2>a. reader' \in {"ask", "ended"}
    BY <2>5
  <2>b. {ended, survivor, late, saw}' \subseteq BOOLEAN
    BY <1>0, <2>8 DEF log
  <2>c. offset' \in 0..Len(Content) /\ len' \in 0..Len(Content)
    BY <1>0, <2>2, <2>7, <2>8 DEF RestTypes, log
  <2>10. RestTypes'
    BY <2>6, <2>a, <2>b, <2>c DEF RestTypes
  <2>11. QED
    BY <1>0, <2>2, <2>7, <2>8, <2>9, <2>10 DEF LogInv, log
<1>6. CASE Break
  <2>1. /\ saw' = FALSE /\ reader' = "ask" /\ UNCHANGED log
        /\ offset' \in {offset, 0} /\ printed' \in {printed, <<>>}
    BY <1>6 DEF Break, StartsAgain
  <2>2. {ended, survivor, late, saw}' \subseteq BOOLEAN
    BY <1>0, <2>1 DEF log
  <2>a. reader' \in {"ask", "state", "ended"} /\ printed' \in Seq(Glyphs)
    BY <1>0, <2>1 DEF RestTypes
  <2>b. len' \in 0..Len(Content) /\ offset' \in 0..Len(Content)
    BY <1>0, <2>1 DEF RestTypes, log
  <2>3. RestTypes'
    BY <2>2, <2>a, <2>b DEF RestTypes
  <2>4. QED
    BY <1>0, <2>1, <2>3 DEF LogInv, log
<1>7. ASSUME NEW r \in Requests, TakeSlot(r) \/ Handle(r)
      PROVE  UNCHANGED <<log, follow>>
  BY <1>7 DEF TakeSlot, Handle, SendBundle, GiveSlotBack
<1>8. ASSUME NEW f \in Fetchers,
             StartFetch(f) \/ Receive(f) \/ GiveUp(f) \/ Verify(f) \/ Move(f)
      PROVE  UNCHANGED <<log, follow>>
  BY <1>8 DEF StartFetch, Receive, GiveUp, Verify, Move
<1>9. CASE WorkerEnds
  BY <1>1, <1>9 DEF WorkerEnds
<1>10. CASE UNCHANGED vars
  BY <1>1, <1>10 DEF vars
<1>11. QED
  BY <1>1, <1>2, <1>3, <1>4, <1>5, <1>6, <1>7, <1>8, <1>9, <1>10 DEF Next

-----------------------------------------------------------------------------
(* The bundles.                                                             *)

\* What the place of a fetch says about what it has downloaded.
FetchOf(f) ==
  /\ fetch[f] = "asking" => tries[f] >= 1
  /\ got[f] # None => ended /\ got[f].by = f /\ (late \/ got[f].log = len)
  /\ fetch[f] = "asking" /\ request[Current(f)] = "bundle" => got[f] # None
  /\ fetch[f] \in {"verify", "move"} => got[f] # None
  /\ fetch[f] = "move" => got[f].whole
  /\ fetch[f] = "DONE" => target # None /\ target.by = f

\* Bundles are made of ended jobs, and what is in place is whole and, unless
\* a process has written late, has the log as it stays.
FetchInv ==
  /\ \A r \in Requests : request[r] = "packing" => ended
  /\ \A f \in Fetchers : FetchOf(f)
  /\ target # None => ended /\ target.whole /\ (late \/ target.log = len)

\* FetchInv holds initially.
LEMMA FetchInit == Init => FetchInv
BY DEF Init, FetchInv, FetchOf

\* A request is a client and a number.
LEMMA RequestsAre ==
  /\ \A f \in Fetchers : \A n \in 1..Attempts[f] : <<f, n>> \in Requests
  /\ \A r \in Requests : r[1] \in Fetchers /\ r[2] \in 1..Attempts[r[1]]
                         /\ r = <<r[1], r[2]>>
BY DEF Requests

\* Time and the workload.
LEMMA FetchWaits ==
  ASSUME FetchInv, UNCHANGED bundle, ended => ended', late => late',
         ended => len' = len \/ late'
  PROVE  FetchInv'
BY DEF FetchInv, FetchOf, Current, bundle

\* A fetch that a step of another one does not touch.
LEMMA OthersKeep ==
  ASSUME NEW f \in Fetchers, FetchOf(f), UNCHANGED log,
         fetch'[f] = fetch[f], tries'[f] = tries[f], got'[f] = got[f],
         fetch[f] = "asking" /\ request'[Current(f)] = "bundle"
           => request[Current(f)] = "bundle",
         target' = target \/ target = None
  PROVE  FetchOf(f)'
BY DEF FetchOf, Current, log

\* Every step keeps the second half of the types and FetchInv.
LEMMA FetchStep ==
  TypeOK /\ LogInv /\ FetchInv /\ [Next]_vars => FetchTypes' /\ FetchInv'
<1> SUFFICES ASSUME TypeOK, LogInv, FetchInv, [Next]_vars
             PROVE  FetchTypes' /\ FetchInv'
  OBVIOUS
<1>0. FetchTypes /\ len \in Nat /\ Attempts \in [Fetchers -> Nat \ {0}]
      /\ None \notin Requests /\ None \notin Bundles
  BY OutputsAssumption, TypeParts DEF TypeOK
<1>p. /\ \A r \in Requests : request[r] = "packing" => ended
      /\ \A f \in Fetchers : FetchOf(f)
      /\ target # None => ended /\ target.whole /\ (late \/ target.log = len)
  BY DEF FetchInv
<1>c. \A f \in Fetchers : fetch[f] = "asking" =>
        Current(f) \in Requests /\ tries[f] \in 1..Attempts[f]
  BY <1>0, RequestsAre DEF FetchInv, FetchOf, FetchTypes, Current
<1>1. ASSUME UNCHANGED bundle PROVE FetchTypes'
  BY <1>0, <1>1 DEF FetchTypes, bundle
<1>2. CASE Write
  BY <1>1, <1>2, FetchWaits DEF Write, LogInv
<1>3. CASE End
  BY <1>1, <1>3, FetchWaits DEF End
<1>4. CASE LookUp
  BY <1>1, <1>4, FetchWaits DEF LookUp, log
<1>5. CASE ReadPage
  BY <1>1, <1>5, FetchWaits DEF ReadPage, log
<1>6. CASE Break
  BY <1>1, <1>6, FetchWaits DEF Break, log
<1>7. CASE WorkerEnds
  <2>1. /\ request' = [r \in Requests |->
             IF request[r] = "packing" THEN "over" ELSE request[r]]
        /\ slot' = None /\ UNCHANGED <<fetch, tries, got, target, log>>
    BY <1>7 DEF WorkerEnds
  <2>2. FetchTypes'
    BY <1>0, <2>1 DEF FetchTypes
  <2>3. \A r \in Requests : request'[r] \in {request[r], "over"}
    BY <2>1
  <2>4. \A f \in Fetchers : FetchOf(f)'
    BY <1>p, <1>c, <2>1, <2>3, OthersKeep
  <2>5. QED
    BY <1>p, <2>1, <2>2, <2>3, <2>4 DEF FetchInv, log
<1>8. ASSUME NEW r \in Requests, TakeSlot(r) PROVE FetchTypes' /\ FetchInv'
  <2>1. \E m \in {"packing", "refused", "over"} :
          Marks(r, m) /\ (m = "packing" => ended)
    BY <1>8 DEF TakeSlot
  <2>2. slot' \in {slot, r} /\ UNCHANGED <<fetch, tries, got, target, log>>
    BY <1>8 DEF TakeSlot
  <2>3. FetchTypes'
    BY <1>0, <2>1, <2>2 DEF FetchTypes, Marks, Answers
  <2>4. \A q \in Requests :
          /\ request'[q] \in {request[q], "packing", "refused", "over"}
          /\ request'[q] = "packing" => ended
    BY <1>0, <1>p, <2>1 DEF FetchTypes, Marks
  <2>5. \A f \in Fetchers : FetchOf(f)'
    BY <1>p, <1>c, <2>2, <2>4, OthersKeep
  <2>6. QED
    BY <1>p, <2>2, <2>3, <2>4, <2>5 DEF FetchInv, log
<1>9. ASSUME NEW r \in Requests, GiveSlotBack(r) PROVE FetchTypes' /\ FetchInv'
  <2>1. slot' = None /\ UNCHANGED <<fetch, tries, request, got, target, log>>
    BY <1>9 DEF GiveSlotBack
  <2>2. FetchTypes'
    BY <1>0, <2>1 DEF FetchTypes
  <2>3. \A f \in Fetchers : FetchOf(f)'
    BY <1>p, <2>1, OthersKeep
  <2>4. QED
    BY <1>p, <2>1, <2>2, <2>3 DEF FetchInv, log
<1>10. ASSUME NEW r \in Requests, SendBundle(r) PROVE FetchTypes' /\ FetchInv'
  <2>1. /\ request[r] = "packing" /\ ended
        /\ UNCHANGED <<slot, fetch, tries, target, log>>
    BY <1>p, <1>10 DEF SendBundle
  <2>2. r[1] \in Fetchers
    BY RequestsAre
  <2>3. CASE /\ Marks(r, "refused") \/ Marks(r, "failed") \/ Marks(r, "over")
             /\ UNCHANGED got
    <3>1. FetchTypes'
      BY <1>0, <2>1, <2>3 DEF FetchTypes, Marks, Answers
    <3>2. \A q \in Requests :
            request'[q] \in {request[q], "refused", "failed", "over"}
      BY <1>0, <2>3 DEF FetchTypes, Marks
    <3>3. \A f \in Fetchers : FetchOf(f)'
      BY <1>p, <1>c, <2>1, <2>3, <3>2, OthersKeep
    <3>4. QED
      BY <1>p, <2>1, <2>3, <3>1, <3>2, <3>3 DEF FetchInv, log
  <2>4. CASE /\ Listens(r) /\ Marks(r, "bundle")
             /\ \E whole \in BOOLEAN : got' = [got EXCEPT ![r[1]] =
                  [log |-> len, whole |-> whole, by |-> r[1]]]
    <3>0. PICK whole \in BOOLEAN :
            got' = [got EXCEPT ![r[1]] =
                     [log |-> len, whole |-> whole, by |-> r[1]]]
      BY <2>4
    <3> DEFINE b == [log |-> len, whole |-> whole, by |-> r[1]]
    <3>1. /\ b \in Bundles /\ got' = [got EXCEPT ![r[1]] = b]
          /\ b.by = r[1] /\ b.log = len
      BY <1>0, <2>2, <3>0 DEF Bundles
    <3> HIDE DEF b
    <3>2. FetchTypes'
      BY <1>0, <2>1, <2>4, <3>1 DEF FetchTypes, Marks, Answers
    <3>3. \A q \in Requests :
            request'[q] = IF q = r THEN "bundle" ELSE request[q]
      BY <1>0, <2>4 DEF FetchTypes, Marks
    <3>4. fetch[r[1]] = "asking" /\ r = Current(r[1])
      BY <2>4 DEF Listens
    <3>5. ASSUME NEW f \in Fetchers PROVE FetchOf(f)'
      <4>1. CASE f = r[1]
        <5>1. got'[f] = b /\ b # None
          BY <1>0, <2>2, <3>1, <4>1 DEF FetchTypes
        <5>2. QED
          BY <1>p, <2>1, <3>1, <3>4, <4>1, <5>1 DEF FetchOf, log
      <4>2. CASE f # r[1]
        <5>1. got'[f] = got[f]
          BY <1>0, <3>1, <4>2 DEF FetchTypes
        <5>2. Current(f) # r
          BY <4>2 DEF Current
        <5>3. QED
          BY <1>p, <1>c, <2>1, <3>3, <5>1, <5>2, OthersKeep
      <4>3. QED
        BY <4>1, <4>2
    <3>6. QED
      BY <1>p, <2>1, <3>2, <3>3, <3>5 DEF FetchInv, log
  <2>5. CASE Listens(r)
    BY <1>10, <2>3, <2>4, <2>5, Zenon DEF SendBundle
  <2>6. CASE ~Listens(r)
    BY <1>10, <2>3, <2>6, Zenon DEF SendBundle
  <2>7. QED
    BY <2>5, <2>6
<1>11. ASSUME NEW f \in Fetchers, AgainOrError(f), fetch[f] = "asking",
              UNCHANGED <<slot, got, target, log>>
       PROVE  FetchTypes' /\ FetchInv'
  <2>1. tries[f] \in Nat /\ Attempts[f] \in Nat /\ tries[f] >= 1
    BY <1>0, <1>p, <1>11 DEF FetchTypes, FetchOf
  <2>2. \A r \in Requests : request'[r] \in {request[r], "over", "sent"}
    BY <1>0, <1>11 DEF AgainOrError, Closed, FetchTypes
  <2>3. CASE tries[f] < Attempts[f]
    <3>1. /\ tries' = [tries EXCEPT ![f] = tries[f] + 1] /\ fetch' = fetch
          /\ request' = [Closed(f) EXCEPT ![<<f, tries[f] + 1>>] = "sent"]
      BY <1>11, <2>3 DEF AgainOrError
    <3>2. request' \in [Requests ->
                         Answers \cup {"unsent", "sent", "packing", "over"}]
      BY <1>0, <3>1 DEF FetchTypes, Closed, Answers
    <3>3. FetchTypes'
      BY <1>0, <1>11, <2>1, <2>3, <3>1, <3>2 DEF FetchTypes
    <3>4. ASSUME NEW g \in Fetchers PROVE FetchOf(g)'
      <4>1. CASE g = f
        <5>1. tries'[f] = tries[f] + 1
          BY <1>0, <3>1 DEF FetchTypes
        <5>2. <<f, tries[f] + 1>> \in Requests
          BY <2>1, <2>3, RequestsAre
        <5>3. request'[<<f, tries'[f]>>] = "sent"
          BY <1>0, <3>1, <5>1, <5>2 DEF FetchTypes, Closed
        <5>4. Current(f)' = <<f, tries'[f]>> /\ tries'[f] >= 1
          BY <2>1, <5>1 DEF Current
        <5>5. request'[Current(f)'] # "bundle"
          BY <5>3, <5>4
        <5>6. QED
          BY <1>p, <1>11, <3>1, <4>1, <5>4, <5>5 DEF FetchOf, log
      <4>2. CASE g # f
        <5>1. tries'[g] = tries[g]
          BY <1>0, <3>1, <4>2 DEF FetchTypes
        <5>2. QED
          BY <1>p, <1>c, <1>11, <2>2, <3>1, <5>1, OthersKeep
      <4>3. QED
        BY <4>1, <4>2
    <3>5. QED
      BY <1>p, <1>11, <2>2, <3>3, <3>4 DEF FetchInv, log
  <2>4. CASE ~ (tries[f] < Attempts[f])
    <3>1. /\ fetch' = [fetch EXCEPT ![f] = "ERROR"] /\ tries' = tries
          /\ request' = Closed(f)
      BY <1>11, <2>4 DEF AgainOrError, Goes
    <3>2. FetchTypes'
      BY <1>0, <1>11, <3>1 DEF FetchTypes, Closed, Answers
    <3>3. ASSUME NEW g \in Fetchers PROVE FetchOf(g)'
      <4>1. CASE g = f
        BY <1>0, <1>p, <1>11, <3>1, <4>1 DEF FetchOf, FetchTypes, log
      <4>2. CASE g # f
        <5>1. fetch'[g] = fetch[g]
          BY <1>0, <3>1, <4>2 DEF FetchTypes
        <5>2. QED
          BY <1>p, <1>c, <1>11, <2>2, <3>1, <5>1, OthersKeep
      <4>3. QED
        BY <4>1, <4>2
    <3>4. QED
      BY <1>p, <1>11, <2>2, <3>2, <3>3 DEF FetchInv, log
  <2>5. QED
    BY <2>3, <2>4
<1>12. ASSUME NEW f \in Fetchers, StartFetch(f) PROVE FetchTypes' /\ FetchInv'
  <2>0. fetch[f] = "idle" /\ UNCHANGED <<slot, got, target, log>>
    BY <1>12 DEF StartFetch
  <2>1. CASE target # None
    <3>1. /\ fetch' = [fetch EXCEPT ![f] = "ERROR"] /\ tries' = tries
          /\ request' = request
      BY <1>12, <2>1 DEF StartFetch, Goes
    <3>2. FetchTypes'
      BY <1>0, <2>0, <3>1 DEF FetchTypes
    <3>3. ASSUME NEW g \in Fetchers PROVE FetchOf(g)'
      <4>1. CASE g = f
        BY <1>0, <1>p, <2>0, <3>1, <4>1 DEF FetchOf, FetchTypes, log
      <4>2. CASE g # f
        <5>1. fetch'[g] = fetch[g]
          BY <1>0, <3>1, <4>2 DEF FetchTypes
        <5>2. QED
          BY <1>p, <2>0, <3>1, <5>1, OthersKeep
      <4>3. QED
        BY <4>1, <4>2
    <3>4. QED
      BY <1>p, <2>0, <3>1, <3>2, <3>3 DEF FetchInv, log
  <2>2. CASE target = None
    <3>1. /\ fetch' = [fetch EXCEPT ![f] = "asking"]
          /\ tries' = [tries EXCEPT ![f] = 1]
          /\ request' = [request EXCEPT ![<<f, 1>>] = "sent"]
      BY <1>12, <2>2 DEF StartFetch, Goes, Marks
    <3>2. Attempts[f] \in Nat /\ 1 <= Attempts[f] /\ <<f, 1>> \in Requests
      BY <1>0, RequestsAre
    <3>3. FetchTypes'
      BY <1>0, <2>0, <3>1, <3>2 DEF FetchTypes
    <3>4. \A r \in Requests :
            request'[r] = IF r = <<f, 1>> THEN "sent" ELSE request[r]
      BY <1>0, <3>1 DEF FetchTypes
    <3>5. ASSUME NEW g \in Fetchers PROVE FetchOf(g)'
      <4>1. CASE g = f
        <5>1. tries'[f] = 1 /\ fetch'[f] = "asking"
          BY <1>0, <3>1 DEF FetchTypes
        <5>2. request'[Current(f)'] # "bundle"
          BY <3>2, <3>4, <5>1 DEF Current
        <5>3. QED
          BY <1>p, <2>0, <4>1, <5>1, <5>2 DEF FetchOf, log
      <4>2. CASE g # f
        <5>1. fetch'[g] = fetch[g] /\ tries'[g] = tries[g]
          BY <1>0, <3>1, <4>2 DEF FetchTypes
        <5>2. QED
          BY <1>p, <1>c, <2>0, <3>4, <5>1, OthersKeep
      <4>3. QED
        BY <4>1, <4>2
    <3>6. QED
      BY <1>p, <2>0, <3>3, <3>4, <3>5 DEF FetchInv, log
  <2>3. QED
    BY <2>1, <2>2
<1>13. ASSUME NEW f \in Fetchers, Receive(f) PROVE FetchTypes' /\ FetchInv'
  <2>0. fetch[f] = "asking" /\ UNCHANGED <<slot, got, target, log>>
    BY <1>13 DEF Receive
  <2>1. CASE AgainOrError(f)
    BY <1>11, <2>0, <2>1
  <2>2. ASSUME NEW place \in {"verify", "ERROR"},
               Goes(f, place), request' = Closed(f), tries' = tries,
               place = "verify" => request[Current(f)] = "bundle"
        PROVE  FetchTypes' /\ FetchInv'
    <3>1. fetch' = [fetch EXCEPT ![f] = place]
      BY <2>2 DEF Goes
    <3>2. FetchTypes'
      BY <1>0, <2>0, <2>2, <3>1 DEF FetchTypes, Closed, Answers
    <3>3. \A r \in Requests : request'[r] \in {request[r], "over"}
      BY <1>0, <2>2 DEF FetchTypes, Closed
    <3>4. ASSUME NEW g \in Fetchers PROVE FetchOf(g)'
      <4>1. CASE g = f
        <5>1. fetch'[f] = place
          BY <1>0, <3>1 DEF FetchTypes
        <5>2. QED
          BY <1>p, <2>0, <2>2, <4>1, <5>1 DEF FetchOf, log
      <4>2. CASE g # f
        <5>1. fetch'[g] = fetch[g]
          BY <1>0, <3>1, <4>2 DEF FetchTypes
        <5>2. QED
          BY <1>p, <1>c, <2>0, <2>2, <3>3, <5>1, OthersKeep
      <4>3. QED
        BY <4>1, <4>2
    <3>5. QED
      BY <1>p, <2>0, <3>2, <3>3, <3>4 DEF FetchInv, log
  <2>3. QED
    BY <1>13, <2>1, <2>2, Zenon DEF Receive
<1>14. ASSUME NEW f \in Fetchers, GiveUp(f) PROVE FetchTypes' /\ FetchInv'
  BY <1>11, <1>14 DEF GiveUp
<1>15. ASSUME NEW f \in Fetchers, Verify(f) PROVE FetchTypes' /\ FetchInv'
  <2>0. /\ fetch[f] = "verify"
        /\ UNCHANGED <<tries, request, slot, target, log>>
        /\ got[f] # None
    BY <1>p, <1>15 DEF Verify, FetchOf
  <2>1. PICK place \in {"move", "ERROR"} :
          /\ fetch' = [fetch EXCEPT ![f] = place]
          /\ place = "move" => got' = got /\ got[f].whole
          /\ place = "ERROR" => got' = [got EXCEPT ![f] = None]
    BY <1>15 DEF Verify, Goes, Discard, Verified
  <2>2. FetchTypes'
    BY <1>0, <2>0, <2>1 DEF FetchTypes
  <2>3. ASSUME NEW g \in Fetchers PROVE FetchOf(g)'
    <3>1. CASE g = f
      <4>1. fetch'[f] = place /\ (place = "ERROR" => got'[f] = None)
        BY <1>0, <2>1 DEF FetchTypes
      <4>2. QED
        BY <1>p, <2>0, <2>1, <3>1, <4>1 DEF FetchOf, log
    <3>2. CASE g # f
      <4>1. fetch'[g] = fetch[g] /\ got'[g] = got[g]
        BY <1>0, <2>1, <3>2 DEF FetchTypes
      <4>2. QED
        BY <1>p, <2>0, <4>1, OthersKeep
    <3>3. QED
      BY <3>1, <3>2
  <2>4. QED
    BY <1>p, <2>0, <2>2, <2>3 DEF FetchInv, log
<1>16. ASSUME NEW f \in Fetchers, Move(f) PROVE FetchTypes' /\ FetchInv'
  <2>0. /\ fetch[f] = "move" /\ UNCHANGED <<tries, request, slot, log>>
        /\ got' = [got EXCEPT ![f] = None]
        /\ got[f] # None /\ got[f].whole /\ got[f].by = f /\ ended
        /\ late \/ got[f].log = len
        /\ got[f] \in Bundles
    BY <1>0, <1>p, <1>16 DEF Move, Discard, FetchOf, FetchTypes
  <2>1. PICK place \in {"DONE", "ERROR"} :
          /\ fetch' = [fetch EXCEPT ![f] = place]
          /\ \/ target = None /\ target' = got[f]
             \/ target # None /\ target' = target /\ place = "ERROR"
    BY <1>16 DEF Move, Reported, Goes
  <2>2. FetchTypes'
    BY <1>0, <2>0, <2>1 DEF FetchTypes
  <2>3. ASSUME NEW g \in Fetchers PROVE FetchOf(g)'
    <3>1. CASE g = f
      <4>1. fetch'[f] = place /\ got'[f] = None
        BY <1>0, <2>0, <2>1 DEF FetchTypes
      <4>2. QED
        BY <2>0, <2>1, <3>1, <4>1 DEF FetchOf
    <3>2. CASE g # f
      <4>1. fetch'[g] = fetch[g] /\ got'[g] = got[g]
        BY <1>0, <2>0, <2>1, <3>2 DEF FetchTypes
      <4>2. QED
        BY <1>p, <2>0, <2>1, <4>1, OthersKeep
    <3>3. QED
      BY <3>1, <3>2
  <2>4. target' # None =>
          ended' /\ target'.whole /\ (late' \/ target'.log = len')
    BY <1>p, <2>0, <2>1 DEF log
  <2>5. QED
    BY <1>p, <2>0, <2>2, <2>3, <2>4 DEF FetchInv, log
<1>17. CASE UNCHANGED vars
  BY <1>1, <1>17, FetchWaits DEF vars, log
<1>18. QED
  BY <1>1, <1>2, <1>3, <1>4, <1>5, <1>6, <1>7, <1>8, <1>9, <1>10, <1>12,
     <1>13, <1>14, <1>15, <1>16, <1>17 DEF Next, Handle

-----------------------------------------------------------------------------
(* Theorems.                                                                *)

\* The inductive invariant, whatever the job writes.
IInv == TypeOK /\ LogInv /\ FetchInv

\* It holds always.
LEMMA IInvHolds == Spec => []IInv
<1>1. Init => IInv
  BY TypeInit, LogInit, FetchInit DEF IInv
<1>2. IInv /\ [Next]_vars => IInv'
  <2>1. TypeOK' <=> RestTypes' /\ FetchTypes'
    BY DEF TypeOK, RestTypes, FetchTypes
  <2>2. QED
    BY <2>1, LogStep, FetchStep DEF IInv
<1>3. QED
  BY <1>1, <1>2, PTL DEF Spec

\* Type correctness: no page goes beyond the log, no request beyond its
\* attempts, whatever fails in between (server.py logs and bundle, cli.py).
THEOREM TypeCorrect == Spec => []TypeOK
BY IInvHolds, PTL DEF IInv

\* What is printed is the text of the bytes up to the offset, and nothing of
\* them waits but at the end of an ended job.
ReadInv ==
  ~late => /\ printed = Whole(Piece(0, offset))
           /\ From(0, offset).waiting = 0 \/ (ended /\ offset = len)

\* No bytes, no text.
LEMMA Nothing ==
  ASSUME NEW a \in 0..Len(Content)
  PROVE  /\ From(a, a).text = <<>> /\ From(a, a).waiting = 0
         /\ Whole(Piece(a, a)) = <<>>
<1>1. From(a, a).text = <<>> /\ From(a, a).waiting = 0
  BY FromStart DEF Start
<1>2. QED
  BY <1>1, WholeIs

\* ReadInv holds initially.
LEMMA ReadInit == Init => ReadInv
<1>1. 0 \in 0..Len(Content)
  BY OutputsAssumption
<1>2. QED
  BY <1>1, Nothing DEF Init, ReadInv

\* Every step keeps it.
LEMMA ReadStep ==
  ASSUME Unbroken, TypeOK, LogInv, ReadInv, [Next]_vars
  PROVE  ReadInv'
<1>0. /\ Len(Content) \in Nat /\ len \in Nat /\ offset \in Nat
      /\ offset <= len /\ len <= Len(Content) /\ offset \in 0..Len(Content)
      /\ 0 \in 0..Len(Content) /\ printed \in Seq(Glyphs) /\ late \in BOOLEAN
      /\ ended \in BOOLEAN
  BY OutputsAssumption DEF TypeOK, LogInv
<1>1. ASSUME UNCHANGED <<ended, len, late, follow>> PROVE ReadInv'
  BY <1>1 DEF ReadInv, follow
<1>2. CASE Write
  <2>1. late' = ended /\ UNCHANGED <<ended, follow>>
    BY <1>2 DEF Write
  <2>2. QED
    BY <2>1 DEF ReadInv, LogInv, follow
<1>3. CASE End
  BY <1>3 DEF End, ReadInv, follow
<1>4. CASE LookUp
  BY <1>4 DEF LookUp, ReadInv, log
<1>5. CASE ReadPage
  <2>0. UNCHANGED <<ended, len, late>>
    BY <1>5 DEF ReadPage, log
  <2>1. SUFFICES ASSUME ~late
          PROVE  /\ printed' = Whole(Piece(0, offset'))
                 /\ From(0, offset').waiting = 0 \/ (ended /\ offset' = len)
    BY <2>0 DEF ReadInv
  <2>2. PICK e \in offset..len : PageUpTo(e)
    BY <1>5, ReadsPage DEF LogInv
  <2>3. e \in offset..Len(Content) /\ e \in 0..Len(Content) /\ e \in Nat
    BY <1>0
  <2>4. CASE From(0, offset).waiting = 0 /\ saw
    <3>1. printed' = printed \o Whole(Piece(offset, e))
      BY <2>2, <2>4 DEF PageUpTo
    <3>2. offset' = e
      BY <2>2, <2>3, <2>4 DEF PageUpTo
    <3>3. printed = From(0, offset).text
      BY <1>0, <2>1, <2>4, WholeIs DEF ReadInv
    <3>4. Whole(Piece(0, e)) = From(0, offset).text \o Whole(Piece(offset, e))
      BY <1>0, <2>3, <2>4, WholeContinues
    <3>5. From(offset, e).waiting = 0 \/ e = len
      BY <2>2 DEF PageUpTo
    <3>6. From(0, e).waiting = From(offset, e).waiting
      BY <1>0, <2>3, <2>4, Restart DEF Continues
    <3>7. ended
      BY <2>4 DEF LogInv
    <3>8. printed' = Whole(Piece(0, offset'))
      BY <3>1, <3>2, <3>3, <3>4
    <3>9. QED
      BY <3>2, <3>5, <3>6, <3>7, <3>8
  <2>5. CASE From(0, offset).waiting = 0 /\ ~saw
    <3> DEFINE p == e - From(offset, e).waiting
    <3>1. printed' = printed \o From(offset, e).text /\ offset' = p
      BY <2>2, <2>5 DEF PageUpTo
    <3>2. printed = From(0, offset).text
      BY <1>0, <2>1, <2>5, WholeIs DEF ReadInv
    <3>3. /\ p \in offset..e /\ From(offset, p).waiting = 0
          /\ From(offset, p).text = From(offset, e).text
      BY <1>0, <2>3, WithoutHanging
    <3> HIDE DEF p
    <3>4. p \in offset..Len(Content) /\ p \in 0..Len(Content)
      BY <1>0, <2>3, <3>3
    <3>5. Continues(0, offset, p)
      BY <1>0, <2>5, <3>4, Restart
    <3>6. From(0, p).waiting = 0
      BY <3>3, <3>5 DEF Continues
    <3>7. Whole(Piece(0, p)) = From(0, p).text
      BY <3>6, WholeIs
    <3>8. From(0, p).text = From(0, offset).text \o From(offset, e).text
      BY <3>3, <3>5, Zenon DEF Continues
    <3>9. printed' = Whole(Piece(0, offset'))
      BY <3>1, <3>2, <3>7, <3>8
    <3>10. QED
      BY <3>1, <3>6, <3>9
  <2>6. CASE From(0, offset).waiting # 0
    <3>1. ended /\ offset = len /\ e = offset
      BY <1>0, <2>1, <2>3, <2>6 DEF ReadInv
    <3>2. /\ From(offset, e).text = <<>> /\ From(offset, e).waiting = 0
          /\ Whole(Piece(offset, e)) = <<>>
      BY <1>0, <3>1, Nothing
    <3>3. printed' = printed \o <<>>
      BY <2>2, <3>2 DEF PageUpTo
    <3>4. offset' = e
      BY <1>0, <2>2, <2>3, <3>2 DEF PageUpTo
    <3>5. printed' = printed
      BY <1>0, <3>3, ConcatEmptySeq
    <3>6. QED
      BY <2>1, <3>1, <3>4, <3>5 DEF ReadInv
  <2>7. QED
    BY <2>4, <2>5, <2>6
<1>6. CASE Break
  <2>1. /\ UNCHANGED <<ended, len, late>>
        /\ \/ UNCHANGED <<offset, printed>>
           \/ offset' = 0 /\ printed' = <<>>
    BY <1>6 DEF Break, StartsAgain, log
  <2>2. QED
    BY <1>0, <2>1, Nothing DEF ReadInv
<1>7. ASSUME NEW r \in Requests, TakeSlot(r) \/ Handle(r) PROVE ReadInv'
  BY <1>1, <1>7 DEF TakeSlot, Handle, SendBundle, GiveSlotBack, log
<1>8. ASSUME NEW f \in Fetchers,
             StartFetch(f) \/ Receive(f) \/ GiveUp(f) \/ Verify(f) \/ Move(f)
      PROVE  ReadInv'
  BY <1>1, <1>8 DEF StartFetch, Receive, GiveUp, Verify, Move, log
<1>9. CASE WorkerEnds
  BY <1>1, <1>9 DEF WorkerEnds, log
<1>10. CASE UNCHANGED vars
  BY <1>1, <1>10 DEF vars, log
<1>11. QED
  BY <1>2, <1>3, <1>4, <1>5, <1>6, <1>7, <1>8, <1>9, <1>10 DEF Next

\* So it holds always.
LEMMA ReadsAsOne == ASSUME Unbroken PROVE Spec => []ReadInv
<1>1. IInv /\ ReadInv /\ [Next]_vars => ReadInv'
  BY ReadStep DEF IInv
<1>2. QED
  BY <1>1, ReadInit, IInvHolds, PTL DEF Spec

\* The bytes up to an offset are a piece.
LEMMA UptoIs == \A n : Upto(n) = Piece(0, n)
BY DEF Upto, Piece

\* Pages of any size, cut anywhere in a character, with any break of the
\* connection, print the text of an unbroken log as one decoder would, and a
\* follower that ends has all of it (server.py logs, cli.py logs).
THEOREM Followed == Unbroken => (Spec => []FollowedFaithfully)
<1> SUFFICES ASSUME Unbroken PROVE Spec => []FollowedFaithfully
  OBVIOUS
<1>1. IInv /\ ReadInv => FollowedFaithfully
  BY UptoIs DEF IInv, LogInv, ReadInv, FollowedFaithfully
<1>2. QED
  BY <1>1, IInvHolds, ReadsAsOne, PTL

\* A fetch that reports success has its own, verified copy in place, however
\* many clients fetch, and the copy has the log that a follower has seen
\* (server.py build_bundle, cli.py artifacts).
THEOREM Published == Unbroken => (Spec => []PublishedWhole)
<1> SUFFICES ASSUME Unbroken PROVE Spec => []PublishedWhole
  OBVIOUS
<1>1. IInv /\ ReadInv => PublishedWhole
  BY UptoIs DEF IInv, LogInv, FetchInv, FetchOf, ReadInv,
                PublishedWhole
<1>2. QED
  BY <1>1, IInvHolds, ReadsAsOne, PTL

\* What that says of the copies, for every content.
OwnCopies ==
  /\ \A f \in Fetchers : fetch[f] = "DONE" => target # None /\ target.by = f
  /\ target # None => target.whole /\ (late \/ target.log = len)

\* Without a condition on what the job writes: success means one's own copy,
\* and what is in place is verified and has the final log, unless a process
\* has outlived the job and written (cli.py artifacts, verify_extract_bundle).
THEOREM CopiesOwn == Spec => []OwnCopies
<1>1. IInv => OwnCopies
  BY DEF IInv, FetchInv, FetchOf, OwnCopies
<1>2. QED
  BY <1>1, IInvHolds, PTL
=============================================================================

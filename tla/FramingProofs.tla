--------------------------- MODULE FramingProofs ---------------------------
(***************************************************************************)
(* Proofs about the packet framing.  First the parser alone, for every     *)
(* header policy, byte alphabet, set of chunks, set of length limits,      *)
(* threshold and stream length.  Then the connection that feeds it, for    *)
(* every set of packets, every length limit, every way in which the stream *)
(* is cut into chunks and the replies into sends, and every moment at      *)
(* which the client goes away.                                             *)
(***************************************************************************)
EXTENDS ServerConnection, SequenceTheorems, WellFoundedInduction, TLAPS

(***************************************************************************)
(* Facts about SubSeq.                                                     *)
(***************************************************************************)

\* The elements of the window of h elements that begins after the first a.
LEMMA WindowElements ==
    ASSUME NEW S, NEW s \in Seq(S), NEW a \in Nat, NEW h \in Nat,
           a + h <= Len(s)
    PROVE  /\ SubSeq(s, a + 1, a + h) \in Seq(S)
           /\ Len(SubSeq(s, a + 1, a + h)) = h
           /\ \A i \in 1 .. h : SubSeq(s, a + 1, a + h)[i] = s[a + i]
<1> DEFINE u == SubSeq(s, a + 1, a + h)
<1>1. /\ u \in Seq(S)
      /\ Len(u) = IF a + 1 <= a + h THEN a + h - (a + 1) + 1 ELSE 0
      /\ \A i \in 1 .. a + h - (a + 1) + 1 : u[i] = s[a + 1 + i - 1]
  BY SubSeqProperties, SMT
<1> HIDE DEF u
<1>2. a + h - (a + 1) + 1 = h /\ (~ (a + 1 <= a + h) => h = 0)
  OBVIOUS
<1>3. Len(u) = h
  BY <1>1, <1>2
<1>4. ASSUME NEW i \in 1 .. h
      PROVE  u[i] = s[a + i]
  <2>1. a + 1 + i - 1 = a + i
    OBVIOUS
  <2>2. u[i] = s[a + 1 + i - 1]
    BY <1>1, <1>2
  <2> QED BY <2>1, <2>2
<1> QED BY <1>1, <1>3, <1>4 DEF u

\* Two windows of h elements are equal when they agree element by element.
LEMMA WindowEqual ==
    ASSUME NEW S, NEW s \in Seq(S), NEW t \in Seq(S),
           NEW a \in Nat, NEW b \in Nat, NEW h \in Nat,
           a + h <= Len(s), b + h <= Len(t),
           \A i \in 1 .. h : s[a + i] = t[b + i]
    PROVE  SubSeq(s, a + 1, a + h) = SubSeq(t, b + 1, b + h)
<1>1. \A q \in Seq(S), c \in Nat : c + h <= Len(q) =>
          /\ SubSeq(q, c + 1, c + h) \in Seq(S)
          /\ Len(SubSeq(q, c + 1, c + h)) = h
          /\ \A i \in 1 .. h : SubSeq(q, c + 1, c + h)[i] = q[c + i]
  BY WindowElements
<1>2. PICK u, v : u = SubSeq(s, a + 1, a + h) /\ v = SubSeq(t, b + 1, b + h)
  OBVIOUS
<1>3. /\ u \in Seq(S) /\ Len(u) = h /\ \A i \in 1 .. h : u[i] = s[a + i]
      /\ v \in Seq(S) /\ Len(v) = h /\ \A i \in 1 .. h : v[i] = t[b + i]
  BY <1>1, <1>2, Zenon
<1>4. \A i \in 1 .. Len(u) : u[i] = v[i]
  BY <1>3
<1>5. u = v
  BY <1>3, <1>4, SeqEqual
<1> QED BY <1>2, <1>5

\* The elements of the suffix that begins after the first a elements.
LEMMA SuffixElements ==
    ASSUME NEW S, NEW s \in Seq(S), NEW a \in 0 .. Len(s)
    PROVE  /\ SubSeq(s, a + 1, Len(s)) \in Seq(S)
           /\ Len(SubSeq(s, a + 1, Len(s))) = Len(s) - a
           /\ \A i \in 1 .. Len(s) - a : SubSeq(s, a + 1, Len(s))[i] = s[a + i]
<1>1. Len(s) \in Nat
  BY LenProperties
<1>2. /\ SubSeq(s, a + 1, Len(s)) \in Seq(S)
      /\ Len(SubSeq(s, a + 1, Len(s))) = IF a + 1 <= Len(s) THEN Len(s) - (a + 1) + 1 ELSE 0
      /\ \A i \in 1 .. Len(s) - (a + 1) + 1 :
            SubSeq(s, a + 1, Len(s))[i] = s[a + 1 + i - 1]
  BY <1>1, SubSeqProperties, SMT
<1> DEFINE u == SubSeq(s, a + 1, Len(s))
<1> HIDE DEF u
<1>3. Len(s) - (a + 1) + 1 = Len(s) - a /\ (~ (a + 1 <= Len(s)) => Len(s) - a = 0)
  BY <1>1
<1>4. u \in Seq(S) /\ Len(u) = Len(s) - a
  BY <1>2, <1>3 DEF u
<1>5. ASSUME NEW i \in 1 .. Len(s) - a
      PROVE  u[i] = s[a + i]
  <2>1. a + 1 + i - 1 = a + i
    BY <1>1
  <2>2. u[i] = s[a + 1 + i - 1]
    BY <1>2, <1>3 DEF u
  <2> QED BY <2>1, <2>2
<1> QED BY <1>4, <1>5 DEF u

\* A window of HeaderSize bytes is a header, so it declares some length.
LEMMA HeaderLength ==
    ASSUME NEW s \in Seq(Byte), NEW a \in Nat, a + HeaderSize <= Len(s)
    PROVE  ReadBodyLength(SubSeq(s, a + 1, a + HeaderSize)) \in Int
<1> DEFINE h == SubSeq(s, a + 1, a + HeaderSize)
<1>1. HeaderSize \in Nat /\ HeaderSize >= 1
  BY HeaderSizeAssumption
<1>2. h \in Seq(Byte) /\ Len(h) = HeaderSize
  BY <1>1, WindowElements
<1>3. h \in [1 .. HeaderSize -> Byte]
  BY <1>2, LenProperties, ElementOfSeq
<1> HIDE DEF h
<1>4. ReadBodyLength(h) \in Int
  BY <1>3, BodyLengthAssumption
<1> QED BY <1>4 DEF h

-----------------------------------------------------------------------------
(***************************************************************************)
(* The inductive invariant.  HandledFramesTile is not inductive alone: the *)
(* next frame is measured in the buffer and the tiling speaks of the       *)
(* stream, so BufferIsSuffix has to relate the two; a chunk that arrives   *)
(* must not change a header that was read, so every handled header has to  *)
(* lie inside the stream; and frameSize has to be the size of the frame in *)
(* the callback's hands although it was computed before the callback ran.  *)
(***************************************************************************)
HandledInside ==
    \A i \in 1 .. Len(handled) : handled[i] + HeaderSize <= Len(received)

CallbackFrame ==
    pc = "callback" =>
        /\ HasHeader
        /\ HasFrame
        /\ DeclaredLength >= 0
        /\ frameSize = HeaderSize + DeclaredLength

Inv ==
    /\ TypeOK
    /\ BufferIsSuffix
    /\ HandledFramesTile
    /\ HandledInside
    /\ CallbackFrame

\* Arithmetic facts that every step below needs.
LEMMA Sizes ==
    ASSUME TypeOK
    PROVE  /\ HeaderSize \in Nat /\ HeaderSize >= 1
           /\ Len(buffer_) \in Nat /\ Len(received) \in Nat /\ Len(handled) \in Nat
           /\ consumed_ \in Nat /\ consumed_ <= Len(buffer_)
           /\ maxBodyLength_ \in Nat
           /\ \A i \in 1 .. Len(handled) : handled[i] \in Nat
<1>1. HeaderSize \in Nat /\ HeaderSize >= 1
  BY HeaderSizeAssumption
<1>2. Len(buffer_) \in Nat /\ Len(received) \in Nat /\ Len(handled) \in Nat
  BY LenProperties DEF TypeOK
<1>3. consumed_ \in Nat /\ consumed_ <= Len(buffer_)
  BY <1>2 DEF TypeOK
<1>4. maxBodyLength_ \in Nat
  BY LimitsAssumption DEF TypeOK
<1>5. \A i \in 1 .. Len(handled) : handled[i] \in Nat
  BY ElementOfSeq DEF TypeOK
<1> QED BY <1>1, <1>2, <1>3, <1>4, <1>5

\* A header at the read position declares some length.
LEMMA DeclaredLengthType ==
    ASSUME TypeOK, HasHeader
    PROVE  DeclaredLength \in Int
<1>1. consumed_ + HeaderSize <= Len(buffer_)
  BY Sizes DEF HasHeader, Buffered
<1> QED BY <1>1, Sizes, HeaderLength DEF TypeOK, DeclaredLength

\* The frame the buffer shows at the read position is the one the stream has
\* there.
LEMMA SameFrame ==
    ASSUME TypeOK, BufferIsSuffix, HasHeader
    PROVE  FrameEnd(dropped + consumed_) = dropped + consumed_ + HeaderSize + DeclaredLength
<1>1. /\ consumed_ + HeaderSize <= Len(buffer_)
      /\ dropped + consumed_ + HeaderSize <= Len(received)
      /\ dropped \in Nat
  BY Sizes DEF HasHeader, Buffered, BufferIsSuffix, TypeOK
<1> DEFINE n == dropped + consumed_
<1>2. n \in Nat /\ n + HeaderSize <= Len(received)
  BY <1>1, Sizes
<1>3. \A i \in 1 .. HeaderSize : buffer_[consumed_ + i] = received[n + i]
  <2> TAKE i \in 1 .. HeaderSize
  <2>1. consumed_ + i \in 1 .. Len(buffer_)
    BY <1>1, Sizes
  <2>2. buffer_[consumed_ + i] = received[dropped + (consumed_ + i)]
    BY <2>1 DEF BufferIsSuffix
  <2>3. dropped + (consumed_ + i) = n + i
    BY <1>1, Sizes
  <2> QED BY <2>2, <2>3
<1> HIDE DEF n
<1>4. SubSeq(buffer_, consumed_ + 1, consumed_ + HeaderSize)
        = SubSeq(received, n + 1, n + HeaderSize)
  <2>1. buffer_ \in Seq(Byte) /\ received \in Seq(Byte)
    BY DEF TypeOK
  <2>2. consumed_ \in Nat /\ HeaderSize \in Nat
    BY Sizes
  <2> QED BY <1>1, <1>2, <1>3, <2>1, <2>2, WindowEqual
<1>5. FrameEnd(n) = n + HeaderSize + DeclaredLength
  BY <1>4 DEF FrameEnd, DeclaredLength
<1> QED BY <1>5 DEF n

\* Bytes that arrive later leave a header that is there as it is.
LEMMA HeaderStable ==
    ASSUME NEW s \in Seq(Byte), NEW t \in Seq(Byte), NEW a \in Nat,
           a + HeaderSize <= Len(s)
    PROVE  SubSeq(s \o t, a + 1, a + HeaderSize) = SubSeq(s, a + 1, a + HeaderSize)
<1>1. HeaderSize \in Nat /\ Len(s) \in Nat /\ Len(t) \in Nat
  BY HeaderSizeAssumption, LenProperties
<1>2. /\ s \o t \in Seq(Byte)
      /\ Len(s \o t) = Len(s) + Len(t)
      /\ \A i \in 1 .. Len(s) + Len(t) :
            (s \o t)[i] = IF i <= Len(s) THEN s[i] ELSE t[i - Len(s)]
  BY ConcatProperties
<1>3. \A i \in 1 .. HeaderSize : (s \o t)[a + i] = s[a + i]
  BY <1>1, <1>2
<1>4. a + HeaderSize <= Len(s \o t)
  BY <1>1, <1>2
<1> QED BY <1>1, <1>2, <1>3, <1>4, WindowEqual

-----------------------------------------------------------------------------
\* A parser just constructed, with an empty buffer and nothing received,
\* satisfies the inductive invariant.
LEMMA InitInv == Init => Inv
<1> SUFFICES ASSUME Init PROVE Inv
  OBVIOUS
<1>1. TypeOK
  BY EmptySeq DEF Init, TypeOK
<1>2. BufferIsSuffix /\ HandledFramesTile /\ HandledInside /\ CallbackFrame
  BY DEF Init, BufferIsSuffix, HandledFramesTile, HandledInside, CallbackFrame
<1> QED BY <1>1, <1>2 DEF Inv

\* Feed's insertion: the buffer and the stream grow by the same bytes.
LEMMA FeedInsertInv ==
    ASSUME Inv, NEW bytes \in Seq(Byte), FeedInsert(bytes)
    PROVE  Inv'
<1>1. Len(bytes) \in Nat
  BY LenProperties
<1>2. /\ buffer_' \in Seq(Byte) /\ Len(buffer_') = Len(buffer_) + Len(bytes)
      /\ \A i \in 1 .. Len(buffer_) + Len(bytes) :
            buffer_'[i] = IF i <= Len(buffer_) THEN buffer_[i] ELSE bytes[i - Len(buffer_)]
  BY <1>1, ConcatProperties DEF FeedInsert, Inv, TypeOK
<1>3. /\ received' \in Seq(Byte) /\ Len(received') = Len(received) + Len(bytes)
      /\ \A i \in 1 .. Len(received) + Len(bytes) :
            received'[i] = IF i <= Len(received) THEN received[i] ELSE bytes[i - Len(received)]
  BY <1>1, ConcatProperties DEF FeedInsert, Inv, TypeOK
<1>4. TypeOK'
  <2>1. consumed_' \in 0 .. Len(buffer_')
    BY <1>1, <1>2, Sizes DEF FeedInsert, Inv
  <2> QED BY <1>2, <1>3, <2>1 DEF FeedInsert, Inv, TypeOK
<1>5. BufferIsSuffix'
  <2>1. dropped \in Nat /\ dropped' = dropped /\ dropped + Len(buffer_) = Len(received)
    BY DEF FeedInsert, Inv, TypeOK, BufferIsSuffix
  <2>2. \A i \in 1 .. Len(buffer_') : buffer_'[i] = received'[dropped + i]
    <3> TAKE i \in 1 .. Len(buffer_')
    <3>1. i \in 1 .. Len(buffer_) + Len(bytes) /\ dropped + i \in 1 .. Len(received) + Len(bytes)
      BY <1>1, <1>2, <2>1, Sizes DEF Inv
    <3>2. CASE i <= Len(buffer_)
      <4>1. i \in 1 .. Len(buffer_) /\ dropped + i <= Len(received)
        BY <3>1, <3>2, <2>1, Sizes DEF Inv
      <4>2. buffer_[i] = received[dropped + i]
        BY <4>1 DEF Inv, BufferIsSuffix
      <4> QED BY <1>2, <1>3, <3>1, <3>2, <4>1, <4>2
    <3>3. CASE ~ (i <= Len(buffer_))
      <4>1. ~ (dropped + i <= Len(received)) /\ i - Len(buffer_) = (dropped + i) - Len(received)
        <5>1. dropped \in Nat /\ Len(buffer_) \in Nat /\ Len(received) \in Nat
          BY <2>1, Sizes DEF Inv
        <5>2. i \in Int
          OBVIOUS
        <5> QED BY <5>1, <5>2, <3>3, <2>1
      <4>2. buffer_'[i] = bytes[i - Len(buffer_)]
        BY <1>2, <3>1, <3>3
      <4>3. received'[dropped + i] = bytes[(dropped + i) - Len(received)]
        <5>1. PICK j \in 1 .. Len(received) + Len(bytes) : j = dropped + i
          BY <3>1
        <5>2. received'[j] = bytes[j - Len(received)]
          BY <1>3, <4>1, <5>1
        <5> QED BY <5>1, <5>2
      <4> QED BY <4>1, <4>2, <4>3
    <3> QED BY <3>2, <3>3
  <2>3. dropped + Len(buffer_') = Len(received')
    <3>1. Len(buffer_) \in Nat /\ Len(received) \in Nat
      BY Sizes DEF Inv
    <3>2. Len(buffer_') = Len(buffer_) + Len(bytes) /\ Len(received') = Len(received) + Len(bytes)
      BY <1>2, <1>3
    <3> QED BY <1>1, <2>1, <3>1, <3>2
  <2> QED BY <2>1, <2>2, <2>3 DEF BufferIsSuffix
<1>6. HandledInside'
  BY <1>1, <1>3, Sizes DEF FeedInsert, Inv, HandledInside
<1>7. HandledFramesTile'
  <2>1. \A i \in 1 .. Len(handled) : FrameEnd(handled[i])' = FrameEnd(handled[i])
    <3> TAKE i \in 1 .. Len(handled)
    <3>1. handled[i] \in Nat /\ handled[i] + HeaderSize <= Len(received)
      BY Sizes DEF Inv, HandledInside
    <3>2. SubSeq(received \o bytes, handled[i] + 1, handled[i] + HeaderSize)
            = SubSeq(received, handled[i] + 1, handled[i] + HeaderSize)
      BY <1>1, <3>1, HeaderStable DEF Inv, TypeOK
    <3> QED BY <3>2 DEF FrameEnd, FeedInsert
  <2> QED BY <2>1 DEF FeedInsert, Inv, HandledFramesTile
<1>8. CallbackFrame'
  BY DEF FeedInsert, CallbackFrame
<1> QED BY <1>4, <1>5, <1>6, <1>7, <1>8 DEF Inv

\* Steps that clear the buffer begin a stream with nothing in it.
LEMMA ClearAllInv ==
    ASSUME Inv, ClearAll, UNCHANGED <<maxBodyLength_, frameSize>>,
           pc' = "idle", outcome' \in {"none", "false"}
    PROVE  Inv'
<1>1. TypeOK'
  BY EmptySeq DEF Inv, ClearAll, TypeOK
<1>2. BufferIsSuffix' /\ HandledFramesTile' /\ HandledInside' /\ CallbackFrame'
  BY DEF ClearAll, BufferIsSuffix, HandledFramesTile, HandledInside, CallbackFrame
<1> QED BY <1>1, <1>2 DEF Inv

\* Handing a frame to the callback computes frameSize and nothing else.
LEMMA FeedOfferInv ==
    ASSUME Inv, FeedOffer
    PROVE  Inv'
<1>1. DeclaredLength \in Int /\ maxBodyLength_ \in Nat /\ HeaderSize \in Nat
  BY DeclaredLengthType, Sizes DEF FeedOffer, Inv
<1>2. DeclaredLength >= 0
  BY <1>1 DEF FeedOffer, BadLength
<1>3. DeclaredLength' = DeclaredLength /\ Buffered' = Buffered
  BY DEF FeedOffer, parser, DeclaredLength, Buffered
<1>4. frameSize' \in Nat /\ frameSize' = HeaderSize + DeclaredLength
  BY <1>1, <1>2 DEF FeedOffer
<1>5. TypeOK'
  BY <1>4 DEF Inv, FeedOffer, parser, history, TypeOK
<1>6. BufferIsSuffix' /\ HandledInside'
  BY DEF Inv, FeedOffer, parser, history, BufferIsSuffix, HandledInside
<1>7. HandledFramesTile'
  BY DEF Inv, FeedOffer, parser, history, HandledFramesTile, FrameEnd
<1>8. CallbackFrame'
  BY <1>2, <1>3, <1>4 DEF FeedOffer, CallbackFrame, HasHeader, HasFrame
<1> QED BY <1>5, <1>6, <1>7, <1>8 DEF Inv

\* A callback that returns puts its frame behind the ones already handled.
LEMMA CallbackReturnsInv ==
    ASSUME Inv, CallbackReturns
    PROVE  Inv'
<1> DEFINE n == dropped + consumed_
<1>1. /\ dropped \in Nat /\ consumed_ \in Nat /\ frameSize \in Nat
      /\ Len(buffer_) \in Nat /\ Len(received) \in Nat /\ Len(handled) \in Nat
      /\ HeaderSize \in Nat
  BY Sizes DEF Inv, TypeOK
<1>2. /\ HasHeader /\ HasFrame /\ DeclaredLength >= 0
      /\ frameSize = HeaderSize + DeclaredLength /\ DeclaredLength \in Int
  BY DeclaredLengthType DEF Inv, CallbackFrame, CallbackReturns
<1>3. consumed_ + frameSize <= Len(buffer_)
  BY <1>1, <1>2 DEF HasFrame, Buffered
<1>4. n \in Nat /\ n + HeaderSize <= Len(received)
  BY <1>1, <1>2 DEF Inv, BufferIsSuffix, HasHeader, Buffered
<1>5. FrameEnd(n) = dropped' + consumed_'
  BY <1>1, <1>2, SameFrame DEF Inv, CallbackReturns
<1>6. \A x : FrameEnd(x)' = FrameEnd(x)
  BY DEF FrameEnd, CallbackReturns
<1>7. /\ handled' \in Seq(Nat) /\ Len(handled') = Len(handled) + 1
      /\ \A i \in 1 .. Len(handled) : handled'[i] = handled[i]
      /\ handled'[Len(handled) + 1] = n
  BY <1>4, AppendProperties DEF Inv, TypeOK, CallbackReturns
<1>8. handled' # <<>>
  BY <1>1, <1>7, LenProperties, EmptySeq
<1>9. TypeOK'
  BY <1>1, <1>3, <1>7 DEF Inv, TypeOK, CallbackReturns
<1>10. BufferIsSuffix'
  BY DEF Inv, CallbackReturns, BufferIsSuffix
<1>11. HandledInside'
  <2> SUFFICES ASSUME NEW i \in 1 .. Len(handled')
               PROVE  handled'[i] + HeaderSize <= Len(received)
    BY DEF HandledInside, CallbackReturns
  <2>1. CASE i \in 1 .. Len(handled)
    BY <1>7, <2>1 DEF Inv, HandledInside
  <2>2. CASE i = Len(handled) + 1
    BY <1>4, <1>7, <2>2
  <2> QED BY <1>1, <1>7, <2>1, <2>2
<1>12. HandledFramesTile'
  <2>1. handled'[1] = 0
    <3>1. CASE handled = <<>>
      BY <1>7, <3>1, EmptySeq DEF Inv, HandledFramesTile
    <3>2. CASE handled # <<>>
      <4>1. Len(handled) >= 1
        BY <1>1, <3>2, EmptySeq DEF Inv, TypeOK
      <4> QED BY <1>1, <1>7, <3>2, <4>1 DEF Inv, HandledFramesTile
    <3> QED BY <3>1, <3>2
  <2>2. ASSUME NEW i \in 1 .. Len(handled')
        PROVE  FrameEnd(handled'[i])
                 = IF i = Len(handled') THEN dropped' + consumed_' ELSE handled'[i + 1]
    <3>1. CASE i = Len(handled) + 1
      BY <1>5, <1>7, <3>1
    <3>2. CASE i \in 1 .. Len(handled)
      <4>1. FrameEnd(handled[i]) = IF i = Len(handled) THEN n ELSE handled[i + 1]
        BY <3>2 DEF Inv, HandledFramesTile
      <4>2. i # Len(handled')
        BY <1>1, <1>7, <3>2
      <4>3. handled'[i + 1] = IF i = Len(handled) THEN n ELSE handled[i + 1]
        BY <1>1, <1>7, <3>2, SMTT(30)
      <4> QED BY <1>7, <3>2, <4>1, <4>2, <4>3
    <3> QED BY <1>1, <1>7, <3>1, <3>2
  <2> QED BY <1>6, <1>8, <2>1, <2>2 DEF HandledFramesTile
<1>13. CallbackFrame'
  BY DEF CallbackReturns, CallbackFrame
<1> QED BY <1>9, <1>10, <1>11, <1>12, <1>13 DEF Inv

\* Leaving the loop: whether or not Compact erases the consumed prefix, the
\* buffer still is the rest of the stream and the read position the same.
LEMMA FeedWaitInv ==
    ASSUME Inv, FeedWait
    PROVE  Inv'
<1>1. /\ dropped \in Nat /\ consumed_ \in 0 .. Len(buffer_) /\ consumed_ \in Nat
      /\ Len(buffer_) \in Nat /\ Len(received) \in Nat
      /\ dropped + Len(buffer_) = Len(received)
  BY Sizes DEF Inv, TypeOK, BufferIsSuffix
<1>2. /\ buffer_' \in Seq(Byte)
      /\ consumed_' \in 0 .. Len(buffer_')
      /\ dropped' \in Nat
      /\ dropped' + consumed_' = dropped + consumed_
      /\ BufferIsSuffix'
  <2>1. CASE Erases
    <3>1. /\ buffer_' = SubSeq(buffer_, consumed_ + 1, Len(buffer_))
          /\ consumed_' = 0 /\ dropped' = dropped + consumed_ /\ received' = received
      BY <2>1 DEF FeedWait, Compact
    <3>2. /\ buffer_' \in Seq(Byte)
          /\ Len(buffer_') = Len(buffer_) - consumed_
          /\ \A i \in 1 .. Len(buffer_) - consumed_ : buffer_'[i] = buffer_[consumed_ + i]
      BY <1>1, <3>1, SuffixElements DEF Inv, TypeOK
    <3>3. ASSUME NEW i \in 1 .. Len(buffer_')
          PROVE  buffer_'[i] = received'[dropped' + i]
      <4> DEFINE j == consumed_ + i
      <4>1. j \in 1 .. Len(buffer_) /\ dropped' + i = dropped + j
        BY <1>1, <3>1, <3>2
      <4>2. buffer_'[i] = buffer_[j]
        BY <3>2
      <4> HIDE DEF j
      <4>3. buffer_[j] = received[dropped + j]
        BY <4>1 DEF Inv, BufferIsSuffix
      <4> QED BY <3>1, <4>1, <4>2, <4>3
    <3>4. dropped' + Len(buffer_') = Len(received')
      <4>1. Len(buffer_') = Len(buffer_) - consumed_ /\ Len(received') = Len(received)
        BY <3>1, <3>2
      <4>2. dropped + consumed_ + (Len(buffer_) - consumed_) = Len(received)
        BY <1>1
      <4> QED BY <3>1, <4>1, <4>2
    <3>5. BufferIsSuffix'
      BY <3>3, <3>4 DEF BufferIsSuffix
    <3> QED BY <1>1, <3>1, <3>2, <3>5
  <2>2. CASE ~ Erases
    <3>1. UNCHANGED <<buffer_, consumed_, dropped, received>>
      BY <2>2 DEF FeedWait, Compact
    <3> QED BY <3>1 DEF Inv, TypeOK, BufferIsSuffix
  <2> QED BY <2>1, <2>2
<1>3. TypeOK'
  BY <1>2 DEF Inv, FeedWait, TypeOK
<1>4. HandledInside'
  BY DEF Inv, FeedWait, HandledInside
<1>5. HandledFramesTile'
  BY <1>2 DEF Inv, FeedWait, HandledFramesTile, FrameEnd
<1>6. CallbackFrame'
  BY DEF FeedWait, CallbackFrame
<1> QED BY <1>2, <1>3, <1>4, <1>5, <1>6 DEF Inv

\* The steps that touch neither the buffer nor the stream.
LEMMA QuietInv ==
    ASSUME Inv, UNCHANGED <<buffer_, consumed_, received, dropped, handled>>,
           \/ CallbackThrows
           \/ \E value \in BodyLimits : SetMaxBodyLength(value)
           \/ UNCHANGED vars
    PROVE  Inv'
<1>1. DeclaredLength' = DeclaredLength /\ Buffered' = Buffered
  BY DEF DeclaredLength, Buffered
<1>2. TypeOK'
  BY DEF Inv, TypeOK, CallbackThrows, SetMaxBodyLength, vars, parser
<1>3. BufferIsSuffix' /\ HandledInside' /\ HandledFramesTile'
  BY DEF Inv, BufferIsSuffix, HandledInside, HandledFramesTile, FrameEnd
<1>4. CallbackFrame'
  <2>1. CASE CallbackThrows
    BY <2>1 DEF CallbackThrows, CallbackFrame
  <2>2. CASE UNCHANGED <<pc, frameSize>>
    BY <1>1, <2>2 DEF Inv, CallbackFrame, HasHeader, HasFrame
  <2> QED BY <2>1, <2>2 DEF SetMaxBodyLength, vars
<1> QED BY <1>2, <1>3, <1>4 DEF Inv

\* Every step of Feed, every outcome of a callback, SetMaxBodyLength and
\* Reset preserve the inductive invariant.
LEMMA StepInv == Inv /\ [Next]_vars => Inv'
<1> SUFFICES ASSUME Inv, [Next]_vars PROVE Inv'
  OBVIOUS
<1>1. CASE \E bytes \in Chunks : FeedInsert(bytes)
  BY <1>1, FeedInsertInv, ChunksAssumption
<1>2. CASE FeedReject
  BY <1>2, ClearAllInv DEF FeedReject
<1>3. CASE FeedOffer
  BY <1>3, FeedOfferInv
<1>4. CASE CallbackReturns
  BY <1>4, CallbackReturnsInv
<1>5. CASE CallbackThrows
  BY <1>5, QuietInv DEF CallbackThrows, parser, history
<1>6. CASE FeedWait
  BY <1>6, FeedWaitInv
<1>7. CASE \E value \in BodyLimits : SetMaxBodyLength(value)
  BY <1>7, QuietInv DEF SetMaxBodyLength, history
<1>8. CASE Reset
  BY <1>8, ClearAllInv DEF Reset
<1>9. CASE UNCHANGED vars
  BY <1>9, QuietInv DEF vars, parser, history
<1> QED BY <1>1, <1>2, <1>3, <1>4, <1>5, <1>6, <1>7, <1>8, <1>9 DEF Next

\* The inductive invariant holds throughout every run of the parser.
THEOREM Invariance == Spec => []Inv
<1> QED BY InitInv, StepInv, PTL DEF Spec

\* Feed, Compact and Reset keep every member of the parser in its type and the
\* read position inside the buffer, whatever bytes and callbacks they meet.
THEOREM TypeCorrect == Spec => []TypeOK
<1>1. Inv => TypeOK
  BY DEF Inv
<1> QED BY Invariance, <1>1, PTL

\* Feed and Compact lose no byte of the stream and repeat none.
THEOREM NoByteLost == Spec => []BufferIsSuffix
<1>1. Inv => BufferIsSuffix
  BY DEF Inv
<1> QED BY Invariance, <1>1, PTL

\* The frames that Feed has handed out and whose callbacks returned cut the
\* stream exactly where the headers in the stream say, whatever the chunks.
THEOREM ExactFraming == Spec => []HandledFramesTile
<1>1. Inv => HandledFramesTile
  BY DEF Inv
<1> QED BY Invariance, <1>1, PTL

-----------------------------------------------------------------------------
\* Compact's half rule: after a Feed that returned true, the buffer is smaller
\* than two frames of the largest size the caller allowed.
THEOREM BoundedBuffer == Spec => []BufferBounded
<1>1. Init => BufferBounded
  BY DEF Init, BufferBounded
<1>2. ASSUME Inv, BufferBounded, [Next]_vars PROVE BufferBounded'
  <2>1. /\ HeaderSize \in Nat /\ Len(buffer_) \in Nat /\ consumed_ \in Nat
        /\ consumed_ <= Len(buffer_) /\ maxBodyLength_ \in Nat
    BY <1>2, Sizes DEF Inv
  <2>2. CASE FeedWait
    <3>1. Buffered < HeaderSize + maxBodyLength_
      <4>1. CASE ~ HasHeader
        BY <2>1, <4>1 DEF HasHeader, Buffered
      <4>2. CASE HasHeader
        <5>1. ~ BadLength /\ ~ HasFrame /\ DeclaredLength \in Int
          BY <1>2, <2>2, <4>2, DeclaredLengthType DEF FeedWait, Inv
        <5> QED BY <2>1, <5>1 DEF BadLength, HasFrame, Buffered
      <4> QED BY <4>1, <4>2
    <3>2. Len(buffer_') < 2 * (HeaderSize + maxBodyLength_)
      <4>1. CASE Erases
        <5>1. buffer_' = SubSeq(buffer_, consumed_ + 1, Len(buffer_))
          BY <2>2, <4>1 DEF FeedWait, Compact
        <5>2. Len(buffer_') = Len(buffer_) - consumed_
          BY <1>2, <2>1, <5>1, SuffixElements DEF Inv, TypeOK
        <5> QED BY <2>1, <3>1, <5>2 DEF Buffered
      <4>2. CASE ~ Erases
        <5>1. Len(buffer_') = Len(buffer_)
          BY <2>2, <4>2 DEF FeedWait, Compact
        <5>2. consumed_ = 0 \/ ~ (consumed_ * 2 >= Len(buffer_))
          BY <4>2 DEF Erases
        <5> QED BY <2>1, <3>1, <5>1, <5>2 DEF Buffered
      <4> QED BY <4>1, <4>2
    <3>3. maxBodyLength_ \in BodyLimits
      BY <1>2 DEF Inv, TypeOK
    <3> QED BY <3>2, <3>3 DEF BufferBounded
  <2>3. CASE \E bytes \in Chunks : FeedInsert(bytes)
    BY <2>3 DEF FeedInsert, BufferBounded
  <2>4. CASE FeedReject \/ FeedOffer \/ CallbackReturns \/ CallbackThrows \/ Reset
    BY <2>4 DEF FeedReject, FeedOffer, CallbackReturns, CallbackThrows, Reset, BufferBounded
  <2>5. CASE \/ \E value \in BodyLimits : SetMaxBodyLength(value)
             \/ UNCHANGED vars
    BY <1>2, <2>5 DEF SetMaxBodyLength, vars, parser, BufferBounded
  <2> QED BY <1>2, <2>2, <2>3, <2>4, <2>5 DEF Next
<1> QED BY <1>1, <1>2, Invariance, PTL DEF Spec

-----------------------------------------------------------------------------
\* Compact moves the read position in the buffer, never in the stream.
LEMMA WaitKeepsPosition ==
    ASSUME Inv, FeedWait
    PROVE  dropped' + consumed_' = dropped + consumed_
<1>1. dropped \in Nat /\ consumed_ \in Nat
  BY Sizes DEF Inv, TypeOK
<1> QED BY <1>1 DEF FeedWait, Compact

\* An inserted chunk extends the stream.
LEMMA InsertExtends ==
    ASSUME Inv, NEW bytes \in Chunks, FeedInsert(bytes)
    PROVE  /\ received' \in Seq(Byte)
           /\ Len(received') >= Len(received)
           /\ SubSeq(received', 1, Len(received)) = received
<1>1. received \in Seq(Byte) /\ bytes \in Seq(Byte) /\ received' = received \o bytes
  BY ChunksAssumption DEF Inv, TypeOK, FeedInsert
<1>2. Len(received) \in Nat /\ Len(bytes) \in Nat
  BY <1>1, LenProperties
<1>3. received' \in Seq(Byte) /\ Len(received') = Len(received) + Len(bytes)
  BY <1>1, ConcatProperties
<1>4. SubSeq(received', 1, Len(received)) = SubSeq(received, 1, Len(received))
  BY <1>1, <1>2, SubSeqOfConcat1
<1>5. SubSeq(received, 1, Len(received)) = received
  BY <1>1, SubSeqFull
<1> QED BY <1>2, <1>3, <1>4, <1>5

\* What Feed hands out is a complete frame of the stream within the limit.
LEMMA OfferIsComplete ==
    ASSUME Inv, FeedOffer
    PROVE  Abstract!Complete(received, dropped + consumed_, maxBodyLength_)
<1> DEFINE n == dropped + consumed_
<1>1. /\ HeaderSize \in Nat /\ Len(buffer_) \in Nat /\ Len(received) \in Nat
      /\ dropped \in Nat /\ consumed_ \in Nat /\ maxBodyLength_ \in Nat
      /\ dropped + Len(buffer_) = Len(received)
  BY Sizes DEF Inv, TypeOK, BufferIsSuffix
<1>2. HasHeader /\ ~ BadLength /\ HasFrame /\ DeclaredLength \in Int
  BY DeclaredLengthType DEF Inv, FeedOffer
<1>3. FrameEnd(n) = n + HeaderSize + DeclaredLength
  BY <1>2, SameFrame DEF Inv
<1>4. Abstract!BodyLength(received, n) \in Int
  <2>1. n \in Nat /\ n + HeaderSize <= Len(received) /\ received \in Seq(Byte)
    BY <1>1, <1>2 DEF HasHeader, Buffered, Inv, TypeOK
  <2> HIDE DEF n
  <2> QED BY <2>1, HeaderLength DEF Abstract!BodyLength, Abstract!Header
<1>5. FrameEnd(n) = n + HeaderSize + Abstract!BodyLength(received, n)
  BY DEF FrameEnd, Abstract!BodyLength, Abstract!Header
<1>6. Abstract!BodyLength(received, n) = DeclaredLength
  BY <1>1, <1>2, <1>3, <1>4, <1>5
<1> QED
  BY <1>1, <1>2, <1>6 DEF Abstract!Complete, Abstract!Malformed, Abstract!HasHeader,
     Abstract!FrameSize, HasHeader, HasFrame, BadLength, Buffered

\* Every step of the parser is a step of the abstract frame stream or leaves
\* it unchanged: inserting is Arrive, offering is Offer, a returning callback
\* moves past the frame, Compact is invisible.
LEMMA RefinesStep == Inv /\ [Next]_vars => [Abstract!Next]_(Abstract!vars)
<1> SUFFICES ASSUME Inv, [Next]_vars PROVE [Abstract!Next]_(Abstract!vars)
  OBVIOUS
<1>1. CASE \E bytes \in Chunks : FeedInsert(bytes)
  <2>1. PICK bytes \in Chunks : FeedInsert(bytes)
    BY <1>1
  <2>2. Abstract!Arrive
    BY <2>1, InsertExtends DEF FeedInsert, Abstract!Arrive
  <2> QED BY <2>2 DEF Abstract!Next
<1>2. CASE FeedReject \/ Reset
  <2>1. Abstract!Abandon
    BY <1>2 DEF FeedReject, Reset, ClearAll, Abstract!Abandon
  <2> QED BY <2>1 DEF Abstract!Next
<1>3. CASE FeedOffer
  <2>1. Abstract!Offer
    BY <1>3, OfferIsComplete DEF FeedOffer, parser, history, Abstract!Offer
  <2> QED BY <2>1 DEF Abstract!Next
<1>4. CASE CallbackReturns
  <2>1. /\ HasHeader /\ frameSize = HeaderSize + DeclaredLength /\ DeclaredLength \in Int
        /\ dropped \in Nat /\ consumed_ \in Nat /\ HeaderSize \in Nat
    BY <1>4, Sizes, DeclaredLengthType DEF CallbackReturns, Inv, CallbackFrame, TypeOK
  <2>2. dropped' + consumed_' = FrameEnd(dropped + consumed_)
    BY <1>4, <2>1, SameFrame DEF CallbackReturns, Inv
  <2>3. FrameEnd(dropped + consumed_)
          = dropped + consumed_ + Abstract!FrameSize(received, dropped + consumed_)
    <3> DEFINE n == dropped + consumed_
    <3>1. n \in Nat /\ n + HeaderSize <= Len(received) /\ received \in Seq(Byte)
      BY <2>1, Sizes DEF HasHeader, Buffered, Inv, BufferIsSuffix, TypeOK
    <3> HIDE DEF n
    <3>2. Abstract!BodyLength(received, n) \in Int
      BY <3>1, HeaderLength DEF Abstract!BodyLength, Abstract!Header
    <3>3. FrameEnd(n) = n + HeaderSize + Abstract!BodyLength(received, n)
      BY DEF FrameEnd, Abstract!BodyLength, Abstract!Header
    <3>4. FrameEnd(n) = n + Abstract!FrameSize(received, n)
      BY <2>1, <3>1, <3>2, <3>3 DEF Abstract!FrameSize
    <3> QED BY <3>4 DEF n
  <2>4. Abstract!Handle
    BY <1>4, <2>2, <2>3 DEF CallbackReturns, Abstract!Handle
  <2> QED BY <2>4 DEF Abstract!Next
<1>5. CASE CallbackThrows
  <2>1. Abstract!Refuse
    BY <1>5 DEF CallbackThrows, parser, history, Abstract!Refuse
  <2> QED BY <2>1 DEF Abstract!Next
<1>6. CASE FeedWait
  <2>1. UNCHANGED Abstract!vars
    BY <1>6, WaitKeepsPosition DEF FeedWait, Abstract!vars
  <2> QED BY <2>1
<1>7. CASE \E value \in BodyLimits : SetMaxBodyLength(value)
  <2>1. Abstract!SetLimit
    BY <1>7, LimitsAssumption DEF SetMaxBodyLength, history, Abstract!SetLimit
  <2> QED BY <2>1 DEF Abstract!Next
<1>8. CASE UNCHANGED vars
  <2>1. UNCHANGED Abstract!vars
    BY <1>8 DEF vars, parser, history, Abstract!vars
  <2> QED BY <2>1
<1> QED BY <1>1, <1>2, <1>3, <1>4, <1>5, <1>6, <1>7, <1>8 DEF Next

\* The parser implements FrameStream: each step of Feed is a step of the
\* abstract stream of frames, or none.
THEOREM Refinement == Spec => ImplementsFrameStream
<1>1. Init => Abstract!Init
  BY LimitsAssumption DEF Init, Abstract!Init
<1> QED BY <1>1, Invariance, RefinesStep, PTL DEF Spec, ImplementsFrameStream, Abstract!Spec

-----------------------------------------------------------------------------
\* Compact leaves the header at the read position as the loop saw it.
LEMMA WaitKeepsHeader ==
    ASSUME Inv, FeedWait
    PROVE  /\ Buffered' = Buffered
           /\ HasHeader => DeclaredLength' = DeclaredLength
<1>1. /\ buffer_ \in Seq(Byte) /\ consumed_ \in 0 .. Len(buffer_) /\ consumed_ \in Nat
      /\ Len(buffer_) \in Nat /\ HeaderSize \in Nat
  BY Sizes DEF Inv, TypeOK
<1>2. CASE ~ Erases
  BY <1>2 DEF FeedWait, Compact, Buffered, DeclaredLength
<1>3. CASE Erases
  <2>1. buffer_' = SubSeq(buffer_, consumed_ + 1, Len(buffer_)) /\ consumed_' = 0
    BY <1>3 DEF FeedWait, Compact
  <2>2. /\ buffer_' \in Seq(Byte)
        /\ Len(buffer_') = Len(buffer_) - consumed_
        /\ \A i \in 1 .. Len(buffer_) - consumed_ : buffer_'[i] = buffer_[consumed_ + i]
    BY <1>1, <2>1, SuffixElements
  <2>3. Buffered' = Buffered
    BY <1>1, <2>1, <2>2 DEF Buffered
  <2>4. ASSUME HasHeader PROVE DeclaredLength' = DeclaredLength
    <3>1. consumed_ + HeaderSize <= Len(buffer_) /\ 0 + HeaderSize <= Len(buffer_')
      BY <1>1, <2>2, <2>4 DEF HasHeader, Buffered
    <3>2. \A i \in 1 .. HeaderSize : buffer_'[0 + i] = buffer_[consumed_ + i]
      BY <1>1, <2>2, <3>1
    <3>3. SubSeq(buffer_', 0 + 1, 0 + HeaderSize)
            = SubSeq(buffer_, consumed_ + 1, consumed_ + HeaderSize)
      BY <1>1, <2>2, <3>1, <3>2, WindowEqual
    <3> QED BY <2>1, <3>3 DEF DeclaredLength
  <2> QED BY <2>3, <2>4
<1> QED BY <1>2, <1>3

\* A Feed that returned true left no complete frame behind, and neither a new
\* length limit nor anything else before the next Feed makes one complete.
THEOREM Drained == Spec => []DrainedAtReturn
<1>1. Init => DrainedAtReturn
  BY DEF Init, DrainedAtReturn
<1>2. ASSUME Inv, DrainedAtReturn, [Next]_vars PROVE DrainedAtReturn'
  <2>1. CASE FeedWait
    <3>1. ASSUME HasHeader' PROVE ~ HasFrame'
      <4>1. HasHeader /\ Buffered' = Buffered /\ DeclaredLength' = DeclaredLength
        BY <1>2, <2>1, <3>1, WaitKeepsHeader DEF HasHeader
      <4> QED BY <2>1, <4>1 DEF FeedWait, HasFrame
    <3> QED BY <3>1 DEF DrainedAtReturn
  <2>2. CASE \E bytes \in Chunks : FeedInsert(bytes)
    BY <2>2 DEF FeedInsert, DrainedAtReturn
  <2>3. CASE FeedReject \/ FeedOffer \/ CallbackReturns \/ CallbackThrows \/ Reset
    BY <2>3 DEF FeedReject, FeedOffer, CallbackReturns, CallbackThrows, Reset, DrainedAtReturn
  <2>4. CASE \/ \E value \in BodyLimits : SetMaxBodyLength(value)
             \/ UNCHANGED vars
    BY <1>2, <2>4 DEF SetMaxBodyLength, vars, parser, DrainedAtReturn, HasHeader, HasFrame,
       Buffered, DeclaredLength
  <2> QED BY <1>2, <2>1, <2>2, <2>3, <2>4 DEF Next
<1> QED BY <1>1, <1>2, Invariance, PTL DEF Spec

-----------------------------------------------------------------------------
(***************************************************************************)
(* The connection.                                                         *)
(***************************************************************************)
\* The bytes that WritePacket makes of a packet in a cleared buffer.
Frame(packet) == WritePacket(<<>>, packet[1], packet[2])

AnyPacket == Byte \X Seq(Byte)

\* The header has two bytes, in every instance of the model.
LEMMA HeaderIsTwo == HeaderSize = 2 /\ HeaderSize \in Nat /\ Radix \in Nat
BY HeaderAssumption

\* A frame is the id, the length modulo the radix, and the body.
LEMMA FrameBytes ==
    ASSUME NEW packet \in AnyPacket
    PROVE  /\ Frame(packet) \in Seq(Byte)
           /\ Len(Frame(packet)) = 2 + Len(packet[2])
           /\ Len(packet[2]) \in Nat
           /\ Frame(packet)[1] = packet[1]
           /\ Frame(packet)[2] = Len(packet[2]) % Radix
           /\ \A j \in 1 .. Len(packet[2]) : Frame(packet)[2 + j] = packet[2][j]
<1> DEFINE id     == packet[1]
           body   == packet[2]
           blank  == [i \in 1 .. HeaderSize |-> 0]
           filled == <<>> \o blank \o body
           header == WriteHeader(id, Len(filled) - Len(<<>>) - HeaderSize)
<1>1. id \in Byte /\ body \in Seq(Byte) /\ Len(body) \in Nat
  BY LenProperties DEF AnyPacket
<1>2. Byte \subseteq Int /\ Radix \in Nat /\ Radix > 0
  BY <1>1, HeaderAssumption
<1> HIDE DEF id, body
<1>3. blank \in Seq(Int) /\ Len(blank) = 2
  BY HeaderIsTwo
<1>4. body \in Seq(Int)
  BY <1>1, <1>2, SeqMonotonic
<1> HIDE DEF blank
<1>5. <<>> \o blank = blank
  BY <1>3, ConcatEmptySeq
<1>6. /\ filled \in Seq(Int) /\ Len(filled) = 2 + Len(body)
      /\ \A i \in 1 .. 2 + Len(body) : filled[i] = IF i <= 2 THEN blank[i] ELSE body[i - 2]
  <2>1. filled = blank \o body
    BY <1>5
  <2> HIDE DEF filled
  <2>2. /\ blank \o body \in Seq(Int) /\ Len(blank \o body) = Len(blank) + Len(body)
        /\ \A i \in 1 .. Len(blank) + Len(body) :
              (blank \o body)[i] = IF i <= Len(blank) THEN blank[i] ELSE body[i - Len(blank)]
    BY <1>3, <1>4, ConcatProperties
  <2> QED BY <1>3, <2>1, <2>2
<1> HIDE DEF filled
<1>7. Len(filled) - Len(<<>>) - HeaderSize = Len(body)
  BY <1>1, <1>6, HeaderIsTwo
<1>8. header = <<id, Len(body) % Radix>>
  BY <1>7 DEF WriteHeader
<1> HIDE DEF header
<1>9. Frame(packet) = [i \in 1 .. 2 + Len(body) |->
                          IF i \in 1 .. 2 THEN header[i] ELSE filled[i]]
  <2>1. DOMAIN filled = 1 .. 2 + Len(body)
    BY <1>6, LenProperties
  <2>2. ASSUME NEW i \in Int
        PROVE  /\ i \in Len(<<>>) + 1 .. Len(<<>>) + HeaderSize <=> i \in 1 .. 2
               /\ header[i - Len(<<>>)] = header[i]
    <3>1. Len(<<>>) = 0 /\ i - 0 = i
      OBVIOUS
    <3> QED BY <3>1, HeaderIsTwo
  <2>3. Frame(packet) =
          [i \in DOMAIN filled |->
              IF i \in Len(<<>>) + 1 .. Len(<<>>) + HeaderSize THEN header[i - Len(<<>>)] ELSE filled[i]]
    BY DEF Frame, WritePacket, filled, header, blank, id, body
  <2> QED BY <1>1, <2>1, <2>2, <2>3
<1>10. Len(body) % Radix \in Byte
  BY <1>1, <1>2, HeaderAssumption
<1>11. \A i \in 1 .. 2 + Len(body) : (IF i \in 1 .. 2 THEN header[i] ELSE filled[i]) \in Byte
  <2> TAKE i \in 1 .. 2 + Len(body)
  <2>1. CASE i \in 1 .. 2
    BY <1>1, <1>8, <1>10, <2>1
  <2>2. CASE i \notin 1 .. 2
    <3>1. i - 2 \in 1 .. Len(body) /\ filled[i] = body[i - 2]
      BY <1>1, <1>6, <2>2
    <3> QED BY <1>1, <2>2, <3>1, ElementOfSeq
  <2> QED BY <2>1, <2>2
<1>12. Frame(packet) \in Seq(Byte) /\ Len(Frame(packet)) = 2 + Len(body)
  <2>1. 2 + Len(body) \in Nat
    BY <1>1
  <2>2. Frame(packet) \in [1 .. 2 + Len(body) -> Byte]
    BY <1>9, <1>11
  <2> QED BY <2>1, <2>2
<1>13. Frame(packet)[1] = id /\ Frame(packet)[2] = Len(body) % Radix
  BY <1>1, <1>8, <1>9
<1>14. ASSUME NEW j \in 1 .. Len(body)
       PROVE  Frame(packet)[2 + j] = body[j]
  <2>1. 2 + j \in 1 .. 2 + Len(body) /\ 2 + j \notin 1 .. 2 /\ 2 + j - 2 = j
    BY <1>1
  <2>2. filled[2 + j] = body[2 + j - 2]
    BY <1>6, <2>1, SMTT(30)
  <2> QED BY <1>9, <2>1, <2>2
<1> QED BY <1>1, <1>12, <1>13, <1>14 DEF id, body

\* A length below the radix is written as it is.
LEMMA SmallModulo ==
    ASSUME NEW n \in Nat, NEW r \in Nat, n < r
    PROVE  n % r = n
<1> DEFINE q == n \div r
           m == n % r
<1>1. q \in Int /\ m \in Int /\ n = r * q + m
  BY Z3
<1>2. 0 <= m /\ m < r
  BY Z3
<1> HIDE DEF q, m
<1>3. CASE q = 0
  BY <1>1, <1>3 DEF m
<1>4. CASE q >= 1
  <2>1. r * q >= r
    BY <1>1, <1>4
  <2> QED BY <1>1, <1>2, <2>1
<1>5. CASE q <= -1
  <2>1. r * q <= -r
    BY <1>1, <1>5
  <2> QED BY <1>1, <1>2, <2>1
<1> QED BY <1>1, <1>3, <1>4, <1>5

\* A frame whose length is read back as a length: it is the body's.
LEMMA FrameLength ==
    ASSUME NEW packet \in AnyPacket, Len(packet[2]) < Radix,
           NEW h \in [1 .. HeaderSize -> Byte], h[2] = Frame(packet)[2],
           ReadBodyLength(h) >= 0
    PROVE  ReadBodyLength(h) = Len(packet[2])
<1>1. ReadBodyLength(h) = IF h[2] < Radix \div 2 THEN h[2] ELSE h[2] - Radix
  BY PolicyAssumption DEF ReadHeaderLength
<1>2. Len(packet[2]) \in Nat /\ Radix \in Nat /\ h[2] = Len(packet[2]) % Radix
  BY FrameBytes, HeaderIsTwo
<1>4. h[2] = Len(packet[2])
  BY <1>2, SmallModulo
<1>5. ASSUME NEW n \in Nat, NEW r \in Nat, n < r, NEW v,
             v = IF n < r \div 2 THEN n ELSE n - r, v >= 0
      PROVE  v = n
  BY <1>5
<1> QED BY <1>1, <1>2, <1>4, <1>5

-----------------------------------------------------------------------------
(***************************************************************************)
(* The inductive invariant of the way from WritePacket to the callback.    *)
(* The packets written fix the offsets at which their frames begin in the  *)
(* stream, whether or not all of it arrives: c[i] is where the frame of    *)
(* the packet i ends.                                                      *)
(***************************************************************************)
ClientTypeOK ==
    /\ toServer \in Seq(Byte)
    /\ written \in Seq(Packets)
    /\ peer \in BOOLEAN
    /\ conn \in {"running", "closed"}

Cut(c) ==
    /\ c \in [0 .. Len(written) -> Nat]
    /\ c[0] = 0
    /\ \A i \in 1 .. Len(written) : c[i] = c[i - 1] + Len(Frame(written[i]))
    /\ \A i \in 0 .. Len(written) : c[i] <= c[Len(written)]

\* The byte at a position of the stream, received or on its way.
StreamAt(at) == IF at <= Len(received) THEN received[at] ELSE toServer[at - Len(received)]

\* How much of the stream there is; what is on its way to a closed connection
\* is not part of it.
Known == Len(received) + (IF conn = "running" THEN Len(toServer) ELSE 0)

\* The stream is the frames of the packets written, up to where it was lost.
Wire(c) ==
    /\ Known <= c[Len(written)]
    /\ conn = "running" /\ peer => Known = c[Len(written)]
    /\ \A i \in 1 .. Len(written) : \A j \in 1 .. Len(Frame(written[i])) :
          c[i - 1] + j <= Known => StreamAt(c[i - 1] + j) = Frame(written[i])[j]

\* The frames handled are the first ones.
InStep(c) ==
    /\ Len(handled) <= Len(written)
    /\ dropped + consumed_ = c[Len(handled)]
    /\ \A i \in 1 .. Len(handled) : handled[i] = c[i - 1]

OnTheWay == \E c : Cut(c) /\ Wire(c) /\ InStep(c)

ConnInv ==
    /\ Inv
    /\ ClientTypeOK
    /\ conn = "closed" => pc = "idle"
    /\ pc = "callback" => DeclaredLength <= maxBodyLength_
    /\ OnTheWay

\* The packets written are packets, and so are their frames.
LEMMA WrittenPackets ==
    ASSUME ClientTypeOK, NEW i \in 1 .. Len(written)
    PROVE  /\ written[i] \in AnyPacket /\ Len(written[i][2]) < Radix
           /\ Frame(written[i]) \in Seq(Byte)
           /\ Len(Frame(written[i])) = 2 + Len(written[i][2]) /\ Len(written[i][2]) \in Nat
<1>1. written[i] \in Packets
  BY ElementOfSeq DEF ClientTypeOK
<1>2. written[i] \in AnyPacket /\ Len(written[i][2]) < Radix
  BY <1>1, PacketsAssumption DEF AnyPacket
<1> QED BY <1>2, FrameBytes

\* Sizes that the steps compare.
LEMMA ConnSizes ==
    ASSUME Inv, ClientTypeOK
    PROVE  /\ Len(received) \in Nat /\ Len(toServer) \in Nat /\ Len(written) \in Nat
           /\ Len(handled) \in Nat /\ dropped \in Nat /\ consumed_ \in Nat
           /\ Known \in Nat /\ Len(received) <= Known
           /\ dropped + consumed_ <= Len(received)
<1>1. /\ Len(received) \in Nat /\ Len(toServer) \in Nat /\ Len(written) \in Nat
      /\ Len(handled) \in Nat /\ dropped \in Nat /\ consumed_ \in Nat
      /\ consumed_ <= Len(buffer_) /\ Len(buffer_) \in Nat
  BY Sizes, LenProperties DEF Inv, TypeOK, ClientTypeOK
<1>2. dropped + consumed_ <= Len(received)
  BY <1>1 DEF Inv, BufferIsSuffix
<1>3. Known \in Nat /\ Len(received) <= Known
  BY <1>1 DEF Known
<1> QED BY <1>1, <1>2, <1>3

\* A new connection: nothing is written, sent or received.
LEMMA ConnInitInv == ConnInit => ConnInv
<1> SUFFICES ASSUME ConnInit PROVE ConnInv
  OBVIOUS
<1>1. Inv
  BY InitInv DEF ConnInit
<1>2. ClientTypeOK /\ written = <<>> /\ received = <<>> /\ toServer = <<>> /\ handled = <<>>
      /\ dropped = 0 /\ consumed_ = 0 /\ pc = "idle"
  BY DEF ConnInit, ClientInit, Init, ClientTypeOK
<1> DEFINE c == [i \in 0 .. 0 |-> 0]
<1>3. Len(<<>>) = 0 /\ c[0] = 0 /\ c \in [0 .. 0 -> Nat]
  OBVIOUS
<1> HIDE DEF c
<1>4. Cut(c)
  BY <1>2, <1>3 DEF Cut
<1>5. Known = 0
  BY <1>2, <1>3 DEF Known
<1>6. Wire(c)
  BY <1>2, <1>3, <1>5 DEF Wire
<1>7. InStep(c)
  BY <1>2, <1>3 DEF InStep
<1> QED BY <1>1, <1>2, <1>4, <1>6, <1>7 DEF ConnInv, OnTheWay

-----------------------------------------------------------------------------
(***************************************************************************)
(* The steps.                                                              *)
(***************************************************************************)
\* What the wire needs of a step that writes no packet: the stream there is
\* afterwards is a part of the stream there was.
LEMMA WireShrinks ==
    ASSUME Inv, ClientTypeOK, (Known \in Nat)', written' = written, NEW c, Cut(c), Wire(c),
           Known' <= Known, conn' = "running" /\ peer' => Known' = Known /\ conn = "running" /\ peer,
           \A n \in 1 .. Known : n <= Known' => StreamAt(n)' = StreamAt(n)
    PROVE  Cut(c)' /\ Wire(c)'
<1>1. Known \in Nat /\ Len(written) \in Nat
  BY ConnSizes
<1>2. c \in [0 .. Len(written) -> Nat]
  BY DEF Cut
<1>3. Cut(c)'
  BY DEF Cut, Frame, WritePacket, WriteHeader
<1>4. Known' <= c[Len(written)]
  BY <1>1, <1>2 DEF Wire
<1>5. ASSUME NEW i \in 1 .. Len(written), NEW j \in 1 .. Len(Frame(written[i])), c[i - 1] + j <= Known'
      PROVE  StreamAt(c[i - 1] + j)' = Frame(written[i])[j]
  <2>1. c[i - 1] \in Nat
    BY <1>1, <1>2
  <2> DEFINE n == c[i - 1] + j
  <2>2. n \in 1 .. Known /\ n <= Known'
    BY <1>1, <1>5, <2>1
  <2>3. StreamAt(n) = Frame(written[i])[j]
    BY <2>2 DEF Wire
  <2> HIDE DEF n
  <2>4. StreamAt(n)' = StreamAt(n)
    BY <2>2
  <2> QED BY <2>3, <2>4 DEF n
<1>6. Wire(c)'
  <2>1. \A i : Frame(written[i])' = Frame(written[i])
    BY DEF Frame, WritePacket, WriteHeader
  <2>2. conn' = "running" /\ peer' => Known' = c[Len(written')]
    BY DEF Wire
  <2>3. Known' <= c[Len(written')]
    BY <1>4
  <2> QED BY <1>5, <2>1, <2>2, <2>3 DEF Wire
<1> QED BY <1>3, <1>6

\* Steps that move nothing between the ends of the stream.
LEMMA QuietWay ==
    ASSUME ConnInv, UNCHANGED <<received, toServer, written, handled>>,
           (dropped + consumed_)' = dropped + consumed_,
           conn' \in {conn, "closed"}, peer' = peer
    PROVE  OnTheWay'
<1>1. PICK c : Cut(c) /\ Wire(c) /\ InStep(c)
  BY DEF ConnInv, OnTheWay
<1>2. Inv /\ ClientTypeOK /\ Len(received) \in Nat /\ Len(toServer) \in Nat /\ Known \in Nat
  BY ConnSizes DEF ConnInv
<1>3. /\ Known' \in Nat /\ Known' <= Known
      /\ conn' = "running" /\ peer' => Known' = Known /\ conn = "running" /\ peer
  BY <1>2 DEF Known, ClientTypeOK
<1>4. \A n \in 1 .. Known : n <= Known' => StreamAt(n)' = StreamAt(n)
  BY DEF StreamAt
<1>5. Cut(c)' /\ Wire(c)'
  BY <1>1, <1>2, <1>3, <1>4, WireShrinks
<1>6. InStep(c)'
  BY <1>1 DEF InStep
<1> QED BY <1>5, <1>6 DEF OnTheWay

\* recv takes bytes from the front of what is on its way.
LEMMA RecvInv ==
    ASSUME ConnInv, NEW n \in 1 .. RecvSize, Recv(n)
    PROVE  ConnInv'
<1> DEFINE got  == SubSeq(toServer, 1, n)
           rest == SubSeq(toServer, n + 1, Len(toServer))
<1>1. /\ Inv /\ ClientTypeOK /\ received \in Seq(Byte) /\ toServer \in Seq(Byte)
      /\ Len(received) \in Nat /\ Len(toServer) \in Nat /\ Known \in Nat
  BY ConnSizes DEF ConnInv, Inv, TypeOK, ClientTypeOK
<1>2. /\ conn = "running" /\ n \in Nat /\ n <= Len(toServer) /\ n >= 1
      /\ FeedInsert(got) /\ toServer' = rest
      /\ UNCHANGED <<peer, written, conn>>
  BY <1>1 DEF Recv, InRecv, connection
<1>3. received' = received \o got /\ handled' = handled /\ dropped' = dropped /\ consumed_' = consumed_
      /\ pc' = "loop"
  BY <1>2 DEF FeedInsert
<1>4. got \in Seq(Byte) /\ Len(got) = n /\ \A i \in 1 .. n : got[i] = toServer[i]
  <2>1. 0 + n <= Len(toServer) /\ 0 + 1 = 1 /\ 0 + n = n
    BY <1>1, <1>2
  <2>2. /\ SubSeq(toServer, 0 + 1, 0 + n) \in Seq(Byte) /\ Len(SubSeq(toServer, 0 + 1, 0 + n)) = n
        /\ \A i \in 1 .. n : SubSeq(toServer, 0 + 1, 0 + n)[i] = toServer[0 + i]
    BY <1>1, <1>2, <2>1, WindowElements
  <2> QED BY <1>2, <2>1, <2>2
<1>5. rest \in Seq(Byte) /\ Len(rest) = Len(toServer) - n
      /\ \A i \in 1 .. Len(toServer) - n : rest[i] = toServer[n + i]
  <2>1. n \in 0 .. Len(toServer)
    BY <1>1, <1>2
  <2> QED BY <1>1, <2>1, SuffixElements
<1> HIDE DEF got, rest
<1>6. /\ Len(received') = Len(received) + n
      /\ \A i \in 1 .. Len(received) + n :
            received'[i] = IF i <= Len(received) THEN received[i] ELSE got[i - Len(received)]
  BY <1>1, <1>3, <1>4, ConcatProperties
<1>7. Inv'
  BY <1>1, <1>2, <1>4, FeedInsertInv
<1>8. ClientTypeOK'
  BY <1>1, <1>2, <1>5 DEF ClientTypeOK
<1>9. Known' = Known
  BY <1>1, <1>2, <1>5, <1>6 DEF Known
<1>10. ASSUME NEW i \in 1 .. Known PROVE StreamAt(i)' = StreamAt(i)
  <2>1. Known = Len(received) + Len(toServer)
    BY <1>2 DEF Known
  <2>2. CASE i <= Len(received)
    <3>1. i <= Len(received') /\ received'[i] = received[i]
      BY <1>1, <1>2, <1>6, <2>2
    <3> QED BY <2>2, <3>1 DEF StreamAt
  <2>3. CASE ~ (i <= Len(received)) /\ i <= Len(received) + n
    <3> DEFINE k == i - Len(received)
    <3>1. k \in 1 .. n /\ i \in 1 .. Len(received) + n
      BY <1>1, <1>2, <2>3
    <3>2. received'[i] = got[k]
      BY <1>6, <2>3, <3>1
    <3> HIDE DEF k
    <3>3. received'[i] = toServer[k]
      BY <1>4, <3>1, <3>2
    <3> QED BY <1>6, <2>3, <3>3 DEF StreamAt, k
  <2>4. CASE ~ (i <= Len(received) + n)
    <3> DEFINE k == i - (Len(received) + n)
    <3>1. k \in 1 .. Len(toServer) - n /\ n + k = i - Len(received) /\ ~ (i <= Len(received))
      BY <1>1, <1>2, <2>1, <2>4
    <3> HIDE DEF k
    <3>2. rest[k] = toServer[n + k]
      BY <1>5, <3>1
    <3>3. k = i - Len(received') /\ ~ (i <= Len(received'))
      BY <1>6, <2>4 DEF k
    <3>4. StreamAt(i)' = rest[k]
      BY <1>2, <3>3 DEF StreamAt
    <3>5. StreamAt(i) = toServer[n + k]
      BY <3>1 DEF StreamAt
    <3> QED BY <3>2, <3>4, <3>5
  <2> QED BY <2>2, <2>3, <2>4
<1>11. PICK c : Cut(c) /\ Wire(c) /\ InStep(c)
  BY DEF ConnInv, OnTheWay
<1>12. Cut(c)' /\ Wire(c)'
  <2>1. Known' \in Nat /\ Known' <= Known
    BY <1>1, <1>9
  <2> QED BY <1>1, <1>2, <1>9, <1>10, <1>11, <2>1, WireShrinks
<1>13. InStep(c)'
  BY <1>2, <1>3, <1>11 DEF InStep
<1> QED BY <1>2, <1>3, <1>7, <1>8, <1>12, <1>13 DEF ConnInv, OnTheWay

\* A rejected length clears the parser: nothing is handled, nothing is there.
LEMMA RejectedInv ==
    ASSUME ConnInv, Rejected
    PROVE  ConnInv'
<1>1. Inv /\ ClientTypeOK
  BY DEF ConnInv
<1>2. Inv'
  BY <1>1, ClearAllInv DEF Rejected, FeedReject
<1>3. /\ received' = <<>> /\ handled' = <<>> /\ dropped' = 0 /\ consumed_' = 0 /\ pc' = "idle"
      /\ conn' = "closed" /\ UNCHANGED <<toServer, peer, written>>
  BY DEF Rejected, FeedReject, ClearAll, client
<1>4. Len(<<>>) = 0
  OBVIOUS
<1>5. Known' = 0
  BY <1>3, <1>4 DEF Known
<1>6. PICK c : Cut(c) /\ Wire(c) /\ InStep(c)
  BY DEF ConnInv, OnTheWay
<1>7. Len(written) \in Nat /\ Known \in Nat /\ Len(handled) \in Nat
  BY <1>1, ConnSizes
<1>8. Cut(c)' /\ Wire(c)'
  <2>1. Known' \in Nat /\ Known' <= Known /\ ~ (conn' = "running")
    BY <1>3, <1>5, <1>7
  <2>2. \A n \in 1 .. Known : n <= Known' => StreamAt(n)' = StreamAt(n)
    BY <1>5, <1>7
  <2> QED BY <1>1, <1>3, <1>6, <2>1, <2>2, WireShrinks
<1>9. InStep(c)'
  <2>1. c[0] = 0
    BY <1>6 DEF Cut
  <2> QED BY <1>3, <1>4, <1>7, <2>1 DEF InStep
<1>10. ClientTypeOK'
  BY <1>1, <1>3 DEF ClientTypeOK
<1> QED BY <1>2, <1>3, <1>8, <1>9, <1>10 DEF ConnInv, OnTheWay

\* The client's socket is closed, perhaps in the middle of a frame.
LEMMA ClosesWay ==
    ASSUME ConnInv, NEW n \in 0 .. Len(toServer),
           peer' = FALSE, toServer' = SubSeq(toServer, 1, n),
           UNCHANGED <<received, written, handled, dropped, consumed_, conn>>
    PROVE  OnTheWay' /\ toServer' \in Seq(Byte)
<1>1. /\ Inv /\ ClientTypeOK /\ toServer \in Seq(Byte)
      /\ Len(received) \in Nat /\ Len(toServer) \in Nat /\ Known \in Nat
  BY ConnSizes DEF ConnInv, ClientTypeOK
<1>2. toServer' \in Seq(Byte) /\ Len(toServer') = n /\ \A i \in 1 .. n : toServer'[i] = toServer[i]
  <2>1. n \in Nat /\ 0 + n <= Len(toServer) /\ 0 + 1 = 1 /\ 0 + n = n
    BY <1>1
  <2>2. /\ SubSeq(toServer, 0 + 1, 0 + n) \in Seq(Byte) /\ Len(SubSeq(toServer, 0 + 1, 0 + n)) = n
        /\ \A i \in 1 .. n : SubSeq(toServer, 0 + 1, 0 + n)[i] = toServer[0 + i]
    BY <1>1, <2>1, WindowElements
  <2> QED BY <2>1, <2>2
<1>3. Known' \in Nat /\ Known' <= Known
  BY <1>1, <1>2 DEF Known
<1>4. ASSUME NEW i \in 1 .. Known, i <= Known' PROVE StreamAt(i)' = StreamAt(i)
  <2>1. CASE i <= Len(received)
    BY <2>1 DEF StreamAt
  <2>2. CASE ~ (i <= Len(received))
    <3> DEFINE k == i - Len(received)
    <3>1. k \in 1 .. n
      BY <1>1, <1>2, <1>4, <2>2 DEF Known
    <3> HIDE DEF k
    <3>2. toServer'[k] = toServer[k]
      BY <1>2, <3>1
    <3> QED BY <2>2, <3>2 DEF StreamAt, k
  <2> QED BY <2>1, <2>2
<1>5. PICK c : Cut(c) /\ Wire(c) /\ InStep(c)
  BY DEF ConnInv, OnTheWay
<1>6. Cut(c)' /\ Wire(c)'
  BY <1>1, <1>3, <1>4, <1>5, WireShrinks
<1>7. InStep(c)'
  BY <1>5 DEF InStep
<1> QED BY <1>2, <1>6, <1>7 DEF OnTheWay

\* The client sends another frame.
LEMMA SentWay ==
    ASSUME ConnInv, NEW packet \in Packets, peer, peer' = peer,
           toServer' = toServer \o Frame(packet), written' = Append(written, packet),
           UNCHANGED <<received, handled, dropped, consumed_, conn>>
    PROVE  OnTheWay' /\ toServer' \in Seq(Byte) /\ written' \in Seq(Packets)
<1>n. PICK n : n = Len(written)
  OBVIOUS
<1>p. PICK f : f = Frame(packet)
  OBVIOUS
<1>1. /\ Inv /\ ClientTypeOK /\ toServer \in Seq(Byte) /\ written \in Seq(Packets)
      /\ Len(received) \in Nat /\ Len(toServer) \in Nat /\ Known \in Nat /\ n \in Nat
      /\ Len(handled) \in Nat
  BY <1>n, ConnSizes DEF ConnInv, ClientTypeOK
<1>2. packet \in AnyPacket
  BY PacketsAssumption DEF AnyPacket
<1>3. f \in Seq(Byte) /\ Len(f) \in Nat /\ Len(f) >= 2
  BY <1>p, <1>2, FrameBytes
<1>4. /\ written' \in Seq(Packets) /\ Len(written') = n + 1 /\ written'[n + 1] = packet
      /\ \A i \in 1 .. n : written'[i] = written[i]
  BY <1>n, <1>1, AppendProperties
<1>5. PICK c : Cut(c) /\ Wire(c) /\ InStep(c)
  BY DEF ConnInv, OnTheWay
<1>6. /\ c \in [0 .. n -> Nat] /\ c[0] = 0
      /\ \A i \in 1 .. n : c[i] = c[i - 1] + Len(Frame(written[i]))
      /\ \A i \in 0 .. n : c[i] <= c[n]
  BY <1>n, <1>5 DEF Cut
<1>7. /\ Known <= c[n] /\ (conn = "running" => Known = c[n])
      /\ \A i \in 1 .. n : \A j \in 1 .. Len(Frame(written[i])) :
            c[i - 1] + j <= Known => StreamAt(c[i - 1] + j) = Frame(written[i])[j]
  BY <1>n, <1>5 DEF Wire
<1>d. PICK d : d = [i \in 0 .. n + 1 |-> IF i = n + 1 THEN c[n] + Len(f) ELSE c[i]]
  OBVIOUS
<1>8. c[n] \in Nat /\ d \in [0 .. n + 1 -> Nat] /\ d[n + 1] = c[n] + Len(f)
      /\ \A i \in 0 .. n : d[i] = c[i]
  BY <1>1, <1>3, <1>6, <1>d
<1>f. /\ \A i \in 1 .. n : Frame(written[i])' = Frame(written[i])
      /\ Frame(written[n + 1])' = f
  <2>1. \A i : Frame(written[i])' = Frame(written'[i])
    BY DEF Frame, WritePacket, WriteHeader
  <2>2. ASSUME NEW i \in 1 .. n PROVE Frame(written[i])' = Frame(written[i])
    BY <1>4, <2>1
  <2>3. Frame(written[n + 1])' = f
    BY <1>p, <1>4, <2>1
  <2> QED BY <2>2, <2>3
<1>9. Cut(d)'
  <2>1. d[0] = 0
    BY <1>1, <1>6, <1>8
  <2>2. ASSUME NEW i \in 1 .. n + 1 PROVE d[i] = d[i - 1] + Len(Frame(written[i])')
    <3>1. CASE i = n + 1
      <4>1. i - 1 = n /\ n \in 0 .. n
        BY <1>1, <3>1
      <4>2. d[n] = c[n] /\ d[i] = c[n] + Len(f)
        BY <1>8, <3>1, <4>1
      <4>3. Frame(written[i])' = f
        BY <1>f, <3>1
      <4> QED BY <4>1, <4>2, <4>3
    <3>2. CASE i # n + 1
      <4>1. i \in 1 .. n /\ i - 1 \in 0 .. n /\ i \in 0 .. n
        BY <1>1, <3>2
      <4> QED BY <1>6, <1>8, <1>f, <4>1
    <3> QED BY <3>1, <3>2
  <2>3. ASSUME NEW i \in 0 .. n + 1 PROVE d[i] <= d[n + 1]
    <3>1. CASE i = n + 1
      BY <1>3, <1>8, <3>1
    <3>2. CASE i # n + 1
      <4>1. i \in 0 .. n
        BY <1>1, <3>2
      <4>2. c[i] \in Nat /\ c[i] <= c[n] /\ d[i] = c[i]
        BY <1>6, <1>8, <4>1
      <4> QED BY <1>3, <1>8, <4>2
    <3> QED BY <3>1, <3>2
  <2> QED BY <1>4, <1>8, <2>1, <2>2, <2>3 DEF Cut
<1>10. /\ toServer' \in Seq(Byte) /\ Len(toServer') = Len(toServer) + Len(f)
       /\ \A i \in 1 .. Len(toServer) + Len(f) :
             toServer'[i] = IF i <= Len(toServer) THEN toServer[i] ELSE f[i - Len(toServer)]
  BY <1>p, <1>1, <1>3, ConcatProperties
<1>11. Known' = IF conn = "running" THEN Known + Len(f) ELSE Known
  BY <1>1, <1>3, <1>10 DEF Known
<1>12. ASSUME NEW m \in 1 .. Known PROVE StreamAt(m)' = StreamAt(m)
  <2>1. CASE m <= Len(received)
    BY <2>1 DEF StreamAt
  <2>2. CASE ~ (m <= Len(received))
    <3> DEFINE k == m - Len(received)
    <3>1. k \in 1 .. Len(toServer)
      BY <1>1, <2>2 DEF Known
    <3> HIDE DEF k
    <3>2. toServer'[k] = toServer[k]
      BY <1>1, <1>3, <1>10, <3>1
    <3> QED BY <2>2, <3>2 DEF StreamAt, k
  <2> QED BY <2>1, <2>2
<1>13. ASSUME NEW j \in 1 .. Len(f), conn = "running" PROVE StreamAt(c[n] + j)' = f[j]
  <2>1. c[n] = Len(received) + Len(toServer)
    BY <1>7, <1>13 DEF Known
  <2>2. j \in Nat /\ j >= 1 /\ j <= Len(f)
    BY <1>3
  <2>3. /\ ~ (c[n] + j <= Len(received)) /\ c[n] + j - Len(received) = Len(toServer) + j
        /\ Len(toServer) + j \in 1 .. Len(toServer) + Len(f) /\ ~ (Len(toServer) + j <= Len(toServer))
        /\ Len(toServer) + j - Len(toServer) = j
    BY <1>1, <1>3, <2>1, <2>2
  <2>4. PICK at : at = Len(toServer) + j
    OBVIOUS
  <2>5. toServer'[at] = f[j]
    <3>1. at \in 1 .. Len(toServer) + Len(f) /\ ~ (at <= Len(toServer)) /\ at - Len(toServer) = j
      BY <2>3, <2>4
    <3> QED BY <1>10, <3>1
  <2>6. StreamAt(c[n] + j)' = toServer'[at]
    <3>1. PICK m : m = c[n] + j
      OBVIOUS
    <3>2. ~ (m <= Len(received)) /\ m - Len(received) = at
      BY <1>1, <1>8, <2>1, <2>2, <2>4, <3>1
    <3>3. StreamAt(m)' = toServer'[at]
      BY <3>2 DEF StreamAt
    <3>4. StreamAt(c[n] + j)' = StreamAt(m)'
      BY <3>1 DEF StreamAt
    <3> QED BY <3>3, <3>4
  <2> QED BY <2>5, <2>6
<1>14. ASSUME NEW i \in 1 .. n + 1, NEW j \in 1 .. Len(Frame(written[i])'), d[i - 1] + j <= Known'
       PROVE  StreamAt(d[i - 1] + j)' = Frame(written[i])'[j]
  <2>1. CASE i = n + 1
    <3>1. i - 1 = n /\ d[i - 1] = c[n] /\ Frame(written[i])' = f /\ j \in 1 .. Len(f)
      <4>1. i - 1 = n /\ n \in 0 .. n
        BY <1>1, <2>1
      <4>2. d[i - 1] = c[n]
        BY <1>8, <4>1
      <4>3. Frame(written[i])' = f
        BY <1>f, <2>1
      <4> QED BY <4>1, <4>2, <4>3
    <3>2. conn = "running"
      <4>1. SUFFICES ASSUME conn # "running" PROVE FALSE
        OBVIOUS
      <4>2. c[n] + j <= Known
        BY <1>11, <1>14, <3>1, <4>1
      <4>3. j \in Nat /\ j >= 1
        BY <1>3, <3>1
      <4>4. Known \in Nat /\ c[n] \in Nat /\ Known <= c[n]
        BY <1>1, <1>7, <1>8
      <4> QED BY <4>2, <4>3, <4>4
    <3> QED BY <1>13, <3>1, <3>2
  <2>2. CASE i # n + 1
    <3>1. i \in 1 .. n /\ i - 1 \in 0 .. n
      BY <1>1, <2>2
    <3>2. d[i - 1] = c[i - 1] /\ c[i - 1] \in Nat /\ Frame(written[i])' = Frame(written[i])
      BY <1>6, <1>8, <1>f, <3>1
    <3>3. c[i - 1] + j <= Known
      <4>1. CASE conn = "running"
        <5>1. c[i] = c[i - 1] + Len(Frame(written[i])) /\ c[i - 1] + j <= c[i]
          <6>1. Len(Frame(written[i])) \in Nat
            BY <1>n, <1>1, <3>1, WrittenPackets
          <6> QED BY <1>6, <3>1, <3>2, <6>1
        <5>2. c[i] <= c[n]
          BY <1>1, <1>6, <3>1
        <5>3. c[i] \in Nat
          <6>1. i \in 0 .. n
            BY <1>1, <3>1
          <6> QED BY <1>6, <6>1
        <5> QED BY <1>7, <1>8, <3>2, <4>1, <5>1, <5>2, <5>3, SMTT(30)
      <4>2. CASE conn # "running"
        BY <1>11, <1>14, <3>2, <4>2
      <4> QED BY <4>1, <4>2
    <3>4. StreamAt(c[i - 1] + j) = Frame(written[i])[j]
      BY <1>7, <3>1, <3>2, <3>3
    <3>5. c[i - 1] + j \in 1 .. Known
      BY <1>1, <3>2, <3>3, SMTT(30)
    <3>6. StreamAt(c[i - 1] + j)' = StreamAt(c[i - 1] + j)
      BY <1>12, <3>5
    <3> QED BY <3>2, <3>4, <3>6
  <2> QED BY <2>1, <2>2
<1>15. Known' <= d[n + 1] /\ (conn = "running" => Known' = d[n + 1])
  BY <1>1, <1>3, <1>7, <1>8, <1>11, SMTT(30)
<1>16. Wire(d)'
  BY <1>4, <1>14, <1>15 DEF Wire
<1>17. InStep(d)'
  <2>1. Len(handled) <= n /\ dropped + consumed_ = c[Len(handled)]
        /\ \A i \in 1 .. Len(handled) : handled[i] = c[i - 1]
    BY <1>n, <1>5 DEF InStep
  <2>2. d[Len(handled)] = c[Len(handled)] /\ \A i \in 1 .. Len(handled) : d[i - 1] = c[i - 1]
    BY <1>1, <1>8, <2>1, SMTT(30)
  <2>3. Len(handled') <= Len(written')
    BY <1>1, <1>4, <2>1
  <2>4. (dropped + consumed_)' = d[Len(handled')]
    BY <2>1, <2>2
  <2>5. \A i \in 1 .. Len(handled') : handled'[i] = d[i - 1]
    BY <2>1, <2>2
  <2> QED BY <2>3, <2>4, <2>5 DEF InStep
<1> QED BY <1>4, <1>9, <1>10, <1>16, <1>17 DEF OnTheWay

\* Bytes that are the frame of a packet are read as that packet.
LEMMA FrameReadBack ==
    ASSUME NEW s \in Seq(Byte), NEW at \in Nat, NEW packet \in AnyPacket,
           at + Len(Frame(packet)) <= Len(s),
           \A j \in 1 .. Len(Frame(packet)) : s[at + j] = Frame(packet)[j]
    PROVE  PacketAt(s, at, Len(Frame(packet))) = packet
<1> DEFINE n == Len(packet[2])
           u == SubSeq(s, at + HeaderSize + 1, at + Len(Frame(packet)))
<1>1. packet = <<packet[1], packet[2]>> /\ packet[2] \in Seq(Byte)
  BY DEF AnyPacket
<1>2. /\ Len(Frame(packet)) = 2 + n /\ n \in Nat /\ Frame(packet)[1] = packet[1]
      /\ \A j \in 1 .. n : Frame(packet)[2 + j] = packet[2][j]
  BY FrameBytes
<1>3. Len(s) \in Nat
  BY LenProperties
<1> HIDE DEF n
<1>4. s[at + 1] = packet[1]
  <2>1. 1 \in 1 .. Len(Frame(packet))
    BY <1>2
  <2> QED BY <1>2, <2>1
<1>5. u \in Seq(Byte) /\ Len(u) = n /\ \A j \in 1 .. n : u[j] = s[at + 2 + j]
  <2>1. u = SubSeq(s, (at + 2) + 1, (at + 2) + n)
    <3>1. at + HeaderSize + 1 = (at + 2) + 1 /\ at + Len(Frame(packet)) = (at + 2) + n
      BY <1>2, HeaderIsTwo
    <3> QED BY <3>1
  <2>a. PICK a : a = at + 2
    OBVIOUS
  <2>2. a \in Nat /\ a + n <= Len(s)
    BY <1>2, <2>a
  <2>3. /\ SubSeq(s, a + 1, a + n) \in Seq(Byte) /\ Len(SubSeq(s, a + 1, a + n)) = n
        /\ \A j \in 1 .. n : SubSeq(s, a + 1, a + n)[j] = s[a + j]
    BY <1>2, <2>2, WindowElements
  <2>4. u = SubSeq(s, a + 1, a + n)
    BY <2>1, <2>a
  <2> HIDE DEF u
  <2>5. \A j \in 1 .. n : u[j] = s[a + j]
    BY <2>3, <2>4
  <2> QED BY <2>3, <2>4, <2>5, <2>a
<1> HIDE DEF u
<1>6. ASSUME NEW j \in 1 .. n PROVE u[j] = packet[2][j]
  <2>1. PICK k : k = 2 + j
    OBVIOUS
  <2>2. k \in 1 .. Len(Frame(packet)) /\ at + k = at + 2 + j
    BY <1>2, <2>1
  <2>3. s[at + k] = Frame(packet)[k]
    BY <2>2
  <2>4. Frame(packet)[k] = packet[2][j]
    BY <1>2, <2>1
  <2>5. u[j] = s[at + k]
    BY <1>5, <2>2
  <2> QED BY <2>3, <2>4, <2>5
<1>7. u = packet[2]
  BY <1>1, <1>5, <1>6, SeqEqual DEF n
<1> QED BY <1>1, <1>4, <1>7 DEF PacketAt, u

\* What Feed's callback is given is the packet that was written next, and it is
\* within the limit.
LEMMA CallbackPacket ==
    ASSUME ConnInv, pc = "callback", NEW c, Cut(c), Wire(c), InStep(c)
    PROVE  /\ Len(handled) + 1 \in 1 .. Len(written)
           /\ frameSize = Len(Frame(written[Len(handled) + 1]))
           /\ Offer = written[Len(handled) + 1]
           /\ Len(written[Len(handled) + 1][2]) <= maxBodyLength_
<1>1. /\ Inv /\ ClientTypeOK /\ TypeOK
      /\ Len(received) \in Nat /\ Len(toServer) \in Nat /\ Len(written) \in Nat
      /\ Len(handled) \in Nat /\ dropped \in Nat /\ consumed_ \in Nat
      /\ Known \in Nat /\ Len(received) <= Known
  BY ConnSizes DEF ConnInv, Inv
<1>2. /\ Len(buffer_) \in Nat /\ buffer_ \in Seq(Byte)
      /\ dropped + Len(buffer_) = Len(received)
      /\ \A i \in 1 .. Len(buffer_) : buffer_[i] = received[dropped + i]
  BY <1>1, Sizes DEF Inv, TypeOK, BufferIsSuffix
<1>3. /\ HasHeader /\ consumed_ + 2 <= Len(buffer_) /\ DeclaredLength \in Int
      /\ DeclaredLength >= 0 /\ frameSize = 2 + DeclaredLength
      /\ consumed_ + 2 + DeclaredLength <= Len(buffer_)
      /\ DeclaredLength <= maxBodyLength_
  <2>1. HasHeader /\ HasFrame /\ DeclaredLength >= 0 /\ frameSize = HeaderSize + DeclaredLength
        /\ DeclaredLength <= maxBodyLength_
    BY DEF ConnInv, Inv, CallbackFrame
  <2>2. DeclaredLength \in Int
    BY <1>1, <2>1, DeclaredLengthType
  <2> QED BY <1>1, <1>2, <2>1, <2>2, HeaderIsTwo DEF HasHeader, HasFrame, Buffered
<1>n. PICK k : k = Len(handled) + 1
  OBVIOUS
<1>4. k - 1 = Len(handled) /\ k \in Nat /\ c[k - 1] = dropped + consumed_
  BY <1>1, <1>n DEF InStep
<1>5. k \in 1 .. Len(written)
  <2>1. Known <= c[Len(written)] /\ Len(handled) <= Len(written)
    BY DEF Wire, InStep
  <2>2. Len(handled) # Len(written)
    <3>1. dropped + consumed_ + 2 <= Len(received)
      BY <1>1, <1>2, <1>3
    <3>2. c[Len(handled)] = dropped + consumed_
      BY DEF InStep
    <3>3. c[Len(written)] \in Nat
      BY <1>1 DEF Cut
    <3> QED BY <1>1, <2>1, <3>1, <3>2, <3>3
  <2> QED BY <1>1, <1>n, <2>1, <2>2
<1>p. PICK packet : packet = written[k]
  OBVIOUS
<1>6. packet \in AnyPacket /\ Len(packet[2]) < Radix /\ Len(Frame(packet)) = 2 + Len(packet[2])
      /\ Len(packet[2]) \in Nat
  BY <1>1, <1>5, <1>p, WrittenPackets
<1>7. ASSUME NEW j \in 1 .. Len(Frame(packet)), consumed_ + j <= Len(buffer_)
      PROVE  buffer_[consumed_ + j] = Frame(packet)[j]
  <2>1. /\ consumed_ + j \in 1 .. Len(buffer_) /\ dropped + (consumed_ + j) = c[k - 1] + j
        /\ c[k - 1] + j <= Len(received) /\ c[k - 1] + j <= Known
    BY <1>1, <1>2, <1>4, <1>6, <1>7
  <2>2. buffer_[consumed_ + j] = received[c[k - 1] + j]
    BY <1>2, <2>1
  <2>3. StreamAt(c[k - 1] + j) = Frame(packet)[j]
    BY <1>5, <1>p, <2>1 DEF Wire
  <2>4. StreamAt(c[k - 1] + j) = received[c[k - 1] + j]
    BY <2>1 DEF StreamAt
  <2> QED BY <2>2, <2>3, <2>4
<1>8. DeclaredLength = Len(packet[2])
  <2> DEFINE h == SubSeq(buffer_, consumed_ + 1, consumed_ + HeaderSize)
  <2>1. h \in Seq(Byte) /\ Len(h) = 2 /\ \A i \in 1 .. 2 : h[i] = buffer_[consumed_ + i]
    BY <1>1, <1>2, <1>3, HeaderIsTwo, WindowElements
  <2>2. DeclaredLength = ReadBodyLength(h)
    BY DEF DeclaredLength
  <2> HIDE DEF h
  <2>3. h \in [1 .. HeaderSize -> Byte]
    BY <2>1, HeaderIsTwo, LenProperties
  <2>4. h[2] = Frame(packet)[2]
    <3>1. 2 \in 1 .. Len(Frame(packet)) /\ 2 \in 1 .. 2
      BY <1>6
    <3> QED BY <1>3, <1>7, <2>1, <3>1
  <2> QED BY <1>3, <1>6, <2>2, <2>3, <2>4, FrameLength
<1>9. frameSize = Len(Frame(packet))
  BY <1>3, <1>6, <1>8
<1>10. Offer = packet
  <2>1. consumed_ + Len(Frame(packet)) <= Len(buffer_)
    <3>1. Len(Frame(packet)) = 2 + DeclaredLength
      BY <1>6, <1>8
    <3>2. consumed_ + (2 + DeclaredLength) = consumed_ + 2 + DeclaredLength
      BY <1>1, <1>3
    <3> QED BY <1>3, <3>1, <3>2
  <2>2. \A j \in 1 .. Len(Frame(packet)) : buffer_[consumed_ + j] = Frame(packet)[j]
    BY <1>1, <1>2, <1>6, <1>7, <2>1
  <2> QED BY <1>1, <1>2, <1>6, <1>9, <2>1, <2>2, FrameReadBack DEF Offer
<1> QED BY <1>n, <1>p, <1>3, <1>5, <1>8, <1>9, <1>10

\* The callback returned: one more frame is handled.
LEMMA CallbackWay ==
    ASSUME ConnInv, CallbackReturns, UNCHANGED <<client, conn>>
    PROVE  OnTheWay'
<1>1. /\ pc = "callback" /\ consumed_' = consumed_ + frameSize
      /\ handled' = Append(handled, dropped + consumed_)
      /\ UNCHANGED <<received, dropped, toServer, written, peer, conn>>
  BY DEF CallbackReturns, client
<1>2. PICK c : Cut(c) /\ Wire(c) /\ InStep(c)
  BY DEF ConnInv, OnTheWay
<1>3. /\ Inv /\ ClientTypeOK /\ Known \in Nat /\ Len(handled) \in Nat /\ Len(written) \in Nat
      /\ dropped \in Nat /\ consumed_ \in Nat /\ handled \in Seq(Nat)
  BY ConnSizes DEF ConnInv, Inv, TypeOK
<1>k. PICK k : k = Len(handled) + 1
  OBVIOUS
<1>4. k \in 1 .. Len(written) /\ frameSize = Len(Frame(written[k]))
  BY <1>1, <1>2, <1>k, CallbackPacket
<1>5. Cut(c)' /\ Wire(c)'
  <2>1. Known' = Known /\ \A n \in 1 .. Known : StreamAt(n)' = StreamAt(n)
    BY <1>1 DEF Known, StreamAt
  <2>2. Known' \in Nat /\ Known' <= Known
    BY <1>3, <2>1
  <2> QED BY <1>1, <1>2, <1>3, <2>1, <2>2, WireShrinks
<1>6. /\ Len(handled') = k /\ handled'[k] = dropped + consumed_
      /\ \A i \in 1 .. k - 1 : handled'[i] = handled[i]
  <2>1. dropped + consumed_ \in Nat
    BY <1>3
  <2> QED BY <1>1, <1>3, <1>k, <2>1, AppendProperties
<1>7. dropped + consumed_ = c[k - 1] /\ \A i \in 1 .. k - 1 : handled[i] = c[i - 1]
  <2>1. k - 1 = Len(handled)
    BY <1>3, <1>k
  <2> QED BY <1>2, <2>1 DEF InStep
<1>8. c[k] = c[k - 1] + frameSize
  BY <1>2, <1>4 DEF Cut
<1>9. (dropped + consumed_)' = c[k]
  <2>1. frameSize \in Nat
    BY <1>3 DEF Inv, TypeOK
  <2> QED BY <1>1, <1>3, <1>7, <1>8, <2>1
<1>10. ASSUME NEW i \in 1 .. k PROVE handled'[i] = c[i - 1]
  <2>1. CASE i = k
    BY <1>6, <1>7, <2>1
  <2>2. CASE i # k
    <3>1. i \in 1 .. k - 1
      BY <1>4, <2>2
    <3> QED BY <1>6, <1>7, <3>1
  <2> QED BY <2>1, <2>2
<1>11. InStep(c)'
  BY <1>1, <1>4, <1>6, <1>9, <1>10 DEF InStep
<1> QED BY <1>5, <1>11 DEF OnTheWay

\* A step that leaves the parser alone.
LEMMA ParserRests ==
    ASSUME ConnInv, UNCHANGED vars
    PROVE  Inv' /\ UNCHANGED <<received, handled, dropped, consumed_, pc>>
           /\ (dropped + consumed_)' = dropped + consumed_
           /\ (pc' = "callback" => DeclaredLength' <= maxBodyLength_')
<1>1. UNCHANGED <<buffer_, consumed_, maxBodyLength_, pc, received, dropped, handled>>
  BY DEF vars, parser, history
<1>2. Inv'
  BY <1>1, QuietInv DEF ConnInv
<1>3. DeclaredLength' = DeclaredLength
  BY <1>1 DEF DeclaredLength
<1> QED BY <1>1, <1>2, <1>3 DEF ConnInv

\* The callback returns, whatever the connection made of the frame.
LEMMA AnsweredInv ==
    ASSUME ConnInv, CallbackReturns, UNCHANGED <<client, conn>>
    PROVE  ConnInv'
<1>1. Inv'
  BY CallbackReturnsInv DEF ConnInv
<1>2. pc = "callback" /\ pc' = "loop" /\ UNCHANGED <<toServer, written, peer, conn>>
  BY DEF CallbackReturns, client
<1>3. ClientTypeOK'
  BY <1>2 DEF ConnInv, ClientTypeOK
<1>4. conn # "closed"
  BY <1>2 DEF ConnInv
<1> QED BY <1>1, <1>2, <1>3, <1>4, CallbackWay DEF ConnInv

\* The client's steps; those that send nothing leave the stream as it is.
LEMMA ClientInv ==
    ASSUME ConnInv, ClientStep
    PROVE  ConnInv'
<1>1. UNCHANGED <<vars, conn>> /\ ClientNext
  BY DEF ClientStep
<1>2. /\ Inv' /\ UNCHANGED <<received, handled, dropped, consumed_, pc>>
      /\ (dropped + consumed_)' = dropped + consumed_
      /\ (pc' = "callback" => DeclaredLength' <= maxBodyLength_')
  BY <1>1, ParserRests
<1>3. SUFFICES OnTheWay' /\ ClientTypeOK'
  BY <1>1, <1>2 DEF ConnInv
<1>4. ASSUME NEW packet \in Packets, Send(packet) PROVE OnTheWay' /\ ClientTypeOK'
  <2>1. /\ peer /\ peer' = peer /\ toServer' = toServer \o Frame(packet)
        /\ written' = Append(written, packet)
    BY <1>4 DEF Send, Attempt, Frame
  <2>2. OnTheWay' /\ toServer' \in Seq(Byte) /\ written' \in Seq(Packets)
    BY <1>1, <1>2, <2>1, SentWay
  <2> QED BY <1>1, <2>1, <2>2 DEF ConnInv, ClientTypeOK
<1>5. ASSUME NEW packet \in Packets, NEW n, BodyThrows(packet, n) PROVE OnTheWay' /\ ClientTypeOK'
  <2>1. UNCHANGED <<toServer, peer, written>>
    BY <1>5 DEF BodyThrows
  <2>2. ClientTypeOK'
    BY <1>1, <2>1 DEF ConnInv, ClientTypeOK
  <2> QED BY <1>1, <1>2, <2>1, <2>2, QuietWay
<1>6. ASSUME NEW n, ClientCloses(n) PROVE OnTheWay' /\ ClientTypeOK'
  <2>1. /\ n \in 0 .. Len(toServer) /\ peer' = FALSE /\ toServer' = SubSeq(toServer, 1, n)
        /\ written' = written
    BY <1>6 DEF ClientCloses
  <2>2. OnTheWay' /\ toServer' \in Seq(Byte)
    BY <1>1, <1>2, <2>1, ClosesWay
  <2> QED BY <1>1, <2>1, <2>2 DEF ConnInv, ClientTypeOK
<1> QED BY <1>1, <1>4, <1>5, <1>6 DEF ClientNext

\* Every step of the connection, of its parser and of its client.
LEMMA ConnStep == ConnInv /\ [ConnNext]_connVars => ConnInv'
<1> SUFFICES ASSUME ConnInv, [ConnNext]_connVars PROVE ConnInv'
  OBVIOUS
<1>q. ASSUME UNCHANGED vars, UNCHANGED client, conn' \in {conn, "closed"}, conn' = conn \/ pc = "idle"
      PROVE  ConnInv'
  <2>1. /\ Inv' /\ UNCHANGED <<received, handled, dropped, consumed_, pc>>
        /\ (dropped + consumed_)' = dropped + consumed_
        /\ (pc' = "callback" => DeclaredLength' <= maxBodyLength_')
    BY <1>q, ParserRests
  <2>2. UNCHANGED <<toServer, written, peer>>
    BY <1>q DEF client
  <2>3. OnTheWay'
    BY <1>q, <2>1, <2>2, QuietWay
  <2>4. ClientTypeOK'
    BY <1>q, <2>2 DEF ConnInv, ClientTypeOK
  <2> QED BY <1>q, <2>1, <2>3, <2>4 DEF ConnInv
<1>1. CASE \E n \in 1 .. RecvSize : Recv(n)
  BY <1>1, RecvInv
<1>2. CASE RecvEnds \/ LoopEnds
  <2>1. UNCHANGED vars /\ UNCHANGED client /\ conn' = "closed" /\ pc = "idle"
    BY <1>2 DEF RecvEnds, LoopEnds, InRecv
  <2> QED BY <1>q, <2>1
<1>3. CASE Rejected
  BY <1>3, RejectedInv
<1>4. CASE Offered
  <2>1. FeedOffer /\ UNCHANGED <<client, conn>>
    BY <1>4 DEF Offered, connection
  <2>2. /\ Inv' /\ UNCHANGED <<buffer_, consumed_, maxBodyLength_, received, handled, dropped>>
        /\ pc = "loop" /\ pc' = "callback"
    BY <2>1, FeedOfferInv DEF ConnInv, FeedOffer, parser, history
  <2>3. DeclaredLength \in Int /\ maxBodyLength_ \in Nat /\ ~ (DeclaredLength > maxBodyLength_)
    BY <2>1, DeclaredLengthType, Sizes DEF FeedOffer, BadLength, ConnInv, Inv
  <2>4. DeclaredLength' = DeclaredLength
    BY <2>2 DEF DeclaredLength
  <2>5. DeclaredLength' <= maxBodyLength_'
    BY <2>2, <2>3, <2>4
  <2>6. UNCHANGED <<toServer, written, peer, conn>> /\ (dropped + consumed_)' = dropped + consumed_
    BY <2>1, <2>2 DEF client
  <2>7. OnTheWay'
    BY <2>2, <2>6, QuietWay
  <2>8. ClientTypeOK' /\ conn' # "closed"
    BY <2>2, <2>6 DEF ConnInv, ClientTypeOK
  <2> QED BY <2>2, <2>5, <2>7, <2>8 DEF ConnInv
<1>5. CASE Ignore \/ Refuse \/ SendFails \/ SendEnds
  <2>1. CallbackReturns /\ UNCHANGED <<client, conn>>
    BY <1>5 DEF Ignore, Refuse, SendFails, SendEnds, connection
  <2> QED BY <2>1, AnsweredInv
<1>6. CASE StartReply \/ (\E n \in 1 .. Window : SendPart(n)) \/ ClientReads
  <2>1. UNCHANGED vars /\ UNCHANGED client /\ conn' = conn
    BY <1>6 DEF StartReply, SendPart, ClientReads
  <2> QED BY <1>q, <2>1
<1>7. CASE FeedReturns
  <2>1. FeedWait /\ UNCHANGED <<client, conn>>
    BY <1>7 DEF FeedReturns, connection
  <2>2. Inv' /\ pc = "loop" /\ pc' = "idle" /\ UNCHANGED <<received, handled>>
        /\ (dropped + consumed_)' = dropped + consumed_
    BY <2>1, FeedWaitInv, WaitKeepsPosition DEF ConnInv, FeedWait
  <2>3. UNCHANGED <<toServer, written, peer, conn>>
    BY <2>1 DEF client
  <2>4. OnTheWay'
    BY <2>2, <2>3, QuietWay
  <2>5. ClientTypeOK'
    BY <2>3 DEF ConnInv, ClientTypeOK
  <2> QED BY <2>2, <2>4, <2>5 DEF ConnInv
<1>8. CASE ClientStep
  BY <1>8, ClientInv
<1>9. CASE UNCHANGED connVars
  <2>1. UNCHANGED vars /\ UNCHANGED client /\ conn' = conn
    BY <1>9 DEF connVars, connection
  <2> QED BY <1>q, <2>1
<1> QED BY <1>1, <1>2, <1>3, <1>4, <1>5, <1>6, <1>7, <1>8, <1>9 DEF ConnNext, Server

\* The way from WritePacket through the stream and Feed to the callback keeps
\* the frames in step, in every state of a connection.
THEOREM ConnInvariance == ConnSpec => []ConnInv
<1> QED BY ConnInitInv, ConnStep, PTL DEF ConnSpec

-----------------------------------------------------------------------------
\* A frame that was handled is all there, and reads as what was written.
LEMMA DeliveredPacket ==
    ASSUME ConnInv, NEW i \in 1 .. Len(handled)
    PROVE  Len(handled) <= Len(written) /\ Delivered[i] = written[i]
<1>1. PICK c : Cut(c) /\ Wire(c) /\ InStep(c)
  BY DEF ConnInv, OnTheWay
<1>2. /\ Inv /\ ClientTypeOK /\ received \in Seq(Byte)
      /\ Len(received) \in Nat /\ Len(written) \in Nat /\ Len(handled) \in Nat
      /\ Known \in Nat /\ Len(received) <= Known /\ dropped + consumed_ <= Len(received)
  BY ConnSizes DEF ConnInv, Inv, TypeOK
<1>3. /\ Len(handled) <= Len(written) /\ dropped + consumed_ = c[Len(handled)]
      /\ \A k \in 1 .. Len(handled) : handled[k] = c[k - 1]
  BY <1>1 DEF InStep
<1>4. i \in 1 .. Len(written) /\ i - 1 \in 0 .. Len(written) /\ i \in 0 .. Len(written)
  BY <1>2, <1>3
<1>5. c[i - 1] \in Nat /\ c[i] \in Nat /\ c[i] = c[i - 1] + Len(Frame(written[i]))
  BY <1>1, <1>4 DEF Cut
<1>p. PICK packet : packet = written[i]
  OBVIOUS
<1>6. packet \in AnyPacket /\ Len(Frame(packet)) \in Nat
  BY <1>2, <1>4, <1>p, WrittenPackets
<1>7. (IF i = Len(handled) THEN dropped + consumed_ ELSE handled[i + 1]) = c[i] /\ c[i] <= Len(received)
  <2>1. CASE i = Len(handled)
    BY <1>2, <1>3, <2>1
  <2>2. CASE i # Len(handled)
    <3>1. i + 1 \in 1 .. Len(handled) /\ (i + 1) - 1 = i
      BY <1>2, <2>2
    <3>2. handled[i + 1] = c[i]
      BY <1>3, <3>1
    <3>3. handled[i + 1] + HeaderSize <= Len(received)
      BY <1>2, <3>1 DEF Inv, HandledInside
    <3> QED BY <1>2, <1>5, <2>2, <3>2, <3>3, HeaderIsTwo
  <2> QED BY <2>1, <2>2
<1>8. ASSUME NEW j \in 1 .. Len(Frame(packet)) PROVE received[c[i - 1] + j] = Frame(packet)[j]
  <2>1. c[i - 1] + j <= Len(received) /\ c[i - 1] + j <= Known
    BY <1>2, <1>5, <1>6, <1>7, <1>p
  <2>2. StreamAt(c[i - 1] + j) = Frame(packet)[j]
    BY <1>1, <1>4, <1>p, <2>1 DEF Wire
  <2> QED BY <2>1, <2>2 DEF StreamAt
<1>9. c[i - 1] + Len(Frame(packet)) <= Len(received) /\ c[i] - c[i - 1] = Len(Frame(packet))
  BY <1>2, <1>5, <1>6, <1>7, <1>p
<1>10. PacketAt(received, c[i - 1], Len(Frame(packet))) = packet
  BY <1>2, <1>5, <1>6, <1>8, <1>9, FrameReadBack
<1>11. handled[i] = c[i - 1]
  BY <1>3
<1>12. Delivered[i] =
         PacketAt(received, handled[i],
                  (IF i = Len(handled) THEN dropped + consumed_ ELSE handled[i + 1]) - handled[i])
  <2>1. DOMAIN handled = 1 .. Len(handled)
    BY <1>2, LenProperties DEF Inv, TypeOK
  <2> QED BY <2>1 DEF Delivered
<1> QED BY <1>p, <1>3, <1>7, <1>9, <1>10, <1>11, <1>12

\* However TCP cuts the stream, whichever bodies threw before they were framed
\* and wherever the connection breaks, what Feed's callback is given is what
\* WritePacket was: id and body, in order, each packet once.
THEOREM Delivery == ConnSpec => []DeliveredAsWritten
<1>1. ASSUME ConnInv PROVE DeliveredAsWritten
  <2>1. /\ Len(handled) \in Nat /\ Len(written) \in Nat /\ written \in Seq(Packets)
        /\ DOMAIN handled = 1 .. Len(handled) /\ Len(handled) <= Len(written)
    <3>1. Len(handled) \in Nat /\ Len(written) \in Nat
      BY <1>1, ConnSizes DEF ConnInv
    <3>2. Len(handled) <= Len(written)
      BY <1>1 DEF ConnInv, OnTheWay, InStep
    <3> QED BY <1>1, <3>1, <3>2, LenProperties DEF ConnInv, ClientTypeOK, Inv, TypeOK
  <2>n. PICK n : n = Len(handled)
    OBVIOUS
  <2>2. \A i \in 1 .. n : written[i] \in Packets /\ Delivered[i] = written[i]
    BY <1>1, <2>1, <2>n, DeliveredPacket, ElementOfSeq
  <2>3. Delivered = [i \in 1 .. n |-> Delivered[i]]
    BY <2>1, <2>n DEF Delivered
  <2>d. PICK d : d = Delivered
    OBVIOUS
  <2>4. d \in [1 .. n -> Packets] /\ \A i \in 1 .. n : d[i] = written[i]
    BY <2>2, <2>3, <2>d
  <2>5. d \in Seq(Packets) /\ Len(d) = n
    BY <2>1, <2>n, <2>4
  <2>6. SubSeq(d, 0 + 1, 0 + n) = SubSeq(written, 0 + 1, 0 + n)
    <3>1. \A i \in 1 .. n : d[0 + i] = written[0 + i]
      BY <2>4
    <3> QED BY <2>1, <2>n, <2>5, <3>1, WindowEqual
  <2>7. IsPrefix(d, written)
    <3>1. Len(d) <= Len(written) /\ SubSeq(d, 1, Len(d)) = SubSeq(written, 1, Len(d))
      BY <2>1, <2>n, <2>5, <2>6
    <3> QED BY <3>1 DEF IsPrefix
  <2> QED BY <2>7, <2>d DEF DeliveredAsWritten
<1> QED BY <1>1, ConnInvariance, PTL

-----------------------------------------------------------------------------
(***************************************************************************)
(* Sequences that grow at their end, and the induction they need, with a   *)
(* set in the place of the predicate.                                      *)
(***************************************************************************)
\* A set that holds 0 and the successor of each natural it holds is all of them:
\* a natural outside it would have a least one beside it.
LEMMA Induct ==
    ASSUME NEW S, 0 \in S, \A n \in Nat : n \in S => n + 1 \in S
    PROVE  Nat \subseteq S
<1> DEFINE T == Nat \ S
           R == OpToRel(<, Nat)
<1> SUFFICES ASSUME T # {} PROVE FALSE
  OBVIOUS
<1>1. IsWellFoundedOn(R, Nat)
  BY NatLessThanWellFounded
<1>2. \A x, y \in Nat : y < x => <<y, x>> \in R
  BY DEF OpToRel
<1> HIDE DEF R
<1>3. PICK m \in T : \A y \in T : ~ (<<y, m>> \in R)
  BY <1>1, WFMin
<1>4. m # 0 /\ m - 1 \in Nat /\ m - 1 < m
  BY <1>3
<1>5. m - 1 \in S
  BY <1>2, <1>3, <1>4
<1>6. (m - 1) + 1 \in S
  BY <1>4, <1>5
<1> QED BY <1>3, <1>6

\* s is the beginning of t.
Begins(s, t) == Len(s) <= Len(t) /\ \A i \in 1 .. Len(s) : s[i] = t[i]

\* A sequence is the beginning of what is made of it by appending.
LEMMA BeginsConcat ==
    ASSUME NEW s \in Seq(Byte), NEW t \in Seq(Byte), NEW u \in Seq(Byte), Begins(s, t)
    PROVE  t \o u \in Seq(Byte) /\ Begins(s, t \o u)
<1>1. Len(s) \in Nat /\ Len(t) \in Nat /\ Len(u) \in Nat /\ Len(s) <= Len(t)
  BY LenProperties DEF Begins
<1>2. /\ t \o u \in Seq(Byte) /\ Len(t \o u) = Len(t) + Len(u)
      /\ \A i \in 1 .. Len(t) + Len(u) : (t \o u)[i] = IF i <= Len(t) THEN t[i] ELSE u[i - Len(t)]
  BY ConcatProperties
<1>3. ASSUME NEW i \in 1 .. Len(s) PROVE s[i] = (t \o u)[i]
  <2>1. i \in 1 .. Len(t) + Len(u) /\ i <= Len(t) /\ s[i] = t[i]
    BY <1>1 DEF Begins
  <2> QED BY <1>2, <2>1
<1> QED BY <1>1, <1>2, <1>3 DEF Begins

\* And so is what is made of it by appending a beginning.
LEMMA ConcatBegins ==
    ASSUME NEW s \in Seq(Byte), NEW t \in Seq(Byte), NEW u \in Seq(Byte), Begins(t, u)
    PROVE  Begins(s \o t, s \o u)
<1>1. Len(s) \in Nat /\ Len(t) \in Nat /\ Len(u) \in Nat /\ Len(t) <= Len(u)
  BY LenProperties DEF Begins
<1>2. /\ Len(s \o t) = Len(s) + Len(t)
      /\ \A i \in 1 .. Len(s) + Len(t) : (s \o t)[i] = IF i <= Len(s) THEN s[i] ELSE t[i - Len(s)]
  BY ConcatProperties
<1>3. /\ Len(s \o u) = Len(s) + Len(u)
      /\ \A i \in 1 .. Len(s) + Len(u) : (s \o u)[i] = IF i <= Len(s) THEN s[i] ELSE u[i - Len(s)]
  BY ConcatProperties
<1>4. ASSUME NEW i \in 1 .. Len(s) + Len(t) PROVE (s \o t)[i] = (s \o u)[i]
  <2>1. i \in 1 .. Len(s) + Len(u)
    BY <1>1
  <2>2. CASE i <= Len(s)
    BY <1>2, <1>3, <2>1, <2>2
  <2>3. CASE ~ (i <= Len(s))
    <3>1. PICK k : k = i - Len(s)
      OBVIOUS
    <3>2. k \in 1 .. Len(t)
      BY <1>1, <2>3, <3>1
    <3>3. t[k] = u[k]
      BY <3>2 DEF Begins
    <3> QED BY <1>2, <1>3, <2>1, <2>3, <3>1, <3>3
  <2> QED BY <2>2, <2>3
<1> QED BY <1>1, <1>2, <1>3, <1>4 DEF Begins

\* The elementwise notion is the library's.
LEMMA BeginsPrefix ==
    ASSUME NEW s \in Seq(Byte), NEW t \in Seq(Byte), Begins(s, t)
    PROVE  IsPrefix(s, t)
<1>1. Len(s) \in Nat /\ Len(t) \in Nat /\ Len(s) <= Len(t) /\ 0 + Len(s) = Len(s) /\ 0 + 1 = 1
  BY LenProperties DEF Begins
<1>2. \A i \in 1 .. Len(s) : s[0 + i] = t[0 + i]
  BY DEF Begins
<1>3. SubSeq(s, 0 + 1, 0 + Len(s)) = SubSeq(t, 0 + 1, 0 + Len(s))
  BY <1>1, <1>2, WindowEqual
<1> QED BY <1>1, <1>3 DEF IsPrefix

\* g[k] is t[1] to t[k] one after the other.
Joins(g, n, t) == g = [k \in 0 .. n |-> IF k = 0 THEN <<>> ELSE g[k - 1] \o t[k]]

\* The function that the recursive definition of Owed asks for exists.
LEMMA JoinsExist ==
    ASSUME NEW n \in Nat, NEW t
    PROVE  \E g : Joins(g, n, t)
<1> DEFINE S == {m \in Nat : \E g : Joins(g, m, t)}
<1>1. 0 \in S
  <2> DEFINE g == [k \in 0 .. 0 |-> <<>>]
  <2>1. Joins(g, 0, t)
    BY DEF Joins
  <2> QED BY <2>1
<1>2. ASSUME NEW m \in Nat, m \in S PROVE m + 1 \in S
  <2>1. PICK g : Joins(g, m, t)
    BY <1>2
  <2>x. PICK x : x = g[m] \o t[m + 1]
    OBVIOUS
  <2> DEFINE h == [k \in 0 .. m + 1 |-> IF k = m + 1 THEN x ELSE g[k]]
  <2>2. ASSUME NEW k \in 0 .. m + 1
        PROVE  h[k] = IF k = 0 THEN <<>> ELSE h[k - 1] \o t[k]
    <3>1. \A l \in 0 .. m : g[l] = IF l = 0 THEN <<>> ELSE g[l - 1] \o t[l]
      BY <2>1, Zenon DEF Joins
    <3>2. \A l \in 0 .. m : h[l] = g[l]
      OBVIOUS
    <3>3. h[m + 1] = g[m] \o t[m + 1]
      BY <2>x
    <3> HIDE DEF h
    <3>4. CASE k = m + 1
      <4>1. k # 0 /\ k - 1 = m /\ m \in 0 .. m
        BY <3>4
      <4> QED BY <3>2, <3>3, <3>4, <4>1
    <3>5. CASE k # m + 1
      <4>1. k \in 0 .. m /\ (k # 0 => k - 1 \in 0 .. m)
        BY <3>5
      <4> QED BY <3>1, <3>2, <4>1
    <3> QED BY <3>4, <3>5
  <2>3. Joins(h, m + 1, t)
    BY <2>2 DEF Joins
  <2> HIDE DEF h
  <2> QED BY <2>3
<1> HIDE DEF S
<1>3. n \in S
  BY <1>1, <1>2, Induct
<1> QED BY <1>3 DEF S

\* Each join is a sequence of bytes, and the beginning of every later one.
LEMMA JoinsGrow ==
    ASSUME NEW n \in Nat, NEW t, \A k \in 1 .. n : t[k] \in Seq(Byte),
           NEW g, Joins(g, n, t), NEW m \in 0 .. n
    PROVE  g[m] \in Seq(Byte) /\ Begins(g[m], g[n])
<1>0. g[0] = <<>> /\ \A k \in 0 .. n : k + 1 <= n => g[k + 1] = g[k] \o t[k + 1]
  <2>1. \A k \in 0 .. n : g[k] = IF k = 0 THEN <<>> ELSE g[k - 1] \o t[k]
    BY Zenon DEF Joins
  <2>2. g[0] = <<>>
    BY <2>1
  <2>3. ASSUME NEW k \in 0 .. n, k + 1 <= n PROVE g[k + 1] = g[k] \o t[k + 1]
    <3>1. PICK l : l = k + 1
      OBVIOUS
    <3>2. l \in 0 .. n /\ l # 0 /\ l - 1 = k
      BY <2>3, <3>1
    <3>3. g[l] = g[l - 1] \o t[l]
      BY <2>1, <3>2, Zenon
    <3> QED BY <3>1, <3>2, <3>3
  <2> QED BY <2>2, <2>3
<1> DEFINE A == {k \in Nat : k <= n => g[k] \in Seq(Byte)}
<1>1. 0 \in A
  BY <1>0, EmptySeq
<1>2. ASSUME NEW k \in Nat, k \in A PROVE k + 1 \in A
  <2> SUFFICES ASSUME k + 1 <= n PROVE g[k + 1] \in Seq(Byte)
    OBVIOUS
  <2>1. k \in 0 .. n /\ k + 1 \in 1 .. n /\ k <= n
    BY SMT
  <2>2. g[k] \in Seq(Byte) /\ t[k + 1] \in Seq(Byte) /\ g[k + 1] = g[k] \o t[k + 1]
    BY <1>0, <1>2, <2>1
  <2> QED BY <2>2, ConcatProperties
<1> HIDE DEF A
<1>3. Nat \subseteq A
  BY <1>1, <1>2, Induct
<1>4. \A k \in 0 .. n : g[k] \in Seq(Byte)
  BY <1>3 DEF A
<1> DEFINE B == {k \in Nat : m + k <= n => Begins(g[m], g[m + k])}
<1>5. 0 \in B
  <2>1. m + 0 = m /\ Len(g[m]) \in Nat
    BY <1>4, LenProperties
  <2> QED BY <2>1 DEF Begins
<1>6. ASSUME NEW k \in Nat, k \in B PROVE k + 1 \in B
  <2> SUFFICES ASSUME m + (k + 1) <= n PROVE Begins(g[m], g[m + (k + 1)])
    OBVIOUS
  <2>1. PICK l : l = m + k
    OBVIOUS
  <2>2. l \in 0 .. n /\ l + 1 <= n /\ l + 1 \in 1 .. n /\ m + (k + 1) = l + 1 /\ m + k <= n
    BY <2>1
  <2>3. Begins(g[m], g[l])
    BY <1>6, <2>1, <2>2
  <2>4. g[l + 1] = g[l] \o t[l + 1] /\ g[l] \in Seq(Byte) /\ g[m] \in Seq(Byte) /\ t[l + 1] \in Seq(Byte)
    BY <1>0, <1>4, <2>2
  <2> QED BY <2>2, <2>3, <2>4, BeginsConcat
<1> HIDE DEF B
<1>7. n - m \in B
  <2>1. n - m \in Nat
    BY SMT
  <2> QED BY <1>5, <1>6, <2>1, Induct
<1>8. m + (n - m) = n /\ m + (n - m) <= n
  OBVIOUS
<1> QED BY <1>4, <1>7, <1>8 DEF B

-----------------------------------------------------------------------------
(***************************************************************************)
(* The inductive invariant of the answers.  While the loop of Run goes on, *)
(* what was sent is the replies to the frames handled and, in SendAll, a   *)
(* part of the next one; once it has been left, or alive_ cleared, nothing *)
(* more is sent, and a later packet can only add to what is owed.          *)
(***************************************************************************)
\* What the packet i adds to what is owed.
Part(i) == IF Granted(i) THEN Frame(Reply(written[i])) ELSE <<>>

\* g[i] is what is owed for the first i packets.
Owing(g) == Joins(g, Len(written), [i \in 1 .. Len(written) |-> Part(i)])

Going == conn = "running" /\ alive_

Live(g) ==
    /\ Granted(Len(handled))
    /\ ~ sending => answered = g[Len(handled)]
    /\ sending =>
         /\ Len(handled) + 1 \in 1 .. Len(written)
         /\ Granted(Len(handled) + 1)
         /\ sendBuffer_ = Frame(Reply(written[Len(handled) + 1]))
         /\ answered = g[Len(handled)] \o SubSeq(sendBuffer_, 1, sent)

Over(g) == \E m \in 0 .. Len(written) : Begins(answered, g[m])

AnswerInv ==
    /\ answered \in Seq(Byte)
    /\ sending \in BOOLEAN /\ alive_ \in BOOLEAN
    /\ sending => pc = "callback" /\ Going /\ sent \in 0 .. Len(sendBuffer_)
    /\ \A g : Owing(g) => IF Going THEN Live(g) ELSE Over(g)

\* A granted packet has a frame for its reply.
LEMMA PartType ==
    ASSUME ConnInv, NEW i \in 1 .. Len(written)
    PROVE  /\ Part(i) \in Seq(Byte)
           /\ Granted(i) => Reply(written[i]) \in AnyPacket /\ Frame(Reply(written[i])) \in Seq(Byte)
<1>1. written[i] \in Packets
  BY ElementOfSeq DEF ConnInv, ClientTypeOK
<1>2. CASE Granted(i)
  <2>1. ~ Refused(written[i])
    BY <1>2 DEF Granted
  <2>2. Reply(written[i]) \in AnyPacket
    BY <1>1, <2>1, ReplyAssumption DEF AnyPacket
  <2> QED BY <1>2, <2>2, FrameBytes DEF Part
<1>3. CASE ~ Granted(i)
  BY <1>3, EmptySeq DEF Part
<1> QED BY <1>2, <1>3

\* What is owed for a number of packets begins what is owed for all.
LEMMA OwingFacts ==
    ASSUME ConnInv, NEW g, Owing(g)
    PROVE  /\ g[0] = <<>>
           /\ \A k \in 1 .. Len(written) : g[k] = g[k - 1] \o Part(k)
           /\ \A m \in 0 .. Len(written) : g[m] \in Seq(Byte) /\ Begins(g[m], g[Len(written)])
<1> DEFINE t == [i \in 1 .. Len(written) |-> Part(i)]
<1>1. Len(written) \in Nat /\ Joins(g, Len(written), t)
  BY ConnSizes DEF ConnInv, Owing
<1>2. \A k \in 1 .. Len(written) : t[k] = Part(k)
  OBVIOUS
<1>3. \A k \in 1 .. Len(written) : t[k] \in Seq(Byte)
  BY <1>2, PartType
<1> HIDE DEF t
<1>4. \A k \in 0 .. Len(written) : g[k] = IF k = 0 THEN <<>> ELSE g[k - 1] \o t[k]
  BY <1>1, Zenon DEF Joins
<1>5. ASSUME NEW k \in 1 .. Len(written) PROVE g[k] = g[k - 1] \o Part(k)
  <2>1. k \in 0 .. Len(written) /\ k # 0
    BY <1>1
  <2>2. g[k] = g[k - 1] \o t[k]
    BY <1>4, <2>1, Zenon
  <2> QED BY <1>2, <2>2
<1>6. g[0] = <<>>
  BY <1>1, <1>4
<1>7. \A m \in 0 .. Len(written) : g[m] \in Seq(Byte) /\ Begins(g[m], g[Len(written)])
  BY <1>1, <1>3, JoinsGrow
<1> QED BY <1>5, <1>6, <1>7

\* As long as nothing is written, the same is owed.
LEMMA OwingRests ==
    ASSUME UNCHANGED <<written, maxBodyLength_>>
    PROVE  /\ \A g : Owing(g)' => Owing(g)
           /\ \A i : Granted(i)' = Granted(i)
           /\ \A i : Frame(Reply(written[i]))' = Frame(Reply(written[i]))
<1>1. \A i : Granted(i)' = Granted(i)
  BY DEF Granted
<1>2. \A i : Frame(Reply(written[i]))' = Frame(Reply(written[i]))
  BY DEF Frame, WritePacket, WriteHeader
<1>3. \A g : Owing(g)' => Owing(g)
  <2>1. \A i : Part(i)' = Part(i)
    BY <1>1, <1>2 DEF Part
  <2>2. [i \in 1 .. Len(written') |-> Part(i)'] = [i \in 1 .. Len(written) |-> Part(i)]
    BY <2>1
  <2>3. \A g : Owing(g)' <=> Joins(g, Len(written'), [i \in 1 .. Len(written') |-> Part(i)'])
    BY DEF Owing, Joins
  <2> QED BY <2>2, <2>3 DEF Owing
<1> QED BY <1>1, <1>2, <1>3

\* The frames handled are no more than the packets written.
LEMMA HandledWritten ==
    ASSUME ConnInv
    PROVE  /\ Len(handled) \in Nat /\ Len(written) \in Nat /\ Len(handled) <= Len(written)
           /\ Len(handled) \in 0 .. Len(written)
<1>1. Len(handled) \in Nat /\ Len(written) \in Nat
  BY ConnSizes DEF ConnInv
<1>2. Len(handled) <= Len(written)
  BY DEF ConnInv, OnTheWay, InStep
<1> QED BY <1>1, <1>2

\* A new connection owes nothing and has answered nothing.
LEMMA AnswerInit == ConnInit => AnswerInv
<1> SUFFICES ASSUME ConnInit PROVE AnswerInv
  OBVIOUS
<1>1. ConnInv
  BY ConnInitInv
<1>2. /\ answered = <<>> /\ sending = FALSE /\ alive_ = TRUE /\ conn = "running" /\ handled = <<>>
  BY DEF ConnInit, Init
<1>3. Len(<<>>) = 0 /\ <<>> \in Seq(Byte)
  OBVIOUS
<1>4. Granted(Len(handled))
  BY <1>2, <1>3 DEF Granted
<1>5. ASSUME NEW g, Owing(g) PROVE Live(g)
  <2>1. g[0] = <<>>
    BY <1>1, <1>5, OwingFacts
  <2> QED BY <1>2, <1>3, <1>4, <2>1 DEF Live
<1> QED BY <1>2, <1>3, <1>5 DEF AnswerInv, Going

\* Steps that send nothing and do not touch what the answers depend on.
LEMMA AnswerRests ==
    ASSUME AnswerInv, sending => pc' = pc,
           UNCHANGED <<written, maxBodyLength_, handled, conn, alive_, sendBuffer_, sending, sent, answered>>
    PROVE  AnswerInv'
<1>1. /\ \A g : Owing(g)' => Owing(g)
      /\ \A i : Granted(i)' = Granted(i)
      /\ \A i : Frame(Reply(written[i]))' = Frame(Reply(written[i]))
  BY OwingRests
<1>2. Going' = Going
  BY DEF Going
<1>3. ASSUME NEW g PROVE Live(g)' = Live(g) /\ Over(g)' = Over(g)
  <2>1. Live(g)' = Live(g)
    BY <1>1 DEF Live
  <2>2. Over(g)' = Over(g)
    BY DEF Over, Begins
  <2> QED BY <2>1, <2>2
<1>4. ASSUME NEW g, Owing(g)' PROVE IF Going' THEN Live(g)' ELSE Over(g)'
  BY <1>1, <1>2, <1>3, <1>4 DEF AnswerInv
<1> QED BY <1>2, <1>4 DEF AnswerInv

\* The answers given so far begin what is owed, sending or not.
LEMMA LiveIsOver ==
    ASSUME ConnInv, AnswerInv, NEW g, Owing(g)
    PROVE  Over(g)
<1>1. /\ Len(handled) \in Nat /\ Len(written) \in Nat /\ Len(handled) \in 0 .. Len(written)
  BY HandledWritten
<1>2. g[Len(handled)] \in Seq(Byte)
  BY <1>1, OwingFacts
<1>3. CASE ~ Going
  BY <1>3 DEF AnswerInv
<1>4. CASE Going /\ ~ sending
  <2>1. answered = g[Len(handled)]
    BY <1>4 DEF AnswerInv, Live
  <2>2. Len(answered) \in Nat
    BY <1>2, <2>1, LenProperties
  <2>3. Begins(answered, g[Len(handled)])
    BY <2>1, <2>2 DEF Begins
  <2> QED BY <1>1, <2>3 DEF Over
<1>5. CASE Going /\ sending
  <2>k. PICK k : k = Len(handled) + 1
    OBVIOUS
  <2>1. /\ k \in 1 .. Len(written) /\ Granted(k) /\ sendBuffer_ = Frame(Reply(written[k]))
        /\ answered = g[Len(handled)] \o SubSeq(sendBuffer_, 1, sent) /\ sent \in 0 .. Len(sendBuffer_)
    BY <1>5, <2>k DEF AnswerInv, Live
  <2>2. sendBuffer_ \in Seq(Byte) /\ Part(k) = sendBuffer_
    BY <2>1, PartType DEF Part
  <2>3. k - 1 = Len(handled) /\ k \in 0 .. Len(written)
    BY <1>1, <2>1, <2>k
  <2>4. g[k] = g[Len(handled)] \o sendBuffer_
    BY <2>1, <2>2, <2>3, OwingFacts
  <2>5. SubSeq(sendBuffer_, 1, sent) \in Seq(Byte) /\ Begins(SubSeq(sendBuffer_, 1, sent), sendBuffer_)
    <3>1. Len(sendBuffer_) \in Nat /\ sent \in Nat /\ 0 + sent = sent /\ 0 + 1 = 1 /\ sent <= Len(sendBuffer_)
      BY <2>1, <2>2, LenProperties
    <3>2. /\ SubSeq(sendBuffer_, 0 + 1, 0 + sent) \in Seq(Byte) /\ Len(SubSeq(sendBuffer_, 0 + 1, 0 + sent)) = sent
          /\ \A i \in 1 .. sent : SubSeq(sendBuffer_, 0 + 1, 0 + sent)[i] = sendBuffer_[0 + i]
      BY <2>2, <3>1, WindowElements
    <3> QED BY <3>1, <3>2 DEF Begins
  <2>6. Begins(answered, g[k])
    BY <1>2, <2>1, <2>2, <2>4, <2>5, ConcatBegins
  <2> QED BY <2>3, <2>6 DEF Over
<1> QED BY <1>3, <1>4, <1>5 DEF AnswerInv

\* Steps after which nothing more is sent: the loop is left, or alive_ cleared.
LEMMA AnswerEnds ==
    ASSUME ConnInv, AnswerInv, ~ Going', sending' = FALSE, alive_' \in BOOLEAN,
           UNCHANGED <<written, maxBodyLength_, answered>>
    PROVE  AnswerInv'
<1>1. \A g : Owing(g)' => Owing(g)
  BY OwingRests
<1>2. ASSUME NEW g, Owing(g)' PROVE Over(g)'
  <2>1. Over(g)
    BY <1>1, <1>2, LiveIsOver
  <2> QED BY <2>1 DEF Over, Begins
<1>3. answered' \in Seq(Byte)
  BY DEF AnswerInv
<1> QED BY <1>2, <1>3 DEF AnswerInv

\* The reply to the frame in the callback's hands is put into the buffer.
LEMMA StartReplyAnswer ==
    ASSUME ConnInv, AnswerInv, StartReply
    PROVE  AnswerInv'
<1>1. /\ pc = "callback" /\ sending # TRUE /\ alive_ /\ ~ Refused(Offer)
      /\ sendBuffer_' = Frame(Reply(Offer)) /\ sending' = TRUE /\ sent' = 0
      /\ UNCHANGED <<conn, alive_, answered>>
  BY DEF StartReply, InCallback, Frame
<1>2. UNCHANGED <<written, maxBodyLength_, handled, pc>>
  BY DEF StartReply, vars, client, parser, history
<1>3. Going /\ Going'
  BY <1>1 DEF ConnInv, ClientTypeOK, Going
<1>k. PICK k : k = Len(handled) + 1
  OBVIOUS
<1>4. k \in 1 .. Len(written) /\ Offer = written[k] /\ Len(written[k][2]) <= maxBodyLength_
  <2>1. PICK c : Cut(c) /\ Wire(c) /\ InStep(c)
    BY DEF ConnInv, OnTheWay
  <2> QED BY <1>1, <1>k, <2>1, CallbackPacket
<1>5. Len(handled) \in Nat /\ Len(written) \in Nat
  BY HandledWritten
<1>6. ASSUME Granted(Len(handled)) PROVE Granted(k)
  <2> SUFFICES ASSUME NEW i \in 1 .. k
               PROVE  Len(written[i][2]) <= maxBodyLength_ /\ ~ Refused(written[i])
    BY DEF Granted
  <2>1. CASE i = k
    BY <1>1, <1>4, <2>1
  <2>2. CASE i # k
    <3>1. i \in 1 .. Len(handled)
      BY <1>5, <1>k, <2>2
    <3> QED BY <1>6, <3>1 DEF Granted
  <2> QED BY <2>1, <2>2
<1>7. /\ \A g : Owing(g)' => Owing(g)
      /\ \A i : Granted(i)' = Granted(i)
      /\ \A i : Frame(Reply(written[i]))' = Frame(Reply(written[i]))
  BY <1>2, OwingRests
<1>8. ASSUME NEW g, Owing(g)' PROVE Live(g)'
  <2>1. Granted(Len(handled)) /\ answered = g[Len(handled)] /\ Owing(g)
    BY <1>1, <1>3, <1>7, <1>8 DEF AnswerInv, Live
  <2>2. g[Len(handled)] \in Seq(Byte)
    BY <2>1, HandledWritten, OwingFacts
  <2>3. g[Len(handled)] \o SubSeq(sendBuffer_', 1, 0) = g[Len(handled)]
    <3>1. SubSeq(sendBuffer_', 1, 0) = <<>>
      BY SubSeqEmpty
    <3> QED BY <2>2, <3>1, ConcatEmptySeq
  <2>4. sendBuffer_' = Frame(Reply(written[k]))'
    BY <1>1, <1>4, <1>7
  <2>5. Granted(k)' /\ Granted(Len(handled))'
    BY <1>2, <1>6, <1>7, <2>1
  <2> QED BY <1>1, <1>2, <1>4, <1>k, <2>1, <2>3, <2>4, <2>5 DEF Live
<1>9. sent' \in 0 .. Len(sendBuffer_')
  <2>1. Reply(Offer) \in AnyPacket
    <3>1. written[k] \in Packets
      BY <1>4, ElementOfSeq DEF ConnInv, ClientTypeOK
    <3> QED BY <1>1, <1>4, <3>1, ReplyAssumption DEF AnyPacket
  <2>2. Len(sendBuffer_') \in Nat
    BY <1>1, <2>1, FrameBytes, LenProperties
  <2> QED BY <1>1, <2>2
<1> QED BY <1>1, <1>2, <1>3, <1>8, <1>9 DEF AnswerInv

\* One send takes the next bytes of the buffer.
LEMMA SendPartAnswer ==
    ASSUME ConnInv, AnswerInv, NEW n, SendPart(n)
    PROVE  AnswerInv'
<1>1. /\ sending /\ n \in 1 .. Len(sendBuffer_) - sent /\ sent' = sent + n
      /\ answered' = answered \o SubSeq(sendBuffer_, sent + 1, sent + n)
      /\ UNCHANGED <<conn, alive_, sendBuffer_, sending>>
  BY DEF SendPart
<1>2. UNCHANGED <<written, maxBodyLength_, handled, pc>>
  BY DEF SendPart, vars, client, parser, history
<1>3. /\ Going /\ pc = "callback" /\ sent \in 0 .. Len(sendBuffer_) /\ answered \in Seq(Byte)
  BY <1>1 DEF AnswerInv
<1>4. Going'
  BY <1>1, <1>3 DEF Going
<1>k. PICK k : k = Len(handled) + 1
  OBVIOUS
<1>7. /\ \A g : Owing(g)' => Owing(g)
      /\ \A i : Granted(i)' = Granted(i)
      /\ \A i : Frame(Reply(written[i]))' = Frame(Reply(written[i]))
  BY <1>2, OwingRests
<1>e. ASSUME sendBuffer_ \in Seq(Byte)
      PROVE  /\ SubSeq(sendBuffer_, sent + 1, sent + n) \in Seq(Byte)
             /\ sent' \in 0 .. Len(sendBuffer_)
             /\ SubSeq(sendBuffer_, 1, sent) \o SubSeq(sendBuffer_, sent + 1, sent + n)
                   = SubSeq(sendBuffer_, 1, sent + n)
             /\ SubSeq(sendBuffer_, 1, sent) \in Seq(Byte)
  <2>1. Len(sendBuffer_) \in Nat /\ sent \in Nat /\ n \in Nat /\ sent + n <= Len(sendBuffer_)
    BY <1>1, <1>3, <1>e, LenProperties
  <2> DEFINE a == SubSeq(sendBuffer_, 1, sent)
             b == SubSeq(sendBuffer_, sent + 1, sent + n)
             d == SubSeq(sendBuffer_, 1, sent + n)
  <2>2. a \in Seq(Byte) /\ Len(a) = sent /\ \A i \in 1 .. sent : a[i] = sendBuffer_[i]
    <3>1. /\ SubSeq(sendBuffer_, 0 + 1, 0 + sent) \in Seq(Byte) /\ Len(SubSeq(sendBuffer_, 0 + 1, 0 + sent)) = sent
          /\ \A i \in 1 .. sent : SubSeq(sendBuffer_, 0 + 1, 0 + sent)[i] = sendBuffer_[0 + i]
      BY <1>e, <2>1, WindowElements
    <3>2. 0 + 1 = 1 /\ 0 + sent = sent
      BY <2>1
    <3> QED BY <3>1, <3>2
  <2>3. b \in Seq(Byte) /\ Len(b) = n /\ \A i \in 1 .. n : b[i] = sendBuffer_[sent + i]
    BY <1>e, <2>1, WindowElements
  <2>4. d \in Seq(Byte) /\ Len(d) = sent + n /\ \A i \in 1 .. sent + n : d[i] = sendBuffer_[i]
    <3>m. PICK m : m = sent + n
      OBVIOUS
    <3>1. /\ SubSeq(sendBuffer_, 0 + 1, 0 + m) \in Seq(Byte) /\ Len(SubSeq(sendBuffer_, 0 + 1, 0 + m)) = m
          /\ \A i \in 1 .. m : SubSeq(sendBuffer_, 0 + 1, 0 + m)[i] = sendBuffer_[0 + i]
      <4>1. m \in Nat /\ 0 + m <= Len(sendBuffer_)
        BY <2>1, <3>m
      <4> QED BY <1>e, <4>1, WindowElements
    <3>2. 0 + 1 = 1 /\ 0 + m = m
      BY <2>1, <3>m
    <3> QED BY <3>1, <3>2, <3>m
  <2> HIDE DEF a, b, d
  <2>5. a \o b \in Seq(Byte) /\ Len(a \o b) = sent + n
        /\ \A i \in 1 .. sent + n : (a \o b)[i] = IF i <= sent THEN a[i] ELSE b[i - sent]
    BY <2>2, <2>3, ConcatProperties
  <2>6. ASSUME NEW i \in 1 .. sent + n PROVE (a \o b)[i] = d[i]
    <3>1. CASE i <= sent
      BY <2>1, <2>2, <2>4, <2>5, <3>1, SMTT(30)
    <3>2. CASE ~ (i <= sent)
      <4>1. PICK j : j = i - sent
        OBVIOUS
      <4>2. j \in 1 .. n /\ sent + j = i
        BY <2>1, <3>2, <4>1
      <4> QED BY <2>3, <2>4, <2>5, <3>2, <4>1, <4>2
    <3> QED BY <3>1, <3>2
  <2>7. a \o b = d
    BY <2>4, <2>5, <2>6, SeqEqual
  <2>8. sent' \in 0 .. Len(sendBuffer_)
    BY <1>1, <2>1
  <2> QED BY <2>2, <2>3, <2>7, <2>8 DEF a, b, d
<1>8. ASSUME NEW g, Owing(g)' PROVE Live(g)' /\ sendBuffer_ \in Seq(Byte)
  <2>1. /\ Granted(Len(handled)) /\ k \in 1 .. Len(written) /\ Granted(k) /\ Owing(g)
        /\ sendBuffer_ = Frame(Reply(written[k]))
        /\ answered = g[Len(handled)] \o SubSeq(sendBuffer_, 1, sent)
    BY <1>1, <1>3, <1>7, <1>8, <1>k DEF AnswerInv, Live
  <2>2. sendBuffer_ \in Seq(Byte)
    BY <2>1, PartType
  <2>3. g[Len(handled)] \in Seq(Byte)
    BY <2>1, HandledWritten, OwingFacts
  <2>4. answered' = g[Len(handled)] \o SubSeq(sendBuffer_, 1, sent + n)
    <3>1. answered' = (g[Len(handled)] \o SubSeq(sendBuffer_, 1, sent)) \o SubSeq(sendBuffer_, sent + 1, sent + n)
      BY <1>1, <2>1
    <3>a. PICK a : a = SubSeq(sendBuffer_, 1, sent)
      OBVIOUS
    <3>b. PICK b : b = SubSeq(sendBuffer_, sent + 1, sent + n)
      OBVIOUS
    <3>2. a \in Seq(Byte) /\ b \in Seq(Byte) /\ a \o b = SubSeq(sendBuffer_, 1, sent + n)
      BY <1>e, <2>2, <3>a, <3>b, Zenon
    <3>3. (g[Len(handled)] \o a) \o b = g[Len(handled)] \o (a \o b)
      <4>1. PICK x : x = g[Len(handled)]
        OBVIOUS
      <4>2. x \in Seq(Byte) /\ a \in Seq(Byte) /\ b \in Seq(Byte)
        BY <2>3, <3>2, <4>1
      <4>3. (x \o a) \o b = x \o (a \o b)
        BY <4>2, ConcatAssociative, SMT
      <4> QED BY <4>1, <4>3, Zenon
    <3>4. answered' = (g[Len(handled)] \o a) \o b
      BY <3>1, <3>a, <3>b, Zenon
    <3> QED BY <3>2, <3>3, <3>4, Zenon
  <2>5. Granted(k)' /\ Granted(Len(handled))' /\ sendBuffer_' = Frame(Reply(written[k]))'
    BY <1>1, <1>2, <1>7, <2>1
  <2> QED BY <1>1, <1>2, <1>k, <2>1, <2>2, <2>4, <2>5 DEF Live
<1>9. sendBuffer_ \in Seq(Byte)
  <2>1. \E g : Owing(g)'
    <3>1. Len(written') \in Nat
      BY <1>2, HandledWritten
    <3>2. \E g : Joins(g, Len(written'), [i \in 1 .. Len(written') |-> Part(i)'])
      BY <3>1, JoinsExist
    <3>3. \A g : Owing(g)' <=> Joins(g, Len(written'), [i \in 1 .. Len(written') |-> Part(i)'])
      BY DEF Owing, Joins
    <3> QED BY <3>2, <3>3
  <2> QED BY <1>8, <2>1
<1>10. answered' \in Seq(Byte)
  BY <1>1, <1>3, <1>9, <1>e, ConcatProperties
<1> QED BY <1>1, <1>2, <1>3, <1>4, <1>8, <1>9, <1>10, <1>e DEF AnswerInv

\* SendAll returns true: the whole reply was sent, and its frame is handled.
LEMMA SendEndsAnswer ==
    ASSUME ConnInv, AnswerInv, SendEnds
    PROVE  AnswerInv'
<1>1. /\ sending /\ sent = Len(sendBuffer_) /\ sending' = FALSE
      /\ UNCHANGED <<conn, alive_, answered>>
  BY DEF SendEnds
<1>2. UNCHANGED <<written, maxBodyLength_>> /\ handled' = Append(handled, dropped + consumed_)
  BY DEF SendEnds, CallbackReturns, client
<1>3. Going /\ answered \in Seq(Byte)
  BY <1>1 DEF AnswerInv
<1>4. Going'
  BY <1>1, <1>3 DEF Going
<1>k. PICK k : k = Len(handled) + 1
  OBVIOUS
<1>5. Len(handled') = k /\ k - 1 = Len(handled)
  <2>1. handled \in Seq(Nat) /\ dropped + consumed_ \in Nat
    BY ConnSizes DEF ConnInv, Inv, TypeOK
  <2> QED BY <1>2, <1>k, <2>1, AppendProperties, LenProperties
<1>7. /\ \A g : Owing(g)' => Owing(g)
      /\ \A i : Granted(i)' = Granted(i)
  BY <1>2, OwingRests
<1>8. ASSUME NEW g, Owing(g)' PROVE Live(g)'
  <2>1. /\ k \in 1 .. Len(written) /\ Granted(k) /\ Owing(g)
        /\ sendBuffer_ = Frame(Reply(written[k]))
        /\ answered = g[Len(handled)] \o SubSeq(sendBuffer_, 1, sent)
    BY <1>1, <1>3, <1>7, <1>8, <1>k DEF AnswerInv, Live
  <2>2. sendBuffer_ \in Seq(Byte) /\ Part(k) = sendBuffer_
    BY <2>1, PartType DEF Part
  <2>3. SubSeq(sendBuffer_, 1, Len(sendBuffer_)) = sendBuffer_
    BY <2>2, SubSeqFull
  <2>4. g[k] = g[Len(handled)] \o sendBuffer_
    BY <1>5, <2>1, <2>2, OwingFacts
  <2>5. answered' = g[k]
    BY <1>1, <2>1, <2>3, <2>4, Zenon
  <2>6. Granted(k)'
    BY <1>7, <2>1
  <2> QED BY <1>1, <1>5, <2>5, <2>6 DEF Live
<1> QED BY <1>1, <1>3, <1>4, <1>8 DEF AnswerInv

\* The client sends another packet: what was owed is still owed.
LEMMA SendAnswer ==
    ASSUME ConnInv, AnswerInv, NEW packet \in Packets, written' = Append(written, packet),
           UNCHANGED <<maxBodyLength_, handled, pc, conn, alive_, sendBuffer_, sending, sent, answered>>
    PROVE  AnswerInv'
<1>n. PICK n : n = Len(written)
  OBVIOUS
<1>1. n \in Nat /\ Len(handled) \in 0 .. n /\ Len(handled) \in Nat
  BY <1>n, HandledWritten
<1>2. /\ Len(written') = n + 1 /\ \A i \in 1 .. n : written'[i] = written[i]
  BY <1>n, <1>1, AppendProperties DEF ConnInv, ClientTypeOK
<1>3. \A i \in 0 .. n : Granted(i)' = Granted(i)
  <2> TAKE i \in 0 .. n
  <2>1. \A k \in 1 .. i : written'[k] = written[k]
    BY <1>1, <1>2
  <2> QED BY <2>1 DEF Granted
<1>4. \A i \in 1 .. n : Frame(Reply(written[i]))' = Frame(Reply(written[i]))
  BY <1>2 DEF Frame, WritePacket, WriteHeader
<1>5. ASSUME NEW i \in 1 .. n PROVE Part(i)' = Part(i)
  <2>1. i \in 0 .. n
    BY <1>1
  <2>2. Granted(i)' = Granted(i)
    BY <1>3, <2>1
  <2>3. Frame(Reply(written[i]))' = Frame(Reply(written[i]))
    BY <1>4
  <2> QED BY <2>2, <2>3 DEF Part
<1>6. Going' = Going
  BY DEF Going
<1>7. ASSUME NEW g, Owing(g)' PROVE IF Going' THEN Live(g)' ELSE Over(g)'
  <2> DEFINE t == [i \in 1 .. n + 1 |-> Part(i)']
             u == [i \in 1 .. n |-> Part(i)]
             f == [i \in 0 .. n |-> g[i]]
  <2>1. Joins(g, n + 1, t)
    BY <1>2, <1>7 DEF Owing, Joins
  <2>2. \A i \in 1 .. n : t[i] = u[i]
    BY <1>1, <1>5
  <2> HIDE DEF t
  <2>3. \A i \in 0 .. n + 1 : g[i] = IF i = 0 THEN <<>> ELSE g[i - 1] \o t[i]
    BY <2>1, Zenon DEF Joins
  <2>4. \A i \in 0 .. n : f[i] = g[i]
    OBVIOUS
  <2> HIDE DEF u
  <2>5. ASSUME NEW i \in 0 .. n PROVE g[i] = IF i = 0 THEN <<>> ELSE f[i - 1] \o u[i]
    <3>1. CASE i = 0
      BY <1>1, <2>3, <3>1
    <3>2. CASE i # 0
      <4>1. i \in 1 .. n /\ i \in 0 .. n + 1 /\ i - 1 \in 0 .. n
        BY <1>1, <3>2
      <4> HIDE DEF f
      <4>2. g[i] = g[i - 1] \o t[i]
        BY <2>3, <3>2, <4>1, Zenon
      <4>3. g[i - 1] = f[i - 1] /\ t[i] = u[i]
        BY <2>2, <2>4, <4>1
      <4> QED BY <3>2, <4>2, <4>3
    <3> QED BY <3>1, <3>2
  <2>6. Joins(f, n, u)
    BY <2>5 DEF Joins
  <2>7. Owing(f)
    BY <1>n, <2>6 DEF Owing, u
  <2> HIDE DEF f
  <2>8. CASE Going
    <3>1. Live(f)
      BY <2>7, <2>8 DEF AnswerInv
    <3>2. f[Len(handled)] = g[Len(handled)]
      BY <1>1, <2>4
    <3>3. Granted(Len(handled))'
      BY <1>1, <1>3, <3>1 DEF Live
    <3>4. ~ sending' => answered' = g[Len(handled')]
      BY <3>1, <3>2 DEF Live
    <3>5. ASSUME sending'
          PROVE  /\ Len(handled') + 1 \in 1 .. Len(written')
                 /\ Granted(Len(handled) + 1)'
                 /\ sendBuffer_' = Frame(Reply(written[Len(handled) + 1]))'
                 /\ answered' = g[Len(handled')] \o SubSeq(sendBuffer_', 1, sent')
      <4>k. PICK k : k = Len(handled) + 1
        OBVIOUS
      <4>1. /\ k \in 1 .. n /\ Granted(k) /\ sendBuffer_ = Frame(Reply(written[k]))
            /\ answered = g[Len(handled)] \o SubSeq(sendBuffer_, 1, sent)
        BY <1>n, <3>1, <3>2, <3>5, <4>k DEF Live
      <4>2. Granted(k)' /\ sendBuffer_' = Frame(Reply(written[k]))'
        <5>1. k \in 0 .. n
          BY <1>1, <4>1
        <5>2. Granted(k)'
          BY <1>3, <4>1, <5>1
        <5>3. Frame(Reply(written[k]))' = Frame(Reply(written[k]))
          BY <1>4, <4>1
        <5> QED BY <4>1, <5>2, <5>3
      <4>3. k \in 1 .. Len(written')
        BY <1>1, <1>2, <4>1
      <4> QED BY <4>k, <4>1, <4>2, <4>3
    <3>6. Live(g)'
      BY <3>3, <3>4, <3>5 DEF Live
    <3> QED BY <1>6, <2>8, <3>6
  <2>9. CASE ~ Going
    <3>1. PICK m \in 0 .. n : Begins(answered, f[m])
      BY <1>n, <2>7, <2>9 DEF AnswerInv, Over
    <3>2. m \in 0 .. n + 1 /\ f[m] = g[m]
      BY <1>1, <2>4
    <3>3. Over(g)'
      BY <1>2, <3>1, <3>2 DEF Over, Begins
    <3> QED BY <1>6, <2>9, <3>3
  <2> QED BY <2>8, <2>9
<1> QED BY <1>6, <1>7 DEF AnswerInv

\* Every step keeps the answers a beginning of what is owed.
LEMMA AnswerStep == ConnInv /\ AnswerInv /\ [ConnNext]_connVars => AnswerInv'
<1> SUFFICES ASSUME ConnInv, AnswerInv, [ConnNext]_connVars PROVE AnswerInv'
  OBVIOUS
<1>t. sending \in BOOLEAN /\ alive_ \in BOOLEAN /\ (sending => pc = "callback" /\ Going)
  BY DEF AnswerInv
<1>1. CASE \E n \in 1 .. RecvSize : Recv(n)
  <2>1. /\ pc = "idle"
        /\ UNCHANGED <<written, maxBodyLength_, handled, conn, alive_, sendBuffer_, sending, sent, answered>>
    BY <1>1 DEF Recv, InRecv, FeedInsert, connection, sender
  <2> QED BY <1>t, <2>1, AnswerRests
<1>2. CASE RecvEnds \/ LoopEnds
  <2>1. /\ pc = "idle" /\ conn' = "closed"
        /\ UNCHANGED <<written, maxBodyLength_, alive_, sending, answered>>
    BY <1>2 DEF RecvEnds, LoopEnds, InRecv, vars, parser, client, sender
  <2>2. ~ Going' /\ sending' = FALSE /\ alive_' \in BOOLEAN
    BY <1>t, <2>1 DEF Going
  <2> QED BY <2>1, <2>2, AnswerEnds
<1>3. CASE Rejected
  <2>1. /\ pc = "loop" /\ conn' = "closed"
        /\ UNCHANGED <<written, maxBodyLength_, alive_, sending, answered>>
    BY <1>3 DEF Rejected, FeedReject, client, sender
  <2>2. ~ Going' /\ sending' = FALSE /\ alive_' \in BOOLEAN
    BY <1>t, <2>1 DEF Going
  <2> QED BY <2>1, <2>2, AnswerEnds
<1>4. CASE Offered \/ FeedReturns
  <2>1. /\ pc = "loop"
        /\ UNCHANGED <<written, maxBodyLength_, handled, conn, alive_, sendBuffer_, sending, sent, answered>>
    BY <1>4 DEF Offered, FeedReturns, FeedOffer, FeedWait, client, connection, sender, parser, history
  <2> QED BY <1>t, <2>1, AnswerRests
<1>5. CASE Ignore \/ Refuse
  <2>1. /\ ~ sending /\ ~ alive_' /\ alive_' \in BOOLEAN
        /\ UNCHANGED <<written, maxBodyLength_, sending, answered>>
    <3>1. CASE Ignore
      <4>1. ~ sending /\ ~ alive_ /\ UNCHANGED <<written, maxBodyLength_, alive_, sending, answered>>
        BY <3>1 DEF Ignore, InCallback, CallbackReturns, client, connection, sender
      <4> QED BY <1>t, <4>1
    <3>2. CASE Refuse
      BY <3>2 DEF Refuse, InCallback, CallbackReturns, client, sender
    <3> QED BY <1>5, <3>1, <3>2
  <2>2. ~ Going' /\ sending' = FALSE
    BY <1>t, <2>1 DEF Going
  <2> QED BY <2>1, <2>2, AnswerEnds
<1>6. CASE StartReply
  BY <1>6, StartReplyAnswer
<1>7. CASE \E n \in 1 .. Window : SendPart(n)
  BY <1>7, SendPartAnswer
<1>8. CASE SendFails
  <2>1. /\ sending' = FALSE /\ alive_' = FALSE
        /\ UNCHANGED <<written, maxBodyLength_, answered>>
    BY <1>8 DEF SendFails, CallbackReturns, client
  <2>2. ~ Going'
    BY <2>1 DEF Going
  <2> QED BY <2>1, <2>2, AnswerEnds
<1>9. CASE SendEnds
  BY <1>9, SendEndsAnswer
<1>10. CASE ClientReads
  <2>1. UNCHANGED <<pc, written, maxBodyLength_, handled, conn, alive_, sendBuffer_, sending, sent, answered>>
    BY <1>10 DEF ClientReads, vars, parser, history, client, sender
  <2> QED BY <2>1, AnswerRests
<1>11. CASE ClientStep
  <2>1. UNCHANGED <<pc, maxBodyLength_, handled, conn, alive_, sendBuffer_, sending, sent, answered>>
    BY <1>11 DEF ClientStep, vars, parser, history, sender
  <2>2. CASE \E packet \in Packets : Send(packet)
    <3>1. PICK packet \in Packets : written' = Append(written, packet)
      BY <2>2 DEF Send
    <3> QED BY <2>1, <3>1, SendAnswer
  <2>3. CASE written' = written
    BY <2>1, <2>3, AnswerRests
  <2> QED BY <1>11, <2>2, <2>3 DEF ClientStep, ClientNext, BodyThrows, ClientCloses
<1>12. CASE UNCHANGED connVars
  <2>1. UNCHANGED <<pc, written, maxBodyLength_, handled, conn, alive_, sendBuffer_, sending, sent, answered>>
    BY <1>12 DEF connVars, connection, vars, parser, history, client, sender
  <2> QED BY <2>1, AnswerRests
<1> QED BY <1>1, <1>2, <1>3, <1>4, <1>5, <1>6, <1>7, <1>8, <1>9, <1>10, <1>11, <1>12 DEF ConnNext, Server

\* However the requests are cut into chunks and the replies into sends, and
\* whenever the client goes away: what SendAll has sent is a prefix of the
\* replies to the packets, in order, up to the first one that HandlePacket
\* refuses or that is too long.
THEOREM Answers == ConnSpec => []AnswersOwed
<1>1. ASSUME ConnInv, AnswerInv PROVE AnswersOwed
  <2> DEFINE n == Len(written)
             o == CHOOSE g : g = [i \in 0 .. n |-> IF i = 0 THEN <<>> ELSE g[i - 1] \o
                      (IF Granted(i)
                       THEN WritePacket(<<>>, Reply(written[i])[1], Reply(written[i])[2]) ELSE <<>>)]
             t == [i \in 1 .. n |-> Part(i)]
  <2>1. Owed = o[n]
    BY DEF Owed
  <2>2. n \in Nat /\ answered \in Seq(Byte)
    BY <1>1, HandledWritten DEF AnswerInv
  <2>3. \A g : Joins(g, n, t) <=>
          g = [i \in 0 .. n |-> IF i = 0 THEN <<>> ELSE g[i - 1] \o
                  (IF Granted(i)
                   THEN WritePacket(<<>>, Reply(written[i])[1], Reply(written[i])[2]) ELSE <<>>)]
    <3>1. \A i \in 0 .. n : i # 0 =>
             t[i] = IF Granted(i)
                    THEN WritePacket(<<>>, Reply(written[i])[1], Reply(written[i])[2]) ELSE <<>>
      BY <2>2 DEF Part, Frame
    <3> HIDE DEF t, n
    <3> QED BY <3>1 DEF Joins
  <2>4. PICK g : Joins(g, n, t)
    <3> HIDE DEF t, n
    <3> QED BY <2>2, JoinsExist
  <2>5. Joins(o, n, t)
    <3> HIDE DEF t, n
    <3> QED BY <2>3, <2>4
  <2>6. Owing(o)
    <3> HIDE DEF o
    <3> QED BY <2>5 DEF Owing
  <2> HIDE DEF o, n, t
  <2>7. Over(o)
    BY <1>1, <2>6, LiveIsOver
  <2>8. PICK m \in 0 .. n : Begins(answered, o[m])
    BY <2>7 DEF Over, n
  <2>9. o[m] \in Seq(Byte) /\ Begins(o[m], o[n]) /\ o[n] \in Seq(Byte)
    <3>1. n \in 0 .. n
      BY <2>2
    <3> QED BY <1>1, <2>6, <3>1, OwingFacts DEF n
  <2>10. Begins(answered, o[n])
    <3>1. Len(answered) \in Nat /\ Len(o[m]) \in Nat /\ Len(o[n]) \in Nat
      BY <2>2, <2>9, LenProperties
    <3>2. Len(answered) <= Len(o[m]) /\ Len(o[m]) <= Len(o[n])
      BY <2>8, <2>9 DEF Begins
    <3>3. ASSUME NEW i \in 1 .. Len(answered) PROVE answered[i] = o[n][i]
      <4>1. i \in 1 .. Len(o[m])
        BY <3>1, <3>2
      <4> QED BY <2>8, <2>9, <4>1 DEF Begins
    <3> QED BY <3>1, <3>2, <3>3 DEF Begins
  <2> QED BY <2>1, <2>2, <2>9, <2>10, BeginsPrefix DEF AnswersOwed
<1>2. ConnSpec => [](ConnInv /\ AnswerInv)
  BY ConnInvariance, AnswerInit, AnswerStep, PTL DEF ConnSpec
<1> QED BY <1>1, <1>2, PTL
=============================================================================

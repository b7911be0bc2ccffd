---------------------------- MODULE TransferProofs ----------------------------
(***************************************************************************)
(* Theorems about Transfer, for any files of any bytes and any size of the *)
(* blocks: what the server stores, and what the client gets back, is the   *)
(* beginning of the file, wherever a transfer breaks off.                  *)
(***************************************************************************)
EXTENDS Transfer, SequenceProofs

LEMMA Pair ==
  ASSUME NEW a \in Byte, NEW b \in Byte
  PROVE  <<a>> \o <<b>> = <<a, b>>
<1>1. <<a>> \in Seq(Byte) /\ <<b>> \in Seq(Byte) /\ <<a, b>> \in Seq(Byte)
  OBVIOUS
<1>2. /\ <<a>> \o <<b>> \in Seq(Byte) /\ Len(<<a>> \o <<b>>) = 2
      /\ (<<a>> \o <<b>>)[1] = a /\ (<<a>> \o <<b>>)[2] = b
  BY <1>1
<1>3. Len(<<a, b>>) = 2 /\ <<a, b>>[1] = a /\ <<a, b>>[2] = b
  OBVIOUS
<1>4. \A i \in 1..2 : (<<a>> \o <<b>>)[i] = <<a, b>>[i]
  BY <1>2, <1>3
<1> QED
  BY <1>1, <1>2, <1>3, <1>4, SeqEqual

LEMMA Cancel ==
  ASSUME NEW a \in Byte, NEW b \in Byte, NEW p \in Seq(Byte), NEW q \in Seq(Byte),
         <<a>> \o p = <<b>> \o q
  PROVE  a = b /\ p = q
<1>1. Head(<<a>> \o p) = a /\ Tail(<<a>> \o p) = p
  OBVIOUS
<1>2. Head(<<b>> \o q) = b /\ Tail(<<b>> \o q) = q
  OBVIOUS
<1> QED
  BY <1>1, <1>2

Groups(p, q, r) == (p \o q) \o r = p \o (q \o r)

LEMMA Regroup ==
  ASSUME NEW p \in Seq(Byte), NEW q \in Seq(Byte), NEW r \in Seq(Byte)
  PROVE  (p \o q) \o r = p \o (q \o r)
  BY ConcatAssociative

\* Concatenation may be regrouped.
LEMMA AllGroup ==
  \A p \in Seq(Byte) : \A q \in Seq(Byte) : \A r \in Seq(Byte) : Groups(p, q, r)
  BY Regroup, Zenon DEF Groups

-----------------------------------------------------------------------------
(***************************************************************************)
(* The conversions, byte by byte from the front.                           *)
(***************************************************************************)
Sent(b) == IF b = LF THEN <<CR, LF>> ELSE <<b>>

\* What CRLF2LF makes of byte b in front of s.
Left(b, s) == IF b = CR /\ s # <<>> /\ Head(s) = LF THEN <<>> ELSE <<b>>

LEMMA SentType ==
  ASSUME NEW b \in Byte
  PROVE  /\ Sent(b) \in Seq(Byte) /\ Sent(b) # <<>> /\ Head(Sent(b)) # LF
         /\ Len(Sent(b)) = IF b = LF THEN 2 ELSE 1
<1>1. CR \in Byte /\ LF \in Byte /\ CR # LF
  BY TransferAssumption DEF CR, LF
<1> QED
  BY <1>1 DEF Sent

LEMMA EncodedPieces ==
  ASSUME NEW s \in Seq(Byte)
  PROVE  /\ LF2CRLF(s) = FlattenSeq([i \in 1..Len(s) |-> Sent(s[i])])
         /\ [i \in 1..Len(s) |-> Sent(s[i])] \in Seq(Seq(Byte))
<1>1. \A i \in 1..Len(s) : Sent(s[i]) \in Seq(Byte)
  BY SentType, ElementOfSeq
<1> QED
  BY <1>1, LenProperties DEF LF2CRLF, Sent

LEMMA EncodeType ==
  ASSUME NEW s \in Seq(Byte)
  PROVE  LF2CRLF(s) \in Seq(Byte)
  BY EncodedPieces, FlattenType

LEMMA EncodeEmpty == LF2CRLF(<<>>) = <<>>
<1>1. <<>> \in Seq(Byte) /\ [i \in 1..Len(<<>>) |-> Sent(<<>>[i])] = <<>>
  BY EmptySeq
<1> QED
  BY <1>1, EncodedPieces, FlattenType

LEMMA EncodeCons ==
  ASSUME NEW b \in Byte, NEW s \in Seq(Byte)
  PROVE  LF2CRLF(<<b>> \o s) = Sent(b) \o LF2CRLF(s)
<1> DEFINE all == <<b>> \o s
           p == [i \in 1..Len(s) |-> Sent(s[i])]
           q == [i \in 1..Len(all) |-> Sent(all[i])]
<1>1. /\ all \in Seq(Byte) /\ Len(all) = Len(s) + 1 /\ all[1] = b
      /\ \A i \in 1..Len(s) : all[i + 1] = s[i]
  OBVIOUS
<1>2. p \in Seq(Seq(Byte)) /\ q \in Seq(Seq(Byte)) /\ Sent(b) \in Seq(Byte)
  BY <1>1, EncodedPieces, SentType
<1>3. q = <<Sent(b)>> \o p
  <2>1. Len(q) = Len(s) + 1 /\ Len(<<Sent(b)>> \o p) = Len(s) + 1
    BY <1>1, <1>2
  <2>2. <<Sent(b)>> \o p \in Seq(Seq(Byte))
    BY <1>2
  <2>3. ASSUME NEW i \in 1..Len(q) PROVE q[i] = (<<Sent(b)>> \o p)[i]
    <3>1. CASE i = 1
      BY <1>1, <1>2, <3>1
    <3>2. CASE i # 1
      BY <1>1, <1>2, <2>1, <3>2
    <3> QED
      BY <3>1, <3>2
  <2> HIDE DEF p, q
  <2> QED
    BY <1>2, <2>1, <2>2, <2>3, SeqEqual
<1>4. LF2CRLF(all) = FlattenSeq(q) /\ LF2CRLF(s) = FlattenSeq(p)
  BY <1>1, EncodedPieces
<1> HIDE DEF p, q
<1> QED
  BY <1>2, <1>3, <1>4, FlattenCons

LEMMA EncodeConcat ==
  ASSUME NEW s \in Seq(Byte), NEW t \in Seq(Byte)
  PROVE  LF2CRLF(s \o t) = LF2CRLF(s) \o LF2CRLF(t)
<1> DEFINE Q(r) == LF2CRLF(r \o t) = LF2CRLF(r) \o LF2CRLF(t)
           S == {r \in Seq(Byte) : Q(r)}
<1>1. Q(<<>>)
  <2>1. LF2CRLF(t) \in Seq(Byte)
    BY EncodeType
  <2> QED
    BY <2>1, EncodeEmpty, ConcatEmptySeq
<1>2. ASSUME NEW b \in Byte, NEW r \in Seq(Byte), Q(r) PROVE Q(<<b>> \o r)
  <2>1. (<<b>> \o r) \o t = <<b>> \o (r \o t) /\ r \o t \in Seq(Byte)
    OBVIOUS
  <2>2. LF2CRLF((<<b>> \o r) \o t) = Sent(b) \o (LF2CRLF(r) \o LF2CRLF(t))
    BY <1>2, <2>1, EncodeCons
  <2>3. LF2CRLF(<<b>> \o r) = Sent(b) \o LF2CRLF(r)
    BY EncodeCons
  <2>4. Sent(b) \in Seq(Byte) /\ LF2CRLF(r) \in Seq(Byte) /\ LF2CRLF(t) \in Seq(Byte)
    BY EncodeType, SentType
  <2> QED
    <3>1. (Sent(b) \o LF2CRLF(r)) \o LF2CRLF(t) = Sent(b) \o (LF2CRLF(r) \o LF2CRLF(t))
      BY <2>4, ConcatAssociative
    <3> QED
      BY <2>2, <2>3, <3>1, Zenon
<1> HIDE DEF Q
<1>3. Seq(Byte) \subseteq S
  <2>1. <<>> \in S /\ \A b \in Byte : \A r \in Seq(Byte) : r \in S => <<b>> \o r \in S
    BY <1>1, <1>2, EmptySeq, ConcatProperties
  <2> HIDE DEF S
  <2> QED
    BY <2>1, SequenceInduction
<1> QED
  BY <1>3 DEF Q

\* Nothing that is sent begins with LF, and only nothing is sent as nothing.
LEMMA EncodeHead ==
  ASSUME NEW s \in Seq(Byte), s # <<>>
  PROVE  LF2CRLF(s) # <<>> /\ Head(LF2CRLF(s)) # LF
<1>1. Head(s) \in Byte /\ Tail(s) \in Seq(Byte) /\ s = <<Head(s)>> \o Tail(s)
  BY HeadAndTail
<1>2. LF2CRLF(s) = Sent(Head(s)) \o LF2CRLF(Tail(s)) /\ LF2CRLF(Tail(s)) \in Seq(Byte)
  BY <1>1, EncodeCons, EncodeType
<1>3. /\ Sent(Head(s)) \in Seq(Byte) /\ Sent(Head(s)) # <<>>
      /\ Head(Sent(Head(s))) # LF
  BY <1>1, SentType
<1>4. ASSUME NEW p \in Seq(Byte), NEW q \in Seq(Byte), p # <<>>
      PROVE  p \o q # <<>> /\ Head(p \o q) = Head(p)
  BY <1>4
<1> QED
  BY <1>2, <1>3, <1>4

-----------------------------------------------------------------------------
Piece(s, i) == IF s[i] = CR /\ i < Len(s) /\ s[i + 1] = LF THEN <<>> ELSE <<s[i]>>

LEMMA DecodedPieces ==
  ASSUME NEW s \in Seq(Byte)
  PROVE  /\ CRLF2LF(s) = FlattenSeq([i \in 1..Len(s) |-> Piece(s, i)])
         /\ [i \in 1..Len(s) |-> Piece(s, i)] \in Seq(Seq(Byte))
<1>1. ASSUME NEW i \in 1..Len(s) PROVE Piece(s, i) \in Seq(Byte)
  <2>1. s[i] \in Byte
    BY ElementOfSeq
  <2> QED
    BY <2>1 DEF Piece
<1> QED
  BY <1>1, LenProperties DEF CRLF2LF, Piece

LEMMA DecodeType ==
  ASSUME NEW s \in Seq(Byte)
  PROVE  CRLF2LF(s) \in Seq(Byte)
  BY DecodedPieces, FlattenType

LEMMA DecodeEmpty == CRLF2LF(<<>>) = <<>>
<1>1. <<>> \in Seq(Byte) /\ [i \in 1..Len(<<>>) |-> Piece(<<>>, i)] = <<>>
  BY EmptySeq
<1> QED
  BY <1>1, DecodedPieces, FlattenType

LEMMA LeftType ==
  ASSUME NEW b \in Byte, NEW s
  PROVE  Left(b, s) \in Seq(Byte)
  BY DEF Left

LEMMA DecodeCons ==
  ASSUME NEW b \in Byte, NEW s \in Seq(Byte)
  PROVE  CRLF2LF(<<b>> \o s) = Left(b, s) \o CRLF2LF(s)
<1> DEFINE all == <<b>> \o s
           p == [i \in 1..Len(s) |-> Piece(s, i)]
           q == [i \in 1..Len(all) |-> Piece(all, i)]
<1>1. /\ all \in Seq(Byte) /\ Len(all) = Len(s) + 1 /\ all[1] = b
      /\ \A i \in 1..Len(s) : all[i + 1] = s[i]
      /\ s # <<>> <=> 1 < Len(all)
      /\ s # <<>> => all[1 + 1] = Head(s)
  BY EmptySeq
<1>2. p \in Seq(Seq(Byte)) /\ q \in Seq(Seq(Byte)) /\ Left(b, s) \in Seq(Byte)
  BY <1>1, DecodedPieces, LeftType
<1>3. q = <<Left(b, s)>> \o p
  <2>1. Len(q) = Len(s) + 1 /\ Len(<<Left(b, s)>> \o p) = Len(s) + 1
    BY <1>1, <1>2
  <2>2. <<Left(b, s)>> \o p \in Seq(Seq(Byte))
    BY <1>2
  <2>3. Piece(all, 1) = Left(b, s)
    BY <1>1 DEF Piece, Left
  <2>4. ASSUME NEW i \in 1..Len(s) PROVE Piece(all, i + 1) = Piece(s, i)
    <3>1. all[i + 1] = s[i] /\ (i < Len(s) <=> i + 1 < Len(all))
      BY <1>1
    <3>2. i < Len(s) => all[(i + 1) + 1] = s[i + 1]
      BY <1>1
    <3> QED
      BY <3>1, <3>2, Zenon DEF Piece
  <2>5. ASSUME NEW i \in 1..Len(q) PROVE q[i] = (<<Left(b, s)>> \o p)[i]
    <3>1. CASE i = 1
      BY <1>1, <1>2, <2>3, <3>1
    <3>2. CASE i # 1
      <4>1. i - 1 \in 1..Len(s) /\ (i - 1) + 1 = i
        BY <2>1, <3>2
      <4>2. q[i] = p[i - 1]
        BY <1>1, <2>1, <2>4, <4>1
      <4> HIDE DEF q, p
      <4>3. (<<Left(b, s)>> \o p)[i] = p[i - 1]
        BY <1>2, <2>1, <3>2
      <4> QED
        BY <4>2, <4>3
    <3> QED
      BY <3>1, <3>2
  <2> HIDE DEF p, q
  <2> QED
    BY <1>2, <2>1, <2>2, <2>5, SeqEqual
<1>4. CRLF2LF(all) = FlattenSeq(q) /\ CRLF2LF(s) = FlattenSeq(p)
  BY <1>1, DecodedPieces
<1> HIDE DEF p, q
<1> QED
  BY <1>2, <1>3, <1>4, FlattenCons
\* What is encoded is decoded to what it was, also with something that begins otherwise
\* than with LF behind it.
LEMMA DecodeEncoded ==
  ASSUME NEW s \in Seq(Byte)
  PROVE  CRLF2LF(LF2CRLF(s)) = s
<1> DEFINE Q(r) == CRLF2LF(LF2CRLF(r)) = r
           S == {r \in Seq(Byte) : Q(r)}
<1>1. Q(<<>>)
  BY EncodeEmpty, DecodeEmpty
<1>2. ASSUME NEW b \in Byte, NEW r \in Seq(Byte), Q(r) PROVE Q(<<b>> \o r)
  <2> DEFINE e == LF2CRLF(r)
  <2>1. e \in Seq(Byte) /\ CRLF2LF(e) = r /\ (e # <<>> => Head(e) # LF)
    BY <1>2, EncodeType, EncodeHead, EncodeEmpty
  <2>2. LF2CRLF(<<b>> \o r) = Sent(b) \o e
    BY EncodeCons
  <2> HIDE DEF e
  <2>3. CRLF2LF(<<b>> \o e) = <<b>> \o r
    <3>1. Left(b, e) = <<b>>
      BY <2>1 DEF Left
    <3> QED
      BY <2>1, <3>1, DecodeCons
  <2>4. CASE b # LF
    BY <2>2, <2>3, <2>4 DEF Sent
  <2>5. CASE b = LF
    <3>1. CR \in Byte /\ <<b>> \o e \in Seq(Byte)
      BY <2>1, TransferAssumption
    <3>4. Sent(b) \o e = <<CR>> \o (<<b>> \o e)
      <4>1. Sent(b) = <<CR>> \o <<b>>
        BY <2>5, <3>1, Pair DEF Sent
      <4>2. <<CR>> \in Seq(Byte) /\ <<b>> \in Seq(Byte)
        BY <3>1
      <4>3. (<<CR>> \o <<b>>) \o e = <<CR>> \o (<<b>> \o e)
        BY <2>1, <4>2, ConcatAssociative
      <4> QED
        BY <4>1, <4>3, Zenon
    <3>2. Left(CR, <<b>> \o e) = <<>>
      <4>1. <<b>> \o e # <<>> /\ Head(<<b>> \o e) = b
        BY <2>1
      <4> QED
        BY <2>5, <4>1 DEF Left
    <3>3. CRLF2LF(<<CR>> \o (<<b>> \o e)) = <<>> \o (<<b>> \o r)
      BY <2>3, <3>1, <3>2, DecodeCons
    <3>5. <<>> \o (<<b>> \o r) = <<b>> \o r
      <4>1. <<b>> \o r \in Seq(Byte)
        OBVIOUS
      <4> QED
        BY <4>1, ConcatEmptySeq
    <3> QED
      BY <2>2, <3>3, <3>4, <3>5, Zenon
  <2> QED
    BY <2>4, <2>5
<1> HIDE DEF Q
<1>3. Seq(Byte) \subseteq S
  <2>1. <<>> \in S /\ \A b \in Byte : \A r \in Seq(Byte) : r \in S => <<b>> \o r \in S
    BY <1>1, <1>2, EmptySeq, ConcatProperties
  <2> HIDE DEF S
  <2> QED
    BY <2>1, SequenceInduction
<1> QED
  BY <1>3 DEF Q

(***************************************************************************)
(* Wherever the stream is cut, the text is cut, or a CR LF that stands for *)
(* an LF.                                                                  *)
(***************************************************************************)
Parted(t, x, y) ==
  \E u \in Seq(Byte), v \in Seq(Byte) :
    /\ t = u \o v
    /\ \/ x = LF2CRLF(u) /\ y = LF2CRLF(v)
       \/ x = LF2CRLF(u) \o <<CR>> /\ <<CR>> \o y = LF2CRLF(v)

LEMMA PartedAtStart ==
  ASSUME NEW t \in Seq(Byte)
  PROVE  Parted(t, <<>>, LF2CRLF(t))
<1>1. <<>> \in Seq(Byte) /\ t = <<>> \o t
  OBVIOUS
<1> QED
  BY <1>1, EncodeEmpty DEF Parted

\* A byte that is sent as p is put in front.
LEMMA PartedBehind ==
  ASSUME NEW b \in Byte, NEW r \in Seq(Byte), NEW x \in Seq(Byte), NEW y \in Seq(Byte),
         Parted(r, x, y)
  PROVE  Parted(<<b>> \o r, Sent(b) \o x, y)
<1>1. PICK u \in Seq(Byte), v \in Seq(Byte) :
        /\ r = u \o v
        /\ \/ x = LF2CRLF(u) /\ y = LF2CRLF(v)
           \/ x = LF2CRLF(u) \o <<CR>> /\ <<CR>> \o y = LF2CRLF(v)
  BY DEF Parted
<1>2. <<b>> \in Seq(Byte) /\ <<b>> \o u \in Seq(Byte)
  OBVIOUS
<1>3. <<b>> \o r = (<<b>> \o u) \o v
  <2>1. (<<b>> \o u) \o v = <<b>> \o (u \o v)
    <3>1. Groups(<<b>>, u, v)
      BY <1>2, AllGroup, Zenon
    <3> QED
      BY <3>1, Zenon DEF Groups
  <2> QED
    BY <1>1, <2>1, Zenon
<1>4. LF2CRLF(<<b>> \o u) = Sent(b) \o LF2CRLF(u)
  BY EncodeCons
<1>5. Sent(b) \o (LF2CRLF(u) \o <<CR>>) = (Sent(b) \o LF2CRLF(u)) \o <<CR>>
  <2>1. Sent(b) \in Seq(Byte) /\ LF2CRLF(u) \in Seq(Byte) /\ <<CR>> \in Seq(Byte)
    BY SentType, EncodeType, TransferAssumption
  <2>2. Groups(Sent(b), LF2CRLF(u), <<CR>>)
    BY <2>1, AllGroup, Zenon
  <2> QED
    BY <2>2, Zenon DEF Groups
<1> QED
  BY <1>1, <1>2, <1>3, <1>4, <1>5, Zenon DEF Parted

LEMMA Cut ==
  ASSUME NEW t \in Seq(Byte), NEW x \in Seq(Byte), NEW y \in Seq(Byte),
         LF2CRLF(t) = x \o y
  PROVE  Parted(t, x, y)
<1> DEFINE Q(r) == \A p \in Seq(Byte) : \A q \in Seq(Byte) :
                     LF2CRLF(r) = p \o q => Parted(r, p, q)
           S == {r \in Seq(Byte) : Q(r)}
<1>1. Q(<<>>)
  <2> SUFFICES ASSUME NEW p \in Seq(Byte), NEW q \in Seq(Byte), LF2CRLF(<<>>) = p \o q
               PROVE  Parted(<<>>, p, q)
    OBVIOUS
  <2>1. p = <<>> /\ q = <<>>
    BY EncodeEmpty, ConcatEqualIffEmpty, EmptySeq
  <2>2. <<>> \in Seq(Byte)
    BY EmptySeq
  <2> QED
    BY <2>1, <2>2, EncodeEmpty, PartedAtStart
<1>2. ASSUME NEW b \in Byte, NEW r \in Seq(Byte), Q(r) PROVE Q(<<b>> \o r)
  <2> SUFFICES ASSUME NEW p \in Seq(Byte), NEW q \in Seq(Byte),
                      LF2CRLF(<<b>> \o r) = p \o q
               PROVE  Parted(<<b>> \o r, p, q)
    OBVIOUS
  <2>1. <<b>> \o r \in Seq(Byte) /\ LF2CRLF(r) \in Seq(Byte)
    BY EncodeType
  <2>2. Sent(b) \o LF2CRLF(r) = p \o q
    BY EncodeCons
  <2>3. CASE p = <<>>
    <3>1. q = LF2CRLF(<<b>> \o r)
      BY <2>3
    <3> QED
      BY <2>1, <2>3, <3>1, PartedAtStart
  <2>4. CASE p # <<>>
    <3> DEFINE c == Head(p)
               z == Tail(p)
    <3>1. c \in Byte /\ z \in Seq(Byte) /\ p = <<c>> \o z
      BY <2>4, HeadAndTail
    <3> HIDE DEF c, z
    <3>2. p \o q = <<c>> \o (z \o q) /\ z \o q \in Seq(Byte)
      <4>1. <<c>> \in Seq(Byte)
        BY <3>1
      <4>2. (<<c>> \o z) \o q = <<c>> \o (z \o q)
        <5>1. Groups(<<c>>, z, q)
          BY <3>1, <4>1, AllGroup, Zenon
        <5> QED
          BY <5>1, Zenon DEF Groups
      <4> QED
        BY <3>1, <4>2, ConcatProperties
    <3>3. CASE b # LF
      <4>1. Sent(b) = <<b>>
        BY <3>3 DEF Sent
      <4>2. c = b /\ z \o q = LF2CRLF(r)
        <5>1. <<c>> \o (z \o q) = <<b>> \o LF2CRLF(r)
          BY <2>2, <3>2, <4>1, Zenon
        <5>2. \A g, h \in Seq(Byte) : <<c>> \o g = <<b>> \o h => c = b /\ g = h
          BY <3>1, Cancel
        <5> QED
          BY <2>1, <3>2, <5>1, <5>2, Zenon
      <4>3. Parted(r, z, q)
        BY <1>2, <3>1, <4>2
      <4> QED
        BY <3>1, <4>1, <4>2, <4>3, PartedBehind
    <3>4. CASE b = LF
      <4>1. CR \in Byte /\ LF \in Byte /\ <<CR>> \in Seq(Byte) /\ <<LF>> \in Seq(Byte)
        BY TransferAssumption
      <4>2. Sent(b) = <<CR>> \o <<LF>>
        BY <3>4, <4>1, Pair DEF Sent
      <4>3. Sent(b) \o LF2CRLF(r) = <<CR>> \o (<<LF>> \o LF2CRLF(r))
            /\ <<LF>> \o LF2CRLF(r) \in Seq(Byte)
        <5>1. (<<CR>> \o <<LF>>) \o LF2CRLF(r) = <<CR>> \o (<<LF>> \o LF2CRLF(r))
          <6>1. Groups(<<CR>>, <<LF>>, LF2CRLF(r))
            BY <2>1, <4>1, AllGroup, Zenon
          <6> QED
            BY <6>1, Zenon DEF Groups
        <5> QED
          BY <2>1, <4>1, <4>2, <5>1, ConcatProperties
      <4>4. c = CR /\ z \o q = <<LF>> \o LF2CRLF(r)
        <5>1. <<c>> \o (z \o q) = <<CR>> \o (<<LF>> \o LF2CRLF(r))
          BY <2>2, <3>2, <4>3, Zenon
        <5>2. \A g, h \in Seq(Byte) : <<c>> \o g = <<CR>> \o h => c = CR /\ g = h
          BY <3>1, <4>1, Cancel
        <5> QED
          BY <3>2, <4>3, <5>1, <5>2, Zenon
      <4>5. CASE z = <<>>
        <5>1. q = <<LF>> \o LF2CRLF(r) /\ p = <<CR>>
          BY <3>1, <4>4, <4>5
        <5>2. <<CR>> \o q = LF2CRLF(<<b>> \o r)
          BY <2>2, <4>3, <5>1, EncodeCons
        <5>3. p = LF2CRLF(<<>>) \o <<CR>>
          BY <4>1, <5>1, EncodeEmpty, ConcatEmptySeq
        <5>4. <<b>> \o r = <<>> \o (<<b>> \o r) /\ <<>> \in Seq(Byte)
          BY <2>1, ConcatEmptySeq, EmptySeq
        <5> QED
          BY <2>1, <5>2, <5>3, <5>4, Zenon DEF Parted
      <4>6. CASE z # <<>>
        <5> DEFINE d == Head(z)
                   w == Tail(z)
        <5>1. d \in Byte /\ w \in Seq(Byte) /\ z = <<d>> \o w
          BY <3>1, <4>6, HeadAndTail
        <5> HIDE DEF d, w
        <5>2. z \o q = <<d>> \o (w \o q) /\ w \o q \in Seq(Byte)
          <6>1. <<d>> \in Seq(Byte)
            BY <5>1
          <6>2. (<<d>> \o w) \o q = <<d>> \o (w \o q)
            <7>1. Groups(<<d>>, w, q)
              BY <5>1, <6>1, AllGroup, Zenon
            <7> QED
              BY <7>1, Zenon DEF Groups
          <6> QED
            BY <5>1, <6>2, ConcatProperties
        <5>3. d = LF /\ w \o q = LF2CRLF(r)
          <6>1. <<d>> \o (w \o q) = <<LF>> \o LF2CRLF(r)
            BY <4>4, <5>2, Zenon
          <6>2. \A g, h \in Seq(Byte) : <<d>> \o g = <<LF>> \o h => d = LF /\ g = h
            BY <4>1, <5>1, Cancel
          <6> QED
            BY <2>1, <5>2, <6>1, <6>2, Zenon
        <5>4. Parted(r, w, q)
          BY <1>2, <5>1, <5>3
        <5>5. p = Sent(b) \o w
          <6>1. (<<CR>> \o <<LF>>) \o w = <<CR>> \o (<<LF>> \o w)
            <7>1. Groups(<<CR>>, <<LF>>, w)
              BY <4>1, <5>1, AllGroup, Zenon
            <7> QED
              BY <7>1, Zenon DEF Groups
          <6> QED
            BY <3>1, <4>2, <4>4, <5>1, <5>3, <6>1, Zenon
        <5> QED
          BY <5>1, <5>4, <5>5, PartedBehind
      <4> QED
        BY <4>5, <4>6
    <3> QED
      BY <3>3, <3>4
  <2> QED
    BY <2>3, <2>4
<1> HIDE DEF Q
<1>3. Seq(Byte) \subseteq S
  <2>1. <<>> \in S /\ \A b \in Byte : \A r \in Seq(Byte) : r \in S => <<b>> \o r \in S
    BY <1>1, <1>2, EmptySeq, ConcatProperties
  <2> HIDE DEF S
  <2> QED
    BY <2>1, SequenceInduction
<1> QED
  BY <1>3 DEF Q

\* The last byte that is sent for s is that of s.
LEMMA EncodeAppend ==
  ASSUME NEW s \in Seq(Byte), NEW b \in Byte
  PROVE  LF2CRLF(s \o <<b>>) = LF2CRLF(s) \o Sent(b)
<1>1. <<b>> \in Seq(Byte) /\ <<b>> = <<b>> \o <<>> /\ <<>> \in Seq(Byte)
  OBVIOUS
<1>2. LF2CRLF(<<b>>) = Sent(b)
  <2>1. LF2CRLF(<<b>> \o <<>>) = Sent(b) \o <<>>
    BY <1>1, EncodeCons, EncodeEmpty
  <2>2. Sent(b) \o <<>> = Sent(b)
    BY SentType, ConcatEmptySeq
  <2> QED
    BY <1>1, <2>1, <2>2, Zenon
<1> QED
  BY <1>1, <1>2, EncodeConcat

LEMMA LastAndFront ==
  ASSUME NEW s \in Seq(Byte), s # <<>>
  PROVE  Last(s) \in Byte /\ Front(s) \in Seq(Byte) /\ s = Front(s) \o <<Last(s)>>
<1>1. Len(s) \in Nat /\ Len(s) # 0
  BY EmptySeq
<1>2. Last(s) \in Byte /\ Last(s) = s[Len(s)]
  BY <1>1, ElementOfSeq DEF Last
<1>3. /\ Front(s) \in Seq(Byte) /\ Len(Front(s)) = Len(s) - 1
      /\ \A i \in 1..(Len(s) - 1) : Front(s)[i] = s[i]
  <2>1. \A i \in 1..(Len(s) - 1) : s[i] \in Byte
    BY ElementOfSeq
  <2> DEFINE n == Len(s) - 1
  <2>2. n \in Int /\ 1 <= n + 1 /\ n - 1 + 1 = n /\ \A i \in 1..n : 1 + i - 1 = i
    BY <1>1
  <2>3. /\ SubSeq(s, 1, n) \in Seq(Byte) /\ Len(SubSeq(s, 1, n)) = IF 1 <= n THEN n - 1 + 1 ELSE 0
        /\ \A i \in 1..(n - 1 + 1) : SubSeq(s, 1, n)[i] = s[1 + i - 1]
    <3> HIDE DEF n
    <3> QED
      BY <2>1, <2>2, SubSeqProperties DEF n
  <2> QED
    BY <1>1, <2>2, <2>3 DEF Front
<1>4. \A b \in Byte : /\ Front(s) \o <<b>> \in Seq(Byte) /\ Len(Front(s) \o <<b>>) = Len(s)
                      /\ \A i \in 1..(Len(s) - 1) : (Front(s) \o <<b>>)[i] = s[i]
                      /\ (Front(s) \o <<b>>)[Len(s)] = b
  BY <1>1, <1>3
<1>5. \A i \in 1..Len(s) : s[i] = (Front(s) \o <<Last(s)>>)[i]
  BY <1>1, <1>2, <1>4
<1> QED
  BY <1>2, <1>3, <1>4, <1>5, SeqEqual

LEMMA LastOfAppend ==
  ASSUME NEW s \in Seq(Byte), NEW b \in Byte
  PROVE  Last(s \o <<b>>) = b /\ Front(s \o <<b>>) = s
<1> DEFINE t == s \o <<b>>
<1>1. /\ t \in Seq(Byte) /\ Len(t) = Len(s) + 1 /\ t[Len(t)] = b
      /\ \A i \in 1..Len(s) : t[i] = s[i]
  OBVIOUS
<1> HIDE DEF t
<1>2. Last(t) = b
  BY <1>1 DEF Last
<1>3. /\ Front(t) \in Seq(Byte) /\ Len(Front(t)) = Len(s)
      /\ \A i \in 1..Len(s) : Front(t)[i] = t[i]
  BY <1>1 DEF Front
<1>4. Front(t) = s
  BY <1>1, <1>3, SeqEqual
<1> QED
  BY <1>2, <1>4 DEF t

\* x has been received of the encoded t, and y is still to come.
Decodes(t, x, y) ==
  \E u \in Seq(Byte), v \in Seq(Byte) :
    /\ t = u \o v
    /\ Last(x) # CR => CRLF2LF(x) = u /\ LF2CRLF(v) = y
    /\ Last(x) = CR => CRLF2LF(Front(x)) = u /\ LF2CRLF(v) = <<CR>> \o y

(***************************************************************************)
(* A part x of what is sent for t decodes to a beginning of t, if a CR at  *)
(* its end is left out; and y, the rest, stands for the rest of t.         *)
(***************************************************************************)
LEMMA Decoding ==
  ASSUME NEW t \in Seq(Byte), NEW x \in Seq(Byte), NEW y \in Seq(Byte),
         LF2CRLF(t) = x \o y, x # <<>>
  PROVE  Decodes(t, x, y)
<1> USE DEF Decodes
<1>0. CR \in Byte /\ <<CR>> \in Seq(Byte) /\ LF \in Byte /\ CR # LF
  BY TransferAssumption DEF CR, LF
<1>1. PICK u \in Seq(Byte), v \in Seq(Byte) :
        /\ t = u \o v
        /\ \/ x = LF2CRLF(u) /\ y = LF2CRLF(v)
           \/ x = LF2CRLF(u) \o <<CR>> /\ <<CR>> \o y = LF2CRLF(v)
  BY Cut DEF Parted
<1>2. LF2CRLF(u) \in Seq(Byte) /\ LF2CRLF(v) \in Seq(Byte) /\ CRLF2LF(LF2CRLF(u)) = u
  BY EncodeType, DecodeEncoded
<1>3. CASE x = LF2CRLF(u) \o <<CR>> /\ <<CR>> \o y = LF2CRLF(v)
  <2>1. Last(x) = CR /\ Front(x) = LF2CRLF(u)
    BY <1>0, <1>2, <1>3, LastOfAppend
  <2> QED
    BY <1>1, <1>2, <1>3, <2>1
<1>4. CASE x = LF2CRLF(u) /\ y = LF2CRLF(v) /\ Last(x) # CR
  BY <1>1, <1>2, <1>4
<1>5. CASE x = LF2CRLF(u) /\ y = LF2CRLF(v) /\ Last(x) = CR
  <2>1. u # <<>>
    BY <1>5, EncodeEmpty
  <2> DEFINE w == Front(u)
             c == Last(u)
  <2>2. w \in Seq(Byte) /\ c \in Byte
    BY <2>1, LastAndFront
  <2>20. u = w \o <<c>>
    BY <2>1, LastAndFront
  <2> HIDE DEF w, c
  <2>3. x = LF2CRLF(w) \o Sent(c) /\ LF2CRLF(w) \in Seq(Byte) /\ CRLF2LF(LF2CRLF(w)) = w
    BY <1>5, <2>2, <2>20, EncodeAppend, EncodeType, DecodeEncoded
  <2>4. c # LF
    <3> SUFFICES ASSUME c = LF PROVE FALSE
      OBVIOUS
    <3>1. Sent(c) = <<CR>> \o <<LF>>
      BY <1>0, Pair DEF Sent
    <3>2. (LF2CRLF(w) \o <<CR>>) \o <<LF>> = LF2CRLF(w) \o (<<CR>> \o <<LF>>)
      <4>1. Groups(LF2CRLF(w), <<CR>>, <<LF>>)
        <5>1. <<LF>> \in Seq(Byte)
          BY <1>0
        <5> QED
          BY <1>0, <2>3, <5>1, AllGroup, Zenon
      <4> QED
        BY <4>1, Zenon DEF Groups
    <3>3. x = (LF2CRLF(w) \o <<CR>>) \o <<LF>> /\ LF2CRLF(w) \o <<CR>> \in Seq(Byte)
      <4>1. LF2CRLF(w) \o <<CR>> \in Seq(Byte)
        BY <1>0, <2>3, ConcatProperties
      <4> QED
        BY <2>3, <3>1, <3>2, <4>1, Zenon
    <3>4. Last(x) = LF
      BY <1>0, <3>3, LastOfAppend
    <3> QED
      BY <1>0, <1>5, <3>4
  <2>5. x = LF2CRLF(w) \o <<c>>
    BY <2>3, <2>4 DEF Sent
  <2>6. Last(x) = c /\ Front(x) = LF2CRLF(w)
    <3>1. Last(LF2CRLF(w) \o <<c>>) = c /\ Front(LF2CRLF(w) \o <<c>>) = LF2CRLF(w)
      <4> HIDE <2>5
      <4> QED
        BY <2>2, <2>3, LastOfAppend
    <3> QED
      BY <2>5, <3>1, Zenon
  <2>7. t = w \o (<<CR>> \o v)
    <3>1. (w \o <<CR>>) \o v = w \o (<<CR>> \o v)
      <4>1. Groups(w, <<CR>>, v)
        BY <1>0, <2>2, AllGroup, Zenon
      <4> QED
        BY <4>1, Zenon DEF Groups
    <3> QED
      BY <1>1, <1>5, <2>20, <2>6, <3>1, Zenon
  <2>8. LF2CRLF(<<CR>> \o v) = <<CR>> \o y
    <3>1. Sent(CR) = <<CR>>
      BY <1>0 DEF Sent
    <3> QED
      BY <1>0, <1>5, <3>1, EncodeCons
  <2>9. <<CR>> \o v \in Seq(Byte)
    BY <1>0, ConcatProperties
  <2> QED
    BY <1>5, <2>2, <2>3, <2>6, <2>7, <2>8, <2>9, Zenon
<1> QED
  BY <1>1, <1>3, <1>4, <1>5

-----------------------------------------------------------------------------
(***************************************************************************)
(* Beginnings and ends of sequences.                                       *)
(***************************************************************************)
LEMMA Slice ==
  ASSUME NEW s \in Seq(Byte), NEW m \in 0..Len(s), NEW n \in m..Len(s)
  PROVE  /\ SubSeq(s, m + 1, n) \in Seq(Byte) /\ Len(SubSeq(s, m + 1, n)) = n - m
         /\ \A i \in 1..(n - m) : SubSeq(s, m + 1, n)[i] = s[m + i]
<1> DEFINE a == m + 1
           d == n - m
<1>1. /\ m \in Nat /\ a \in Int /\ n \in Int /\ d \in Nat /\ n - a + 1 = d /\ a..n \subseteq 1..Len(s)
      /\ (IF a <= n THEN n - a + 1 ELSE 0) = d
      /\ \A i \in 1..d : a + i - 1 = m + i
  OBVIOUS
<1>2. \A i \in 1..Len(s) : s[i] \in Byte
  BY ElementOfSeq
<1>3. /\ SubSeq(s, a, n) \in Seq(Byte)
      /\ Len(SubSeq(s, a, n)) = IF a <= n THEN n - a + 1 ELSE 0
      /\ \A i \in 1..(n - a + 1) : SubSeq(s, a, n)[i] = s[a + i - 1]
  <2>1. \A i \in a..n : s[i] \in Byte
    BY <1>1, <1>2
  <2> HIDE DEF a
  <2> QED
    BY <1>1, <2>1, SubSeqProperties
<1> QED
  BY <1>1, <1>3

LEMMA Split ==
  ASSUME NEW s \in Seq(Byte), NEW n \in 0..Len(s)
  PROVE  /\ Upto(s, n) \in Seq(Byte) /\ Len(Upto(s, n)) = n
         /\ From(s, n) \in Seq(Byte) /\ Len(From(s, n)) = Len(s) - n
         /\ s = Upto(s, n) \o From(s, n)
<1>0. Len(s) \in Nat
  OBVIOUS
<1>1. /\ 0 \in 0..Len(s) /\ n \in 0..Len(s) /\ Len(s) \in n..Len(s) /\ 0 + 1 = 1 /\ n - 0 = n
      /\ 1 \in 1..(Len(s) + 1) /\ n \in (1 - 1)..Len(s)
  BY <1>0
<1>2. SubSeq(s, 0 + 1, n) \in Seq(Byte) /\ Len(SubSeq(s, 0 + 1, n)) = n - 0
  BY <1>1, Slice
<1>3. From(s, n) \in Seq(Byte) /\ Len(From(s, n)) = Len(s) - n
  BY <1>1, Slice DEF From
<1>4. SubSeq(s, 1, n) \o SubSeq(s, n + 1, Len(s)) = SubSeq(s, 1, Len(s))
  BY <1>1, ConcatAdjacentSubSeq
<1>5. SubSeq(s, 1, Len(s)) = s
  BY SubSeqFull
<1> QED
  BY <1>1, <1>2, <1>3, <1>4, <1>5 DEF Upto, From

LEMMA PrefixLength ==
  ASSUME NEW s \in Seq(Byte), NEW t \in Seq(Byte), IsPrefix(s, t)
  PROVE  /\ Len(s) \in 0..Len(t) /\ Upto(t, Len(s)) = s
         /\ t = s \o From(t, Len(s)) /\ From(t, Len(s)) \in Seq(Byte)
<1>1. Len(s) \in 0..Len(t) /\ Upto(t, Len(s)) = s
  BY SubSeqFull DEF IsPrefix, Upto
<1> QED
  BY <1>1, Split

LEMMA Joined ==
  ASSUME NEW u \in Seq(Byte), NEW v \in Seq(Byte)
  PROVE  /\ u \o v \in Seq(Byte) /\ Len(u \o v) = Len(u) + Len(v)
         /\ From(u \o v, Len(u)) = v /\ IsPrefix(u, u \o v)
<1> DEFINE s == u \o v
<1>1. /\ s \in Seq(Byte) /\ Len(s) = Len(u) + Len(v) /\ Len(u) \in Nat /\ Len(v) \in Nat
      /\ \A i \in 1..Len(u) : s[i] = u[i]
      /\ \A i \in 1..Len(v) : s[Len(u) + i] = v[i]
  OBVIOUS
<1> HIDE DEF s
<1>2. Len(u) \in 0..Len(s) /\ \A i \in 1..Len(s) : s[i] \in Byte
  BY <1>1, ElementOfSeq
<1>3. From(s, Len(u)) = v
  <2>1. From(s, Len(u)) \in Seq(Byte) /\ Len(From(s, Len(u))) = Len(v)
    BY <1>1, <1>2, Split
  <2>2. \A i \in 1..Len(v) : From(s, Len(u))[i] = v[i]
    BY <1>1, <1>2, SubSeqProperties DEF From
  <2> QED
    BY <2>1, <2>2, SeqEqual
<1>4. Upto(s, Len(u)) = u
  <2>1. Upto(s, Len(u)) \in Seq(Byte) /\ Len(Upto(s, Len(u))) = Len(u)
    BY <1>1, <1>2, Split
  <2>2. \A i \in 1..Len(u) : Upto(s, Len(u))[i] = u[i]
    BY <1>1, <1>2, SubSeqProperties DEF Upto
  <2> QED
    BY <2>1, <2>2, SeqEqual
<1>5. IsPrefix(u, s)
  BY <1>1, <1>4, SubSeqFull DEF IsPrefix, Upto
<1> QED
  BY <1>1, <1>3, <1>5 DEF s

LEMMA PrefixOfPrefix ==
  ASSUME NEW r \in Seq(Byte), NEW s \in Seq(Byte), NEW t \in Seq(Byte),
         IsPrefix(r, s), IsPrefix(s, t)
  PROVE  IsPrefix(r, t)
<1> DEFINE p == From(s, Len(r))
           q == From(t, Len(s))
<1>1. s = r \o p /\ p \in Seq(Byte)
  BY PrefixLength
<1>2. t = s \o q /\ q \in Seq(Byte)
  BY PrefixLength
<1> HIDE DEF p, q
<1>3. (r \o p) \o q = r \o (p \o q) /\ p \o q \in Seq(Byte)
  <2>1. Groups(r, p, q)
    BY <1>1, <1>2, AllGroup, Zenon
  <2>2. p \o q \in Seq(Byte)
    BY <1>1, <1>2, ConcatProperties
  <2> QED
    BY <2>1, <2>2, Zenon DEF Groups
<1>4. IsPrefix(r, r \o (p \o q))
  BY <1>3, Joined
<1> QED
  BY <1>1, <1>2, <1>3, <1>4, Zenon

LEMMA UptoPrefix ==
  ASSUME NEW s \in Seq(Byte), NEW n \in 0..Len(s)
  PROVE  IsPrefix(Upto(s, n), s)
<1> DEFINE p == Upto(s, n)
           q == From(s, n)
<1>1. p \in Seq(Byte) /\ q \in Seq(Byte) /\ s = p \o q
  BY Split
<1> HIDE DEF p, q
<1>2. IsPrefix(p, p \o q)
  BY <1>1, Joined
<1> QED
  BY <1>1, <1>2, Zenon DEF p

-----------------------------------------------------------------------------
(***************************************************************************)
(* What an upload stores of a block.                                       *)
(***************************************************************************)
LEMMA HeldBackType == \A h : HeldBack(h) \in Seq(Byte)
  BY TransferAssumption DEF HeldBack

\* Holding back a CR amounts to converting it together with the next block.
LEMMA StoredDecodes ==
  ASSUME NEW block \in Seq(Byte), block # <<>>, type = "A", held \in BOOLEAN
  PROVE  LET x == HeldBack(held) \o block IN
         /\ x \in Seq(Byte) /\ x # <<>> /\ Last(x) = Last(block)
         /\ Stored(block).held = (Last(block) = CR)
         /\ Last(block) # CR => Stored(block).bytes = CRLF2LF(x)
         /\ Last(block) = CR => Stored(block).bytes = CRLF2LF(Front(x))
<1> DEFINE w == Front(block)
           c == Last(block)
<1>0. CR \in Byte /\ <<>> \in Seq(Byte)
  BY TransferAssumption
<1>1. w \in Seq(Byte) /\ c \in Byte /\ block = w \o <<c>>
  BY LastAndFront
<1>2. /\ Stored(block).held = (c = CR)
      /\ Stored(block).bytes = (IF held /\ Head(block) # LF THEN <<CR>> ELSE <<>>)
                                \o CRLF2LF(IF c # CR THEN block ELSE w)
  BY DEF Stored
<1>3. CRLF2LF(block) \in Seq(Byte) /\ CRLF2LF(w) \in Seq(Byte)
  BY <1>1, DecodeType
<1> HIDE DEF w, c
<1>4. CASE ~held
  <2>1. HeldBack(held) \o block = block
    BY <1>4 DEF HeldBack
  <2>2. <<>> \o CRLF2LF(block) = CRLF2LF(block) /\ <<>> \o CRLF2LF(w) = CRLF2LF(w)
    BY <1>3
  <2> QED
    BY <1>2, <1>4, <2>1, <2>2 DEF w, c
<1>5. CASE held
  <2> DEFINE x == <<CR>> \o block
  <2>1. HeldBack(held) \o block = x
    BY <1>5 DEF HeldBack
  <2>2. x = (<<CR>> \o w) \o <<c>> /\ <<CR>> \o w \in Seq(Byte)
    <3>1. (<<CR>> \o w) \o <<c>> = <<CR>> \o (w \o <<c>>) /\ <<CR>> \o w \in Seq(Byte)
      <4>1. Groups(<<CR>>, w, <<c>>)
        <5>1. <<CR>> \in Seq(Byte) /\ <<c>> \in Seq(Byte)
          BY <1>0, <1>1
        <5> QED
          BY <1>1, <5>1, AllGroup, Zenon
      <4>2. <<CR>> \o w \in Seq(Byte)
        BY <1>0, <1>1, ConcatProperties
      <4> QED
        BY <4>1, <4>2, Zenon DEF Groups
    <3> QED
      BY <1>1, <3>1, Zenon
  <2>3. x \in Seq(Byte) /\ x # <<>>
    BY <1>0
  <2>4. Last(x) = c /\ Front(x) = <<CR>> \o w
    <3>1. Last((<<CR>> \o w) \o <<c>>) = c /\ Front((<<CR>> \o w) \o <<c>>) = <<CR>> \o w
      BY <1>1, <2>2, LastOfAppend
    <3> QED
      BY <2>2, <3>1, Zenon
  <2>5. c # CR => Stored(block).bytes = CRLF2LF(x)
    <3>1. CRLF2LF(x) = Left(CR, block) \o CRLF2LF(block)
      BY <1>0, DecodeCons
    <3>2. Left(CR, block) = IF Head(block) # LF THEN <<CR>> ELSE <<>>
      BY DEF Left
    <3> HIDE DEF x
    <3> QED
      BY <1>2, <1>5, <3>1, <3>2
  <2>6. c = CR => Stored(block).bytes = CRLF2LF(Front(x))
    <3>1. CRLF2LF(<<CR>> \o w) = Left(CR, w) \o CRLF2LF(w)
      BY <1>0, <1>1, DecodeCons
    <3>2. c = CR => Left(CR, w) = IF Head(block) # LF THEN <<CR>> ELSE <<>>
      <4>1. CASE w = <<>>
        <5>1. block = <<c>>
          BY <1>1, <4>1
        <5> QED
          BY <4>1, <5>1 DEF Left, CR, LF
      <4>2. CASE w # <<>>
        <5>1. Head(block) = Head(w)
          BY <1>1, <4>2
        <5> QED
          BY <4>2, <5>1 DEF Left
      <4> QED
        BY <4>1, <4>2
    <3> HIDE DEF x
    <3> QED
      BY <1>2, <1>5, <2>4, <3>1, <3>2
  <2> HIDE DEF x
  <2> QED
    BY <1>2, <2>1, <2>3, <2>4, <2>5, <2>6 DEF c
<1> QED
  BY <1>4, <1>5

LEMMA EncodedType ==
  ASSUME NEW s \in Seq(Byte)
  PROVE  Encoded(s) \in Seq(Byte)
  BY EncodeType DEF Encoded

LEMMA EncodedConcat ==
  ASSUME NEW s \in Seq(Byte), NEW t \in Seq(Byte)
  PROVE  Encoded(s \o t) = Encoded(s) \o Encoded(t)
  BY EncodeConcat DEF Encoded

\* What is stored of a block is a part of r, and y is still to come for the rest of it.
Fits(r, stored, y) ==
  \E v \in Seq(Byte) : r = stored.bytes \o v /\ HeldBack(stored.held) \o y = Encoded(v)

\* If the connection carries the rest of the file, it still does after a block has been
\* stored, and the block was the next part of the file.
LEMMA StoredFits ==
  ASSUME NEW rest \in Seq(Byte), wire \in Seq(Byte), type \in {"A", "I"}, held \in BOOLEAN,
         held => type = "A", HeldBack(held) \o wire = Encoded(rest),
         NEW k \in 1..Len(wire)
  PROVE  LET stored == Stored(Upto(wire, k)) IN
         /\ stored.bytes \in Seq(Byte) /\ stored.held \in BOOLEAN /\ (stored.held => type = "A")
         /\ Fits(rest, stored, From(wire, k))
<1> USE DEF Fits
<1> DEFINE block == Upto(wire, k)
           y == From(wire, k)
           stored == Stored(block)
           h == HeldBack(held)
<1>1. /\ block \in Seq(Byte) /\ block # <<>> /\ y \in Seq(Byte) /\ wire = block \o y
      /\ h \in Seq(Byte)
  <2>1. k \in 0..Len(wire) /\ k # 0
    OBVIOUS
  <2>2. /\ block \in Seq(Byte) /\ y \in Seq(Byte) /\ wire = block \o y /\ Len(block) = k
    BY <2>1, Split
  <2>3. block # <<>>
    BY <2>1, <2>2, EmptySeq
  <2> QED
    BY <2>2, <2>3, HeldBackType
<1> HIDE DEF block, y
<1>2. CASE type = "A"
  <2> DEFINE x == h \o block
  <2>1. /\ x \in Seq(Byte) /\ x # <<>> /\ Last(x) = Last(block)
        /\ stored.held = (Last(block) = CR)
        /\ Last(block) # CR => stored.bytes = CRLF2LF(x)
        /\ Last(block) = CR => stored.bytes = CRLF2LF(Front(x))
    BY <1>1, <1>2, StoredDecodes
  <2>2. LF2CRLF(rest) = x \o y
    <3>1. (h \o block) \o y = h \o (block \o y)
      <4>1. Groups(h, block, y)
        BY <1>1, AllGroup, Zenon
      <4> QED
        BY <4>1, Zenon DEF Groups
    <3>2. h \o wire = LF2CRLF(rest)
      BY <1>2 DEF Encoded
    <3> QED
      BY <1>1, <3>1, <3>2, Zenon
  <2> HIDE DEF x, h, stored
  <2>3. PICK u \in Seq(Byte), v \in Seq(Byte) :
          /\ rest = u \o v
          /\ Last(x) # CR => CRLF2LF(x) = u /\ LF2CRLF(v) = y
          /\ Last(x) = CR => CRLF2LF(Front(x)) = u /\ LF2CRLF(v) = <<CR>> \o y
    <3>1. Decodes(rest, x, y)
      BY <1>1, <2>1, <2>2, Decoding
    <3> QED
      BY <3>1 DEF Decodes
  <2>4. stored.bytes = u /\ HeldBack(stored.held) \o y = LF2CRLF(v) /\ stored.held \in BOOLEAN
    <3>1. <<>> \o y = y
      BY <1>1
    <3>2. CASE Last(block) = CR
      BY <2>1, <2>3, <3>2 DEF HeldBack
    <3>3. CASE Last(block) # CR
      <4>1. stored.held = FALSE
        BY <2>1, <3>3
      <4>2. HeldBack(stored.held) = <<>>
        BY <4>1 DEF HeldBack
      <4> QED
        BY <2>1, <2>3, <3>1, <3>3, <4>1, <4>2
    <3> QED
      BY <3>2, <3>3
  <2>5. rest = stored.bytes \o v /\ HeldBack(stored.held) \o y = Encoded(v)
    BY <1>2, <2>3, <2>4 DEF Encoded
  <2> QED
    BY <1>2, <2>4, <2>5 DEF stored, block, y
<1>3. CASE type # "A"
  <2>1. ~held /\ h = <<>> /\ stored = [bytes |-> block, held |-> held]
    BY <1>3 DEF HeldBack, Stored
  <2>2. rest = block \o y /\ HeldBack(stored.held) \o y = y /\ Encoded(y) = y
    <3>1. <<>> \o wire = wire /\ <<>> \o y = y
      BY <1>1
    <3>2. Encoded(rest) = rest /\ Encoded(y) = y
      BY <1>3 DEF Encoded
    <3>3. HeldBack(stored.held) = <<>>
      BY <2>1 DEF HeldBack
    <3> HIDE DEF stored, h
    <3>4. h \o wire = rest
      BY <3>2 DEF h
    <3> QED
      BY <1>1, <2>1, <3>1, <3>2, <3>3, <3>4, Zenon
  <2>3. stored.bytes = block /\ stored.held = FALSE
    BY <2>1
  <2> HIDE DEF stored
  <2>4. rest = stored.bytes \o y /\ HeldBack(stored.held) \o y = Encoded(y)
    BY <2>2, <2>3, Zenon
  <2> QED
    BY <1>1, <2>3, <2>4 DEF stored, block, y
<1> QED
  BY <1>2, <1>3

\* What a client decodes of a transfer that broke off is the beginning of what was sent.
LEMMA CertainFits ==
  ASSUME NEW s \in Seq(Byte), NEW x \in Seq(Byte), NEW y \in Seq(Byte),
         type \in {"A", "I"}, Encoded(s) = x \o y
  PROVE  \E v \in Seq(Byte) : /\ Decoded(Certain(x)) \in Seq(Byte)
                             /\ s = Decoded(Certain(x)) \o v
<1>1. CASE type # "A"
  <2>1. Decoded(Certain(x)) = x /\ s = x \o y
    BY <1>1 DEF Decoded, Certain, Encoded
  <2> QED
    BY <2>1
<1>2. CASE type = "A" /\ x = <<>>
  <2>1. Decoded(Certain(x)) = <<>>
    BY <1>2, DecodeEmpty DEF Decoded, Certain
  <2>2. s = <<>> \o s /\ <<>> \in Seq(Byte)
    OBVIOUS
  <2> QED
    BY <2>1, <2>2
<1>3. CASE type = "A" /\ x # <<>>
  <2>1. LF2CRLF(s) = x \o y
    BY <1>3 DEF Encoded
  <2>2. PICK u \in Seq(Byte), v \in Seq(Byte) :
          /\ s = u \o v
          /\ Last(x) # CR => CRLF2LF(x) = u /\ LF2CRLF(v) = y
          /\ Last(x) = CR => CRLF2LF(Front(x)) = u /\ LF2CRLF(v) = <<CR>> \o y
    <3>1. Decodes(s, x, y)
      BY <1>3, <2>1, Decoding
    <3> QED
      BY <3>1 DEF Decodes
  <2>3. Decoded(Certain(x)) = u
    BY <1>3, <2>2 DEF Decoded, Certain
  <2> QED
    BY <2>2, <2>3
<1> QED
  BY <1>1, <1>2, <1>3

-----------------------------------------------------------------------------
(***************************************************************************)
(* A file grows and shrinks, and stays a beginning of the text.            *)
(***************************************************************************)
\* In t, b and then v follow f.
Follow(f, t, b, v) == From(t, Len(f)) = b \o v

LEMMA Grows ==
  ASSUME NEW f \in Seq(Byte), NEW t \in Seq(Byte), IsPrefix(f, t),
         NEW b \in Seq(Byte), NEW v \in Seq(Byte), Follow(f, t, b, v)
  PROVE  /\ f \o b \in Seq(Byte) /\ IsPrefix(f \o b, t)
         /\ Len(f) <= Len(f \o b) /\ Len(f \o b) <= Len(t)
         /\ From(t, Len(f \o b)) = v
<1> USE DEF Follow
<1> DEFINE g == f \o b
<1>1. t = f \o From(t, Len(f))
  BY PrefixLength
<1>2. (f \o b) \o v = f \o (b \o v)
  <2>1. Groups(f, b, v)
    BY AllGroup, Zenon
  <2> QED
    BY <2>1, Zenon DEF Groups
<1>3. t = g \o v
  BY <1>1, <1>2, Zenon
<1>4. g \in Seq(Byte) /\ Len(g) = Len(f) + Len(b)
  BY Joined
<1> HIDE DEF g
<1>5. /\ IsPrefix(g, g \o v) /\ From(g \o v, Len(g)) = v
      /\ Len(g \o v) = Len(g) + Len(v)
  BY <1>4, Joined
<1>6. Len(f) \in Nat /\ Len(b) \in Nat /\ Len(v) \in Nat
  OBVIOUS
<1>7. /\ IsPrefix(g, t) /\ From(t, Len(g)) = v
      /\ Len(t) = Len(g) + Len(v)
  BY <1>3, <1>5, Zenon
<1>8. Len(f) <= Len(g) /\ Len(g) <= Len(t)
  <2> HIDE <1>1, <1>2, <1>3
  <2> QED
    BY <1>4, <1>6, <1>7
<1> QED
  BY <1>4, <1>7, <1>8 DEF g

LEMMA GrowsPartly ==
  ASSUME NEW f \in Seq(Byte), NEW t \in Seq(Byte), IsPrefix(f, t),
         NEW b \in Seq(Byte), NEW v \in Seq(Byte), From(t, Len(f)) = b \o v,
         NEW n \in 0..Len(b)
  PROVE  /\ f \o Upto(b, n) \in Seq(Byte) /\ IsPrefix(f \o Upto(b, n), t)
         /\ Len(f \o Upto(b, n)) <= Len(t)
<1> DEFINE p == Upto(b, n)
           q == From(b, n)
<1>1. p \in Seq(Byte) /\ q \in Seq(Byte) /\ b = p \o q
  BY Split
<1> HIDE DEF p, q
<1>2. (p \o q) \o v = p \o (q \o v)
  <2>1. p \in Seq(Byte) /\ q \in Seq(Byte)
    BY <1>1
  <2>2. Groups(p, q, v)
    BY <2>1, AllGroup, Zenon
  <2> QED
    BY <2>2, Zenon DEF Groups
<1>3. From(t, Len(f)) = p \o (q \o v)
  BY <1>1, <1>2, Zenon
<1>4. q \o v \in Seq(Byte)
  BY <1>1, ConcatProperties
<1>5. f \o p \in Seq(Byte) /\ IsPrefix(f \o p, t) /\ Len(f \o p) <= Len(t)
  <2> DEFINE w == q \o v
  <2>1. w \in Seq(Byte) /\ From(t, Len(f)) = p \o w
    BY <1>3, <1>4
  <2> HIDE DEF w
  <2> QED
    BY <1>1, <2>1, Grows DEF Follow
<1> QED
  BY <1>5 DEF p

LEMMA Shrinks ==
  ASSUME NEW f \in Seq(Byte), NEW t \in Seq(Byte), IsPrefix(f, t), NEW n \in 0..Len(f)
  PROVE  /\ Upto(f, n) \in Seq(Byte) /\ IsPrefix(Upto(f, n), t)
         /\ Len(Upto(f, n)) = n /\ n \in 0..Len(t)
<1>1. Upto(f, n) \in Seq(Byte) /\ IsPrefix(Upto(f, n), f) /\ Len(Upto(f, n)) = n
  BY Split, UptoPrefix
<1>2. IsPrefix(Upto(f, n), t)
  BY <1>1, PrefixOfPrefix
<1>3. Len(f) \in 0..Len(t)
  BY PrefixLength
<1> QED
  BY <1>1, <1>2, <1>3

LEMMA SliceOfPrefix ==
  ASSUME NEW s \in Seq(Byte), NEW t \in Seq(Byte), IsPrefix(s, t),
         NEW m \in 0..Len(s), NEW n \in m..Len(s)
  PROVE  SubSeq(s, m + 1, n) = SubSeq(t, m + 1, n)
<1>1. Len(s) \in 0..Len(t) /\ Upto(t, Len(s)) = s
  BY PrefixLength
<1>2. Len(t) \in Nat /\ 0 \in 0..Len(t) /\ Len(s) \in 0..Len(t) /\ Len(s) - 0 = Len(s) /\ 0 + 1 = 1
  BY <1>1
<1>3. \A i \in 1..(Len(s) - 0) : SubSeq(t, 0 + 1, Len(s))[i] = t[0 + i]
  BY <1>2, Slice
<1>4. \A i \in 1..Len(s) : s[i] = t[i]
  <2>1. \A i \in 1..Len(s) : 0 + i = i
    OBVIOUS
  <2> QED
    BY <1>1, <1>2, <1>3, <2>1 DEF Upto
<1>5. /\ SubSeq(s, m + 1, n) \in Seq(Byte) /\ Len(SubSeq(s, m + 1, n)) = n - m
      /\ \A i \in 1..(n - m) : SubSeq(s, m + 1, n)[i] = s[m + i]
  BY Slice
<1>6. /\ SubSeq(t, m + 1, n) \in Seq(Byte) /\ Len(SubSeq(t, m + 1, n)) = n - m
      /\ \A i \in 1..(n - m) : SubSeq(t, m + 1, n)[i] = t[m + i]
  <2>1. m \in 0..Len(t) /\ n \in m..Len(t)
    BY <1>2
  <2> QED
    BY <2>1, Slice
<1>7. \A i \in 1..(n - m) : m + i \in 1..Len(s)
  OBVIOUS
<1> QED
  BY <1>4, <1>5, <1>6, <1>7, SeqEqual

LEMMA MinOfTwo ==
  ASSUME NEW a \in Nat, NEW b \in Nat
  PROVE  Min({a, b}) = IF a <= b THEN a ELSE b
<1> DEFINE m == IF a <= b THEN a ELSE b
<1>1. m \in {a, b} /\ \A y \in {a, b} : m <= y
  OBVIOUS
<1>2. \A x \in {a, b} : (\A y \in {a, b} : x <= y) => x = m
  OBVIOUS
<1> QED
  BY <1>1, <1>2 DEF Min

LEMMA EmptyIsPrefix ==
  ASSUME NEW s \in Seq(Byte)
  PROVE  <<>> \in Seq(Byte) /\ IsPrefix(<<>>, s)
<1>1. <<>> \in Seq(Byte) /\ <<>> \o s = s
  OBVIOUS
<1>2. IsPrefix(<<>>, <<>> \o s)
  BY <1>1, Joined
<1> QED
  BY <1>1, <1>2, Zenon

-----------------------------------------------------------------------------
(***************************************************************************)
(* TransferInv in parts: what always holds, and what holds of each of the  *)
(* two files as long as nothing of it was lost.                            *)
(***************************************************************************)
Typed ==
  /\ text \in Texts /\ file \in Seq(Byte) /\ copy \in Seq(Byte) /\ wire \in Seq(Byte)
  /\ missing \subseteq {"hole", "tail", "copy"}
  /\ pc \in {"idle", "receive", "send"} /\ type \in {"A", "I"} /\ held \in BOOLEAN
  /\ restart \in {None} \cup Nat /\ pos \in Nat
  /\ reply \in Replies
  /\ OnDisk /\ Unanswered

Arrives ==
  HeldBack(held) \o wire = Encoded(From(text, Len(file))) /\ (held => type = "A")

SentPart ==
  /\ "hole" \notin missing
  /\ wire = Encoded(SubSeq(text, Len(copy) + 1, pos))
  /\ Len(copy) <= pos /\ (pos <= Len(file) \/ pos = Len(copy))

FileGood == IsPrefix(file, text) /\ (pc = "receive" => Arrives)
CopyGood == IsPrefix(copy, text) /\ (pc = "send" => SentPart)

LEMMA Types ==
  ASSUME Typed
  PROVE  /\ text \in Seq(Byte) /\ file \in Seq(Byte) /\ copy \in Seq(Byte) /\ wire \in Seq(Byte)
         /\ Len(text) \in Nat /\ Len(file) \in Nat /\ Len(copy) \in Nat /\ Len(wire) \in Nat
         /\ type \in {"A", "I"} /\ held \in BOOLEAN /\ pos \in Nat
<1>1. text \in Seq(Byte) /\ file \in Seq(Byte) /\ copy \in Seq(Byte) /\ wire \in Seq(Byte)
  BY TransferAssumption DEF Typed
<1> QED
  BY <1>1 DEF Typed

LEMMA Parts ==
  TransferInv <=> /\ Typed
                  /\ "hole" \notin missing => FileGood
                  /\ "copy" \notin missing => CopyGood
<1>1. ASSUME TransferInv PROVE Typed
  BY <1>1 DEF TransferInv, TypeOK, Typed
<1>2. ASSUME TransferInv, "hole" \notin missing PROVE FileGood
  BY <1>2 DEF TransferInv, StoredIsPrefix, RestArrives, FileGood, Arrives
<1>3. ASSUME TransferInv, "copy" \notin missing PROVE CopyGood
  BY <1>3 DEF TransferInv, CopyIsPrefix, RestSent, CopyGood, SentPart
<1>4. ASSUME Typed, "hole" \notin missing => FileGood, "copy" \notin missing => CopyGood
      PROVE  TransferInv
  <2>1. "hole" \notin missing => Len(file) <= Len(text)
    <3> SUFFICES ASSUME "hole" \notin missing PROVE Len(file) <= Len(text)
      OBVIOUS
    <3>1. IsPrefix(file, text) /\ file \in Seq(Byte) /\ text \in Seq(Byte)
      BY <1>4, Types DEF FileGood
    <3>2. Len(file) \in 0..Len(text)
      BY <3>1, PrefixLength
    <3> QED
      BY <3>1, <3>2
  <2>2. "copy" \notin missing => Len(copy) <= Len(text)
    <3> SUFFICES ASSUME "copy" \notin missing PROVE Len(copy) <= Len(text)
      OBVIOUS
    <3>1. IsPrefix(copy, text) /\ copy \in Seq(Byte) /\ text \in Seq(Byte)
      BY <1>4, Types DEF CopyGood
    <3>2. Len(copy) \in 0..Len(text)
      BY <3>1, PrefixLength
    <3> QED
      BY <3>1, <3>2
  <2>3. TypeOK
    BY <1>4, <2>1, <2>2 DEF Typed, TypeOK
  <2> QED
    BY <1>4, <2>3 DEF TransferInv, StoredIsPrefix, CopyIsPrefix, RestArrives, RestSent,
                      FileGood, CopyGood, Arrives, SentPart, Typed
<1> QED
  BY <1>1, <1>2, <1>3, <1>4

LEMMA PartsNext ==
  (TransferInv <=> /\ Typed
                   /\ "hole" \notin missing => FileGood
                   /\ "copy" \notin missing => CopyGood)'
  BY Parts, PTL

LEMMA TransferInit ==
  ASSUME Init
  PROVE  TransferInv
<1>1. text \in Seq(Byte)
  BY TransferAssumption DEF Init
<1>2. IsPrefix(<<>>, text) /\ <<>> \in Seq(Byte)
  BY <1>1, EmptyIsPrefix
<1>3. Typed
  BY <1>2 DEF Init, Typed, Replies, OnDisk, Unanswered
<1>4. FileGood /\ CopyGood
  BY <1>2 DEF Init, FileGood, CopyGood
<1> QED
  BY <1>3, <1>4, Parts

-----------------------------------------------------------------------------
(***************************************************************************)
(* Types, of whatever is sent and stored.                                  *)
(***************************************************************************)
LEMMA FromType ==
  ASSUME NEW s \in Seq(Byte), NEW n \in Nat
  PROVE  From(s, n) \in Seq(Byte)
<1>1. Len(s) \in Nat
  OBVIOUS
<1>2. CASE n <= Len(s)
  <2>1. n \in 0..Len(s)
    BY <1>1, <1>2
  <2> QED
    BY <2>1, Split
<1>3. CASE ~(n <= Len(s))
  <2>1. n + 1 \in Int /\ Len(s) \in Int /\ Len(s) < n + 1
    BY <1>1, <1>3
  <2>2. SubSeq(s, n + 1, Len(s)) = <<>>
    BY <2>1, SubSeqEmpty
  <2> QED
    BY <2>2 DEF From
<1> QED
  BY <1>2, <1>3

LEMMA ClosedIs ==
  ASSUME NEW s \in Seq(Byte), pos \in Nat, NEW c \in Closed(s)
  PROVE  \E n \in 0..Len(s) : c = Upto(s, n)
<1>1. Len(s) \in Nat
  OBVIOUS
<1>2. CASE "fclose" \in Faults
  <2>1. PICK n \in pos..Len(s) : c = Upto(s, n)
    BY <1>2 DEF Closed
  <2>2. n \in 0..Len(s)
    BY <1>1
  <2> QED
    BY <2>1, <2>2
<1>3. CASE "fclose" \notin Faults
  <2>1. Len(s) \in 0..Len(s) /\ Upto(s, Len(s)) = s
    BY <1>1, SubSeqFull DEF Upto
  <2>2. c = s
    BY <1>3 DEF Closed
  <2> QED
    BY <2>1, <2>2
<1> QED
  BY <1>2, <1>3

LEMMA DecodedType ==
  ASSUME NEW s \in Seq(Byte)
  PROVE  Decoded(s) \in Seq(Byte) /\ Certain(s) \in Seq(Byte)
<1>1. Decoded(s) \in Seq(Byte)
  BY DecodeType DEF Decoded
<1>2. s # <<>> => Front(s) \in Seq(Byte)
  BY LastAndFront
<1> QED
  BY <1>1, <1>2 DEF Certain

LEMMA BlockType ==
  ASSUME Typed
  PROVE  Block \in Seq(Byte) /\ Encoded(Block) \in Seq(Byte)
<1> DEFINE m == Min({pos + BufSize, Len(file)})
<1>1. file \in Seq(Byte) /\ Len(file) \in Nat /\ pos \in Nat /\ BufSize \in Nat
  BY Types, TransferAssumption
<1>2. pos + BufSize \in Nat
  BY <1>1
<1>3. m \in Nat /\ m <= Len(file)
  BY <1>1, <1>2, MinOfTwo
<1> HIDE DEF m
<1>4. SubSeq(file, pos + 1, m) \in Seq(Byte)
  <2>1. CASE pos <= m
    <3>1. pos \in 0..Len(file) /\ m \in pos..Len(file)
      BY <1>1, <1>3, <2>1
    <3> QED
      BY <1>1, <3>1, Slice
  <2>2. CASE m < pos
    <3>1. pos + 1 \in Int /\ m \in Int /\ m < pos + 1
      BY <1>1, <1>3, <2>2
    <3>2. SubSeq(file, pos + 1, m) = <<>>
      BY <3>1, SubSeqEmpty
    <3>3. <<>> \in Seq(Byte)
      OBVIOUS
    <3> QED
      BY <3>2, <3>3, Zenon
  <2>3. pos <= m \/ m < pos
    BY <1>1, <1>3
  <2> QED
    BY <2>1, <2>2, <2>3, Zenon
<1>5. Block \in Seq(Byte)
  BY <1>4 DEF Block, m
<1> QED
  BY <1>5, EncodedType

LEMMA StoredType ==
  ASSUME NEW block \in Seq(Byte), block # <<>>, held \in BOOLEAN
  PROVE  /\ Stored(block).bytes \in Seq(Byte) /\ Stored(block).held \in BOOLEAN
         /\ type = "A" /\ held /\ Head(block) # LF => Stored(block).bytes # <<>>
<1> DEFINE before == IF held /\ Head(block) # LF THEN <<CR>> ELSE <<>>
           whole == Last(block) # CR
           more == CRLF2LF(IF whole THEN block ELSE Front(block))
<1>1. before \in Seq(Byte)
  BY TransferAssumption
<1>2. more \in Seq(Byte)
  <2>1. Front(block) \in Seq(Byte)
    BY LastAndFront
  <2> QED
    BY <2>1, DecodeType
<1>3. whole \in BOOLEAN
  OBVIOUS
<1>4. /\ Stored(block).bytes = IF type # "A" THEN block ELSE before \o more
      /\ Stored(block).held = IF type # "A" THEN held ELSE ~whole
  BY DEF Stored
<1>5. held /\ Head(block) # LF => before = <<CR>>
  OBVIOUS
<1> HIDE DEF before, whole, more
<1>6. before \o more \in Seq(Byte)
  BY <1>1, <1>2
<1>7. before = <<CR>> => before \o more # <<>>
  <2>1. CR \in Byte
    BY TransferAssumption
  <2>2. <<CR>> \o more # <<>>
    BY <1>2, <2>1
  <2> QED
    BY <2>2, Zenon
<1> QED
  BY <1>3, <1>4, <1>5, <1>6, <1>7

LEMMA ReadType ==
  ASSUME Typed, NEW k \in 1..BufSize, k <= Len(wire)
  PROVE  /\ k \in 1..Len(wire)
         /\ From(wire, k) \in Seq(Byte)
         /\ Stored(Upto(wire, k)).bytes \in Seq(Byte) /\ Stored(Upto(wire, k)).held \in BOOLEAN
         /\ type = "A" /\ held /\ Head(wire) # LF
              => /\ Tail(Stored(Upto(wire, k)).bytes) \in Seq(Byte)
<1> DEFINE block == Upto(wire, k)
<1>1. wire \in Seq(Byte) /\ Len(wire) \in Nat /\ held \in BOOLEAN
  BY Types
<1>2. k \in 1..Len(wire) /\ k \in 0..Len(wire) /\ k # 0
  BY <1>1, TransferAssumption
<1>3. /\ block \in Seq(Byte) /\ Len(block) = k /\ From(wire, k) \in Seq(Byte)
  BY <1>1, <1>2, Split
<1>4. block # <<>>
  BY <1>2, <1>3, EmptySeq
<1>5. Head(block) = Head(wire)
  <2>1. block[1] = wire[1]
    BY <1>1, <1>2, SubSeqProperties DEF Upto
  <2>2. wire # <<>>
    BY <1>2, EmptySeq
  <2> HIDE DEF block
  <2> QED
    BY <1>1, <1>3, <1>4, <2>1, <2>2
<1> HIDE DEF block
<1>6. /\ Stored(block).bytes \in Seq(Byte) /\ Stored(block).held \in BOOLEAN
      /\ type = "A" /\ held /\ Head(block) # LF => Stored(block).bytes # <<>>
  BY <1>1, <1>3, <1>4, StoredType
<1>7. \A s \in Seq(Byte) : s # <<>> => Tail(s) \in Seq(Byte)
  OBVIOUS
<1>8. type = "A" /\ held /\ Head(wire) # LF => Tail(Stored(block).bytes) \in Seq(Byte)
  BY <1>5, <1>6, <1>7
<1> QED
  BY <1>2, <1>3, <1>6, <1>8 DEF block

-----------------------------------------------------------------------------
(***************************************************************************)
(* Every step keeps the types, whatever it loses.                          *)
(***************************************************************************)
LEMMA OverTyped ==
  ASSUME Typed, NEW codes \in Replies, Over(codes), text' = text,
         file' \in Seq(Byte), copy' \in Seq(Byte), type' \in {"A", "I"},
         restart' \in {None, restart}, missing' \subseteq {"hole", "tail", "copy"}
  PROVE  Typed'
<1>1. wire' \in Seq(Byte) /\ pc' = "idle" /\ held' = FALSE /\ pos' = 0 /\ reply' = codes
  BY DEF Over
<1>2. text' \in Texts /\ restart' \in {None} \cup Nat
  BY DEF Typed
<1>3. OnDisk' /\ Unanswered'
  BY <1>1 DEF OnDisk, Unanswered
<1> QED
  BY <1>1, <1>2, <1>3 DEF Typed

LEMMA SettingsTyped ==
  ASSUME Typed, (\E t \in {"A", "I"} : Ftype(t)) \/ (\E n \in {Len(file), Len(copy)} : Frest(n))
  PROVE  Typed'
<1>1. Len(file) \in Nat /\ Len(copy) \in Nat
  BY Types
<1>2. ASSUME NEW t \in {"A", "I"}, Ftype(t) PROVE Typed'
  BY <1>2 DEF Ftype, Idle, Typed, OnDisk, Unanswered
<1>3. ASSUME NEW n \in {Len(file), Len(copy)}, Frest(n) PROVE Typed'
  BY <1>1, <1>3 DEF Frest, Idle, Typed, Replies, OnDisk, Unanswered
<1> QED
  BY <1>2, <1>3

\* An upload begins behind n bytes of the file, or not at all.
LEMMA UploadTyped ==
  ASSUME Typed, NEW n \in 0..Len(file), file' = Upto(file, n),
         text' = text, copy' = copy, type' = type, restart' = None,
         missing' \subseteq missing,
         \/ /\ pc' = "receive" /\ wire' = Encoded(From(text, n)) /\ pos' = n
            /\ held' = FALSE /\ reply' = << 150 >>
         \/ Over(<< 425 >>)
  PROVE  Typed'
<1>1. text \in Seq(Byte) /\ file \in Seq(Byte) /\ Len(file) \in Nat /\ n \in Nat
  BY Types
<1>2. file' \in Seq(Byte) /\ Len(file') = n
  BY <1>1, Split
<1>3. missing' \subseteq {"hole", "tail", "copy"}
  BY DEF Typed
<1>4. CASE Over(<< 425 >>)
  <2>1. /\ << 425 >> \in Replies /\ copy' \in Seq(Byte) /\ type' \in {"A", "I"}
        /\ restart' \in {None, restart}
    BY Types DEF Replies
  <2> QED
    BY <1>2, <1>3, <1>4, <2>1, OverTyped
<1>5. CASE ~Over(<< 425 >>)
  <2>1. pc' = "receive" /\ wire' = Encoded(From(text, n)) /\ pos' = n /\ held' = FALSE
        /\ reply' = << 150 >>
    BY <1>5
  <2>2. wire' \in Seq(Byte)
    BY <1>1, <2>1, FromType, EncodedType
  <2>3. OnDisk' /\ Unanswered'
    BY <1>1, <1>2, <2>1 DEF OnDisk, Unanswered
  <2> QED
    BY <1>1, <1>2, <1>3, <2>1, <2>2, <2>3 DEF Typed, Replies
<1> QED
  BY <1>4, <1>5

\* Where an upload begins.
LEMMA UploadFrom ==
  ASSUME Typed, Fstor \/ Fappe
  PROVE  \E n \in 0..Len(file) :
           /\ file' = Upto(file, n) /\ (n # 0 /\ "hole" \in missing => "hole" \in missing')
           /\ text' = text /\ copy' = copy /\ type' = type /\ restart' = None
           /\ missing' \subseteq missing /\ ("copy" \in missing => "copy" \in missing')
           /\ \/ /\ pc' = "receive" /\ wire' = Encoded(From(text, n)) /\ pos' = n
                 /\ held' = FALSE /\ reply' = << 150 >>
              \/ Over(<< 425 >>)
<1>1. Len(file) \in Nat /\ file \in Seq(Byte) /\ restart \in {None} \cup Nat
  BY Types DEF Typed
<1>2. CASE Fstor
  <2> DEFINE n == IF restart = None THEN 0 ELSE restart
  <2>1. n \in 0..Len(file)
    BY <1>1, <1>2 DEF Fstor
  <2>2. /\ file' = Upto(file, n) /\ text' = text /\ copy' = copy /\ type' = type /\ restart' = None
        /\ missing' = missing \ (IF n = 0 THEN {"hole", "tail"} ELSE {"tail"})
    BY <1>2 DEF Fstor
  <2>3. \/ /\ pc' = "receive" /\ wire' = Encoded(From(text, n)) /\ pos' = n
           /\ held' = FALSE /\ reply' = << 150 >>
        \/ Over(<< 425 >>)
    BY <1>2 DEF Fstor
  <2> HIDE DEF n
  <2>4. /\ missing' \subseteq missing /\ ("copy" \in missing => "copy" \in missing')
        /\ n # 0 /\ "hole" \in missing => "hole" \in missing'
    BY <2>2
  <2> QED
    BY <2>1, <2>2, <2>3, <2>4
<1>3. CASE Fappe
  <2>1. Len(file) \in 0..Len(file) /\ Upto(file, Len(file)) = file
    BY <1>1, SubSeqFull DEF Upto
  <2>2. /\ file' = file /\ text' = text /\ copy' = copy /\ type' = type
        /\ restart' = None /\ missing' = missing \ {"tail"}
        /\ \/ /\ pc' = "receive" /\ wire' = Encoded(From(text, Len(file))) /\ pos' = Len(file)
              /\ held' = FALSE /\ reply' = << 150 >>
           \/ Over(<< 425 >>)
    BY <1>3 DEF Fappe
  <2> QED
    BY <2>1, <2>2
<1> QED
  BY <1>2, <1>3

LEMMA UploadsTyped ==
  ASSUME Typed, Fstor \/ Fappe
  PROVE  Typed'
<1>1. PICK n \in 0..Len(file) :
        /\ file' = Upto(file, n)
        /\ text' = text /\ copy' = copy /\ type' = type /\ restart' = None
        /\ missing' \subseteq missing
        /\ \/ /\ pc' = "receive" /\ wire' = Encoded(From(text, n)) /\ pos' = n
              /\ held' = FALSE /\ reply' = << 150 >>
           \/ Over(<< 425 >>)
  BY UploadFrom
<1> QED
  BY <1>1, UploadTyped

\* The bytes b are written, and y is still to be read.
LEMMA WrittenTyped ==
  ASSUME Typed, pc = "receive", NEW b \in Seq(Byte), NEW h \in BOOLEAN, NEW y \in Seq(Byte),
         file' = file \o b, held' = h, wire' = y, missing' \subseteq {"hole", "tail", "copy"},
         UNCHANGED <<text, copy, pc, type, restart, pos, reply>>
  PROVE  Typed'
<1>1. file \in Seq(Byte) /\ Len(file) \in Nat /\ pos \in Nat
  BY Types
<1>2. file' \in Seq(Byte) /\ Len(file') = Len(file) + Len(b) /\ Len(b) \in Nat
  BY <1>1, Joined
<1>3. pos <= Len(file)
  BY DEF Typed, OnDisk
<1>4. pos <= Len(file')
  <2> HIDE <1>3
  <2> SUFFICES Len(file) <= Len(file')
    BY <1>1, <1>2, <1>3
  <2> QED
    BY <1>1, <1>2
<1>5. OnDisk' /\ Unanswered'
  BY <1>4 DEF OnDisk, Typed, Unanswered
<1> QED
  BY <1>2, <1>5 DEF Typed

\* Of the bytes b the first n are written, and of all that a part reaches the disk.
LEMMA PartTyped ==
  ASSUME Typed, NEW b \in Seq(Byte), NEW n \in 0..Len(b), file' \in Closed(file \o Upto(b, n)),
         Over(<< 451 >>), missing' \subseteq {"hole", "tail", "copy"},
         UNCHANGED <<text, copy, type, restart>>
  PROVE  Typed'
<1> DEFINE s == file \o Upto(b, n)
<1>1. s \in Seq(Byte)
  <2>1. file \in Seq(Byte) /\ Upto(b, n) \in Seq(Byte)
    BY Types, Split
  <2> QED
    BY <2>1, ConcatProperties
<1>2. file' \in Closed(s)
  OBVIOUS
<1> HIDE DEF s
<1>3. \E m \in 0..Len(s) : file' = Upto(s, m)
  BY <1>1, <1>2, ClosedIs, Types
<1>4. file' \in Seq(Byte)
  BY <1>1, <1>3, Split
<1>5. /\ << 451 >> \in Replies /\ text' = text /\ copy' \in Seq(Byte) /\ type' \in {"A", "I"}
      /\ restart' \in {None, restart}
  BY Types DEF Replies
<1> QED
  BY <1>4, <1>5, OverTyped

LEMMA ReceivingTyped ==
  ASSUME Typed, NEW k \in 1..BufSize, Receive(k) \/ WriteFails(k) \/ HeldLost(k)
  PROVE  Typed'
<1> DEFINE b == Stored(Upto(wire, k)).bytes
           h == Stored(Upto(wire, k)).held
           y == From(wire, k)
<1>1. pc = "receive" /\ k <= Len(wire) /\ UNCHANGED <<text, copy, type, restart>>
  BY DEF Receive, WriteFails, HeldLost
<1>2. b \in Seq(Byte) /\ h \in BOOLEAN /\ y \in Seq(Byte)
  BY <1>1, ReadType
<1>3. type = "A" /\ held /\ Head(wire) # LF => Tail(b) \in Seq(Byte)
  BY <1>1, ReadType
<1>4. missing' \subseteq {"hole", "tail", "copy"}
  BY DEF Typed, Receive, WriteFails, HeldLost
<1>5. CASE Receive(k)
  <2>1. file' = file \o b /\ held' = h /\ wire' = y /\ UNCHANGED <<pc, pos, reply>>
    BY <1>5 DEF Receive
  <2> HIDE DEF b, h, y
  <2> QED
    BY <1>1, <1>2, <1>4, <2>1, WrittenTyped
<1>6. CASE WriteFails(k)
  <2>1. Over(<< 451 >>) /\ \E n \in 0..Len(b) : file' \in Closed(file \o Upto(b, n))
    BY <1>6 DEF WriteFails
  <2> HIDE DEF b, h, y
  <2> QED
    BY <1>1, <1>2, <1>4, <2>1, PartTyped
<1>7. CASE HeldLost(k)
  <2> DEFINE c == Tail(b)
  <2>1. c \in Seq(Byte)
    BY <1>3, <1>7 DEF HeldLost
  <2>2. \/ file' = file \o c /\ held' = h /\ wire' = y /\ UNCHANGED <<pc, pos, reply>>
        \/ Over(<< 451 >>) /\ \E n \in 0..Len(c) : file' \in Closed(file \o Upto(c, n))
    BY <1>7 DEF HeldLost
  <2> HIDE DEF b, h, y, c
  <2>3. CASE file' = file \o c /\ held' = h /\ wire' = y /\ UNCHANGED <<pc, pos, reply>>
    BY <1>1, <1>2, <1>4, <2>1, <2>3, WrittenTyped
  <2>4. CASE Over(<< 451 >>) /\ \E n \in 0..Len(c) : file' \in Closed(file \o Upto(c, n))
    BY <1>1, <1>4, <2>1, <2>4, PartTyped
  <2> QED
    BY <2>2, <2>3, <2>4
<1> QED
  BY <1>5, <1>6, <1>7

\* How an upload ends that is not broken off by an error of the disk.
LEMMA EndedFile ==
  ASSUME Typed, Received \/ ReceiveAborted \/ Killed
  PROVE  /\ \E n \in 0..Len(file) : file' = Upto(file, n)
         /\ \E codes \in Replies : Over(codes)
         /\ pc = "receive" /\ text' = text /\ copy' = copy /\ restart' = restart
         /\ type' \in {"A", "I"}
         /\ missing \subseteq missing' /\ missing' \subseteq missing \cup {"tail"}
<1>1. file \in Seq(Byte) /\ Len(file) \in Nat /\ pos \in Nat /\ type \in {"A", "I"}
  BY Types
<1>2. \A n : n \in pos..Len(file) => n \in 0..Len(file)
  BY <1>1
<1>3. CASE Received
  <2>1. \E n \in 0..Len(file) : file' = Upto(file, n)
    BY <1>1, <1>3, ClosedIs DEF Received
  <2>2. Over(<< 226 >>) /\ << 226 >> \in Replies
    BY <1>3 DEF Received, Replies
  <2> QED
    BY <1>1, <1>3, <2>1, <2>2 DEF Received
<1>4. CASE ReceiveAborted
  <2>1. \E n \in 0..Len(file) : file' = Upto(file, n)
    BY <1>1, <1>4, ClosedIs DEF ReceiveAborted
  <2>2. \E codes \in Replies : Over(codes)
    BY <1>4 DEF ReceiveAborted, Replies
  <2> QED
    BY <1>1, <1>4, <2>1, <2>2 DEF ReceiveAborted
<1>5. CASE Killed
  <2>1. \E n \in 0..Len(file) : file' = Upto(file, n)
    BY <1>2, <1>5 DEF Killed
  <2>2. Over(<<>>) /\ <<>> \in Replies
    BY <1>5 DEF Killed, Replies
  <2> QED
    BY <1>1, <1>5, <2>1, <2>2 DEF Killed
<1> QED
  BY <1>3, <1>4, <1>5

LEMMA EndsTyped ==
  ASSUME Typed, Received \/ ReceiveAborted \/ Killed
  PROVE  Typed'
<1>1. PICK n \in 0..Len(file) : file' = Upto(file, n)
  BY EndedFile
<1>2. file' \in Seq(Byte)
  BY <1>1, Types, Split
<1>3. /\ \E codes \in Replies : Over(codes)
      /\ text' = text /\ copy' \in Seq(Byte) /\ type' \in {"A", "I"}
      /\ restart' \in {None, restart}
      /\ missing' \subseteq {"hole", "tail", "copy"}
  BY EndedFile DEF Typed
<1> QED
  BY <1>2, <1>3, OverTyped

LEMMA FretrTyped ==
  ASSUME Typed, Fretr
  PROVE  Typed'
<1>1. /\ text' = text /\ file' = file /\ type' = type /\ restart' = None
      /\ restart \in {None} \cup Nat /\ file \in Seq(Byte) /\ copy \in Seq(Byte)
      /\ type \in {"A", "I"} /\ <<>> \in Seq(Byte) /\ Len(file) \in Nat
  BY Types DEF Fretr, Typed
<1>2. missing' \subseteq {"hole", "tail", "copy"}
  <2>1. missing \subseteq {"hole", "tail", "copy"}
    BY DEF Typed
  <2>2. missing' \subseteq missing \cup {"copy"}
    BY DEF Fretr
  <2> QED
    BY <2>1, <2>2
<1>3. CASE Over(<< 425 >>)
  <2>1. copy' \in Seq(Byte) /\ << 425 >> \in Replies
    BY <1>1 DEF Fretr, Replies
  <2> QED
    BY <1>1, <1>2, <1>3, <2>1, OverTyped
<1>4. CASE ~Over(<< 425 >>)
  <2>1. /\ pc' = "send" /\ wire' = <<>> /\ held' = FALSE /\ reply' = << 150 >>
        /\ copy' = (IF restart = None THEN <<>> ELSE copy)
        /\ pos' = (IF restart = None THEN 0 ELSE restart)
    BY <1>4 DEF Fretr
  <2>2. copy' \in Seq(Byte) /\ pos' \in Nat /\ wire' \in Seq(Byte)
    BY <1>1, <2>1
  <2>3. OnDisk' /\ Unanswered'
    BY <2>1 DEF OnDisk, Unanswered
  <2> QED
    BY <1>1, <1>2, <2>1, <2>2, <2>3 DEF Typed, Replies
<1> QED
  BY <1>3, <1>4

\* More of the file goes onto the data connection.
LEMMA SentTyped ==
  ASSUME Typed, pc = "send", NEW s \in Seq(Byte), wire' = wire \o s, pos' = pos + BufSize,
         missing' \subseteq {"hole", "tail", "copy"},
         UNCHANGED <<text, file, copy, pc, type, restart, held, reply>>
  PROVE  Typed'
<1>1. wire' \in Seq(Byte) /\ pos' \in Nat
  BY Types, TransferAssumption
<1>2. OnDisk' /\ Unanswered'
  BY DEF OnDisk, Typed, Unanswered
<1> QED
  BY <1>1, <1>2 DEF Typed

\* The client takes what it got.
LEMMA TakenTyped ==
  ASSUME Typed, NEW s \in Seq(Byte), copy' = copy \o s, NEW codes \in Replies, Over(codes),
         missing' \subseteq {"hole", "tail", "copy"},
         UNCHANGED <<text, file, type, restart>>
  PROVE  Typed'
<1>1. copy' \in Seq(Byte)
  BY Types, ConcatProperties
<1>2. text' = text /\ file' \in Seq(Byte) /\ type' \in {"A", "I"} /\ restart' \in {None, restart}
  BY Types
<1> QED
  BY <1>1, <1>2, OverTyped

LEMMA SendingTyped ==
  ASSUME Typed, Send \/ SendLast \/ SendShort \/ SendAborted
  PROVE  Typed'
<1> DEFINE block == Encoded(Block)
<1>1. block \in Seq(Byte) /\ wire \in Seq(Byte) /\ Len(wire) \in Nat
  BY BlockType, Types
<1>2. missing' \subseteq {"hole", "tail", "copy"}
  BY DEF Typed, Send, SendLast, SendShort, SendAborted
<1>3. UNCHANGED <<text, file, type, restart>> /\ pc = "send"
  BY DEF Send, SendLast, SendShort, SendAborted
<1>4. << 226 >> \in Replies /\ << 426 >> \in Replies /\ <<426, 226>> \in Replies /\ << 451 >> \in Replies
  BY DEF Replies
<1>5. CASE Send
  <2>1. wire' = wire \o block /\ pos' = pos + BufSize /\ UNCHANGED <<copy, pc, held, reply>>
    BY <1>5 DEF Send
  <2> HIDE DEF block
  <2> QED
    BY <1>1, <1>2, <1>3, <2>1, SentTyped
<1>6. CASE SendLast
  <2> DEFINE s == Decoded(wire \o block)
  <2>1. s \in Seq(Byte)
    <3> HIDE DEF block
    <3>1. wire \o block \in Seq(Byte)
      BY <1>1, ConcatProperties
    <3> QED
      BY <3>1, DecodedType
  <2>2. copy' = copy \o s /\ Over(<< 226 >>)
    BY <1>6 DEF SendLast
  <2> HIDE DEF s
  <2> QED
    BY <1>2, <1>3, <1>4, <2>1, <2>2, TakenTyped
<1>7. CASE SendShort
  <2>1. PICK n \in 1..(Len(block) - 1) :
          \/ /\ wire' = wire \o Upto(block, n) /\ pos' = pos + BufSize
             /\ UNCHANGED <<copy, pc, held, reply>>
          \/ /\ copy' = copy \o Decoded(wire \o Upto(block, n))
             /\ Over(<< 226 >>)
    BY <1>7 DEF SendShort
  <2> DEFINE s == Upto(block, n)
             d == Decoded(wire \o s)
  <2>2. s \in Seq(Byte)
    <3> HIDE DEF block
    <3>1. n \in 0..Len(block)
      BY <1>1
    <3> QED
      BY <1>1, <3>1, Split
  <2>3. d \in Seq(Byte)
    <3> HIDE DEF s
    <3>1. wire \o s \in Seq(Byte)
      BY <1>1, <2>2, ConcatProperties
    <3> QED
      BY <3>1, DecodedType
  <2>4. \/ /\ wire' = wire \o s /\ pos' = pos + BufSize
           /\ UNCHANGED <<copy, pc, held, reply>>
        \/ copy' = copy \o d /\ Over(<< 226 >>)
    BY <2>1
  <2> HIDE DEF s, d
  <2>5. CASE wire' = wire \o s /\ pos' = pos + BufSize /\ UNCHANGED <<copy, pc, held, reply>>
    BY <1>2, <1>3, <2>2, <2>5, SentTyped
  <2>6. CASE copy' = copy \o d /\ Over(<< 226 >>)
    BY <1>2, <1>3, <1>4, <2>3, <2>6, TakenTyped
  <2> QED
    BY <2>4, <2>5, <2>6
<1>8. CASE SendAborted
  <2> DEFINE sent == wire \o block
  <2>1. PICK n \in 0..Len(sent) :
          /\ copy' = copy \o Decoded(Certain(Upto(sent, n)))
          /\ Over(<<426, 226>>) \/ Over(<< 451 >>) \/ Over(<< 426 >>)
    BY <1>8 DEF SendAborted
  <2>2. sent \in Seq(Byte)
    <3> HIDE DEF block
    <3> QED
      BY <1>1, ConcatProperties
  <2> HIDE DEF sent
  <2> DEFINE s == Decoded(Certain(Upto(sent, n)))
  <2>3. s \in Seq(Byte)
    <3>1. Upto(sent, n) \in Seq(Byte)
      BY <2>2, Split
    <3>2. Certain(Upto(sent, n)) \in Seq(Byte)
      BY <3>1, DecodedType
    <3> QED
      BY <3>2, DecodedType
  <2>4. copy' = copy \o s /\ \E codes \in Replies : Over(codes)
    BY <1>4, <2>1
  <2> HIDE DEF s
  <2> QED
    BY <1>2, <1>3, <2>3, <2>4, TakenTyped
<1> QED
  BY <1>5, <1>6, <1>7, <1>8

LEMMA NextTyped ==
  ASSUME Typed, Next
  PROVE  Typed'
<1>1. CASE (\E t \in {"A", "I"} : Ftype(t)) \/ (\E n \in {Len(file), Len(copy)} : Frest(n))
  BY <1>1, SettingsTyped
<1>2. CASE Fstor \/ Fappe
  BY <1>2, UploadsTyped
<1>3. CASE Received \/ ReceiveAborted \/ Killed
  BY <1>3, EndsTyped
<1>4. ASSUME NEW k \in 1..BufSize, Receive(k) \/ WriteFails(k) \/ HeldLost(k)
      PROVE  Typed'
  BY <1>4, ReceivingTyped
<1>5. CASE Fretr
  BY <1>5, FretrTyped
<1>6. CASE Send \/ SendLast \/ SendShort \/ SendAborted
  BY <1>6, SendingTyped
<1> QED
  BY <1>1, <1>2, <1>3, <1>4, <1>5, <1>6 DEF Next

-----------------------------------------------------------------------------
(***************************************************************************)
(* The server's file stays a beginning of the text, and the connection     *)
(* brings the rest, unless a CR is lost.                                   *)
(***************************************************************************)
LEMMA FileLeft ==
  ASSUME FileGood, file' = file, text' = text, pc' # "receive"
  PROVE  FileGood'
BY DEF FileGood

LEMMA FileCut ==
  ASSUME Typed, FileGood, NEW n \in 0..Len(file), file' = Upto(file, n), text' = text,
         pc' # "receive"
  PROVE  FileGood'
<1>1. file \in Seq(Byte) /\ text \in Seq(Byte) /\ IsPrefix(file, text)
  BY Types DEF FileGood
<1>2. IsPrefix(Upto(file, n), text)
  BY <1>1, Shrinks
<1> QED
  BY <1>2 DEF FileGood

LEMMA UploadsKeepFile ==
  ASSUME Typed, "hole" \notin missing => FileGood, Fstor \/ Fappe, "hole" \notin missing'
  PROVE  FileGood'
<1>1. PICK n \in 0..Len(file) :
        /\ file' = Upto(file, n) /\ (n # 0 /\ "hole" \in missing => "hole" \in missing')
        /\ text' = text /\ type' = type
        /\ \/ /\ pc' = "receive" /\ wire' = Encoded(From(text, n)) /\ pos' = n
              /\ held' = FALSE /\ reply' = << 150 >>
           \/ Over(<< 425 >>)
  BY UploadFrom
<1>2. text \in Seq(Byte) /\ file \in Seq(Byte) /\ Len(file) \in Nat /\ n \in Nat
  BY Types
<1>3. file' \in Seq(Byte) /\ Len(file') = n /\ IsPrefix(file', text)
  <2>1. CASE n = 0
    <3>1. Upto(file, n) \in Seq(Byte) /\ Len(Upto(file, n)) = 0
      BY <1>2, <2>1, Split
    <3>2. Upto(file, n) = <<>>
      BY <3>1, EmptySeq
    <3>3. IsPrefix(<<>>, text) /\ <<>> \in Seq(Byte)
      BY <1>2, EmptyIsPrefix
    <3> QED
      BY <1>1, <2>1, <3>1, <3>2, <3>3, Zenon
  <2>2. CASE n # 0
    <3>1. IsPrefix(file, text)
      BY <1>1, <2>2 DEF FileGood
    <3> QED
      BY <1>1, <1>2, <3>1, Shrinks
  <2> QED
    BY <2>1, <2>2
<1>4. ASSUME pc' = "receive" PROVE Arrives'
  <2>1. wire' = Encoded(From(text, n)) /\ held' = FALSE
    BY <1>1, <1>4 DEF Over
  <2>2. wire' \in Seq(Byte)
    BY <1>2, <2>1, FromType, EncodedType
  <2>3. HeldBack(held') \o wire' = wire'
    BY <2>1, <2>2 DEF HeldBack
  <2>4. wire' = Encoded(From(text, Len(file)))'
    BY <1>1, <1>3, <2>1 DEF Encoded
  <2> QED
    BY <2>1, <2>3, <2>4 DEF Arrives
<1> QED
  BY <1>1, <1>3, <1>4 DEF FileGood

\* The next k bytes, of which s is stored, stand for the next part of the text.
LEMMA NextBlock ==
  ASSUME Typed, FileGood, pc = "receive", NEW k \in 1..Len(wire)
  PROVE  LET stored == Stored(Upto(wire, k)) IN
         /\ stored.bytes \in Seq(Byte) /\ stored.held \in BOOLEAN /\ (stored.held => type = "A")
         /\ Fits(From(text, Len(file)), stored, From(wire, k))
<1>1. /\ text \in Seq(Byte) /\ file \in Seq(Byte) /\ IsPrefix(file, text)
      /\ wire \in Seq(Byte) /\ type \in {"A", "I"} /\ held \in BOOLEAN
  BY Types DEF FileGood
<1>2. From(text, Len(file)) \in Seq(Byte)
  BY <1>1, PrefixLength
<1>3. (held => type = "A") /\ HeldBack(held) \o wire = Encoded(From(text, Len(file)))
  BY DEF FileGood, Arrives
<1> DEFINE rest == From(text, Len(file))
<1>4. rest \in Seq(Byte) /\ HeldBack(held) \o wire = Encoded(rest)
  BY <1>2, <1>3
<1> HIDE DEF rest
<1>5. LET stored == Stored(Upto(wire, k)) IN
         /\ stored.bytes \in Seq(Byte) /\ stored.held \in BOOLEAN /\ (stored.held => type = "A")
         /\ Fits(rest, stored, From(wire, k))
  BY <1>1, <1>3, <1>4, StoredFits
<1> QED
  BY <1>5 DEF rest

LEMMA ReceiveKeepsFile ==
  ASSUME Typed, FileGood, NEW k \in 1..BufSize, Receive(k)
  PROVE  FileGood'
<1> DEFINE stored == Stored(Upto(wire, k))
           b == stored.bytes
           h == stored.held
           y == From(wire, k)
<1>1. /\ text \in Seq(Byte) /\ file \in Seq(Byte) /\ IsPrefix(file, text)
      /\ Len(wire) \in Nat
  BY Types DEF FileGood
<1>2. pc = "receive" /\ k \in 1..Len(wire)
  BY <1>1, TransferAssumption DEF Receive
<1>3. /\ file' = file \o b /\ held' = h /\ wire' = y
      /\ text' = text /\ type' = type
  BY DEF Receive
<1>4. b \in Seq(Byte) /\ (h => type = "A")
  BY <1>2, NextBlock
<1>5. Fits(From(text, Len(file)), stored, y)
  BY <1>2, NextBlock
<1> HIDE DEF b, h, y, stored
<1>6. PICK v \in Seq(Byte) : From(text, Len(file)) = b \o v /\ HeldBack(h) \o y = Encoded(v)
  BY <1>5 DEF Fits, b, h
<1>7. IsPrefix(file \o b, text) /\ From(text, Len(file \o b)) = v
  <2>1. Follow(file, text, b, v)
    BY <1>6 DEF Follow
  <2> QED
    BY <1>1, <1>4, <2>1, Grows
<1> DEFINE g == file \o b
<1>8. file' = g /\ IsPrefix(g, text) /\ From(text, Len(g)) = v
  BY <1>3, <1>7, Zenon
<1> HIDE DEF g
<1>9. Arrives'
  <2>1. Encoded(From(text, Len(file)))' = Encoded(v)
    BY <1>3, <1>8 DEF Encoded
  <2>2. HeldBack(held') \o wire' = Encoded(v)
    BY <1>3, <1>6
  <2>3. held' => type' = "A"
    BY <1>3, <1>4
  <2> QED
    BY <2>1, <2>2, <2>3 DEF Arrives
<1> QED
  BY <1>3, <1>8, <1>9 DEF FileGood

LEMMA WriteFailsKeepsFile ==
  ASSUME Typed, FileGood, NEW k \in 1..BufSize, WriteFails(k)
  PROVE  FileGood'
<1> DEFINE b == Stored(Upto(wire, k)).bytes
<1>1. /\ text \in Seq(Byte) /\ file \in Seq(Byte) /\ IsPrefix(file, text)
      /\ Len(wire) \in Nat /\ pos \in Nat
  BY Types DEF FileGood
<1>2. pc = "receive" /\ k \in 1..Len(wire)
  BY <1>1, TransferAssumption DEF WriteFails
<1>3. b \in Seq(Byte) /\ \E v \in Seq(Byte) : From(text, Len(file)) = b \o v
  <2>1. b \in Seq(Byte) /\ Fits(From(text, Len(file)), Stored(Upto(wire, k)), From(wire, k))
    BY <1>2, NextBlock
  <2> QED
    BY <2>1 DEF Fits
<1>4. PICK n \in 0..Len(b) : file' \in Closed(file \o Upto(b, n))
  BY DEF WriteFails
<1> HIDE DEF b
<1> DEFINE s == file \o Upto(b, n)
<1>5. s \in Seq(Byte) /\ IsPrefix(s, text)
  BY <1>1, <1>3, GrowsPartly
<1>6. file' \in Closed(s)
  BY <1>4
<1> HIDE DEF s
<1>7. \E m \in 0..Len(s) : file' = Upto(s, m)
  BY <1>1, <1>5, <1>6, ClosedIs
<1>8. IsPrefix(file', text)
  BY <1>1, <1>5, <1>7, Shrinks
<1>9. text' = text /\ pc' = "idle"
  BY DEF WriteFails, Over
<1> QED
  BY <1>8, <1>9 DEF FileGood

LEMMA NextKeepsFile ==
  ASSUME Typed, "hole" \notin missing => FileGood, Next, "hole" \notin missing'
  PROVE  FileGood'
<1>1. CASE Fstor \/ Fappe
  BY <1>1, UploadsKeepFile
<1>2. CASE Received \/ ReceiveAborted \/ Killed
  <2>1. "hole" \notin missing /\ text' = text /\ pc' = "idle"
    BY <1>2, EndedFile DEF Over
  <2>2. \E n \in 0..Len(file) : file' = Upto(file, n)
    BY <1>2, EndedFile
  <2> QED
    BY <2>1, <2>2, FileCut
<1>3. ASSUME NEW k \in 1..BufSize, Receive(k)
      PROVE  FileGood'
  <2>1. "hole" \notin missing
    BY <1>3 DEF Receive
  <2> QED
    BY <1>3, <2>1, ReceiveKeepsFile
<1>4. ASSUME NEW k \in 1..BufSize, WriteFails(k)
      PROVE  FileGood'
  <2>1. "hole" \notin missing
    BY <1>4 DEF WriteFails
  <2> QED
    BY <1>4, <2>1, WriteFailsKeepsFile
<1>5. ASSUME NEW k \in 1..BufSize, HeldLost(k)
      PROVE  FALSE
  BY <1>5 DEF HeldLost
<1>6. CASE (\E t \in {"A", "I"} : Ftype(t)) \/ (\E n \in {Len(file), Len(copy)} : Frest(n))
  <2>1. /\ "hole" \notin missing /\ file' = file /\ text' = text /\ pc' # "receive"
    BY <1>6 DEF Ftype, Frest, Idle
  <2> QED
    BY <2>1, FileLeft
<1>7. CASE Fretr
  <2>1. /\ "hole" \notin missing /\ file' = file /\ text' = text /\ pc' # "receive"
    BY <1>7 DEF Fretr, Over
  <2> QED
    BY <2>1, FileLeft
<1>8. CASE Send \/ SendLast \/ SendShort \/ SendAborted
  <2>1. /\ "hole" \notin missing /\ file' = file /\ text' = text
    BY <1>8 DEF Send, SendLast, SendShort, SendAborted
  <2>2. pc' # "receive"
    BY <1>8 DEF Send, SendLast, SendShort, SendAborted, Over
  <2> QED
    BY <2>1, <2>2, FileLeft
<1> QED
  BY <1>1, <1>2, <1>3, <1>4, <1>5, <1>6, <1>7, <1>8 DEF Next

-----------------------------------------------------------------------------
(***************************************************************************)
(* The client's copy stays a beginning of the text, and the connection     *)
(* brings what follows it, unless a write() ends early.                    *)
(***************************************************************************)
\* The block that RETR reads is the next part of the text, too.
LEMMA BlockIsPart ==
  ASSUME Typed, FileGood
  PROVE  /\ ~Feof => /\ pos + BufSize \in pos..Len(file)
                     /\ Block = SubSeq(text, pos + 1, pos + BufSize)
         /\ Feof /\ pos <= Len(file) => Block = SubSeq(text, pos + 1, Len(file))
         /\ pos > Len(file) => Block = <<>> /\ Feof
<1> DEFINE e == pos + BufSize
           n == Len(file)
<1>1. /\ text \in Seq(Byte) /\ file \in Seq(Byte) /\ IsPrefix(file, text)
      /\ n \in Nat /\ pos \in Nat
  BY Types DEF FileGood
<1>2. BufSize \in Nat \ {0} /\ e \in Nat /\ e > pos
  BY <1>1, TransferAssumption
<1>3. Min({e, n}) = IF e <= n THEN e ELSE n
  BY <1>1, <1>2, MinOfTwo
<1>4. ASSUME e <= n
      PROVE  Block = SubSeq(text, pos + 1, e) /\ Len(Block) = BufSize
  <2>1. pos \in 0..n /\ e \in pos..n /\ e - pos = BufSize
    BY <1>1, <1>2, <1>4
  <2>2. Block = SubSeq(file, pos + 1, e)
    <3>1. Min({e, n}) = e
      BY <1>3, <1>4
    <3> QED
      BY <3>1 DEF Block
  <2> HIDE DEF e
  <2>3. SubSeq(file, pos + 1, e) = SubSeq(text, pos + 1, e) /\ Len(SubSeq(file, pos + 1, e)) = e - pos
    BY <1>1, <2>1, SliceOfPrefix, Slice
  <2> QED
    BY <2>1, <2>2, <2>3
<1>5. ASSUME e > n, pos <= n
      PROVE  Block = SubSeq(text, pos + 1, n) /\ Len(Block) = n - pos
  <2>1. pos \in 0..n /\ n \in pos..n
    BY <1>1, <1>5
  <2>2. Block = SubSeq(file, pos + 1, n)
    <3>1. Min({e, n}) = n
      BY <1>1, <1>2, <1>3, <1>5
    <3> QED
      BY <3>1 DEF Block
  <2>3. SubSeq(file, pos + 1, n) = SubSeq(text, pos + 1, n) /\ Len(SubSeq(file, pos + 1, n)) = n - pos
    BY <1>1, <2>1, SliceOfPrefix, Slice
  <2> QED
    BY <2>2, <2>3
<1>6. ASSUME pos > n
      PROVE  Block = <<>> /\ Len(Block) = 0
  <2>1. Block = SubSeq(file, pos + 1, n)
    <3>1. Min({e, n}) = n
      BY <1>1, <1>2, <1>3, <1>6
    <3> QED
      BY <3>1 DEF Block
  <2>2. SubSeq(file, pos + 1, n) = <<>>
    BY <1>1, <1>6, SubSeqEmpty
  <2>3. Len(<<>>) = 0
    OBVIOUS
  <2> QED
    BY <2>1, <2>2, <2>3
<1>7. Feof <=> Len(Block) < BufSize
  BY DEF Feof
<1> HIDE DEF Block, Feof
<1>8. CASE e <= n
  BY <1>1, <1>2, <1>4, <1>7, <1>8
<1>9. CASE e > n
  BY <1>1, <1>2, <1>5, <1>6, <1>7, <1>9
<1> QED
  BY <1>1, <1>2, <1>8, <1>9

\* Two adjacent parts, encoded.
LEMMA Adjacent ==
  ASSUME NEW t \in Seq(Byte), NEW a \in 0..Len(t), NEW b \in a..Len(t), NEW c \in b..Len(t)
  PROVE  /\ SubSeq(t, a + 1, b) \in Seq(Byte) /\ SubSeq(t, b + 1, c) \in Seq(Byte)
         /\ Encoded(SubSeq(t, a + 1, b)) \o Encoded(SubSeq(t, b + 1, c))
              = Encoded(SubSeq(t, a + 1, c))
<1> DEFINE p == SubSeq(t, a + 1, b)
           q == SubSeq(t, b + 1, c)
<1>1. p \in Seq(Byte) /\ q \in Seq(Byte)
  BY Slice
<1>2. p \o q = SubSeq(t, a + 1, c)
  <2>1. a + 1 \in 1..(Len(t) + 1) /\ b \in (a + 1 - 1)..Len(t) /\ c \in b..Len(t)
    OBVIOUS
  <2> QED
    BY <2>1, ConcatAdjacentSubSeq
<1> HIDE DEF p, q
<1>3. Encoded(p \o q) = Encoded(p) \o Encoded(q)
  BY <1>1, EncodedConcat
<1>4. Encoded(p) \o Encoded(q) = Encoded(SubSeq(t, a + 1, c))
  BY <1>2, <1>3, Zenon
<1> QED
  BY <1>1, <1>4 DEF p, q
\* What is sent, with the next block, is the part of the text behind the copy.
LEMMA SentIs ==
  ASSUME Typed, FileGood, CopyGood, pc = "send"
  PROVE  \E e \in Len(copy)..Len(text) :
           wire \o Encoded(Block) = Encoded(SubSeq(text, Len(copy) + 1, e))
<1> DEFINE n == Len(copy)
           l == Len(file)
<1>1. /\ text \in Seq(Byte) /\ wire \in Seq(Byte)
      /\ Len(text) \in Nat /\ l \in 0..Len(text) /\ n \in 0..Len(text) /\ pos \in Nat
  BY Types, PrefixLength DEF FileGood, CopyGood
<1>2. /\ wire = Encoded(SubSeq(text, n + 1, pos)) /\ n <= pos
      /\ pos <= l \/ pos = n
  BY DEF CopyGood, SentPart
<1>3. ASSUME NEW e \in pos..l, Block = SubSeq(text, pos + 1, e)
      PROVE  e \in n..Len(text) /\ wire \o Encoded(Block) = Encoded(SubSeq(text, n + 1, e))
  <2> HIDE DEF n, l
  <2>1. pos \in n..Len(text) /\ e \in pos..Len(text) /\ e \in n..Len(text)
    BY <1>1, <1>2, <1>3
  <2>2. Encoded(SubSeq(text, n + 1, pos)) \o Encoded(SubSeq(text, pos + 1, e))
          = Encoded(SubSeq(text, n + 1, e))
    BY <1>1, <2>1, Adjacent
  <2> QED
    BY <1>2, <1>3, <2>1, <2>2, Zenon
<1>4. CASE ~Feof
  <2>1. pos + BufSize \in pos..l /\ Block = SubSeq(text, pos + 1, pos + BufSize)
    BY <1>4, BlockIsPart
  <2> QED
    BY <1>3, <2>1
<1>5. CASE Feof /\ pos <= l
  <2>1. l \in pos..l
    BY <1>1, <1>5
  <2>2. Block = SubSeq(text, pos + 1, l)
    BY <1>5, BlockIsPart
  <2> QED
    BY <1>3, <2>1, <2>2
<1>6. CASE pos > l
  <2>1. Block = <<>> /\ pos = n
    BY <1>1, <1>2, <1>6, BlockIsPart
  <2>2. Encoded(<<>>) = <<>> /\ wire \o <<>> = wire
    BY <1>1, EncodeEmpty DEF Encoded
  <2>3. wire \o Encoded(Block) = Encoded(SubSeq(text, n + 1, pos))
    BY <1>2, <2>1, <2>2, Zenon
  <2>4. pos \in n..Len(text)
    BY <1>1, <2>1
  <2> QED
    BY <2>3, <2>4
<1>7. pos <= l \/ pos > l
  BY <1>1
<1> QED
  BY <1>4, <1>5, <1>6, <1>7

LEMMA FretrKeepsCopy ==
  ASSUME Typed, "copy" \notin missing => CopyGood, Fretr, "copy" \notin missing'
  PROVE  CopyGood'
<1>1. /\ text \in Seq(Byte) /\ text' = text /\ file' = file /\ type' = type
      /\ restart \in {None, Len(copy)} /\ Len(copy) \in Nat
  BY Types DEF Fretr
<1>2. CASE Over(<< 425 >>) /\ UNCHANGED <<copy, missing>>
  BY <1>1, <1>2 DEF CopyGood, Over
<1>3. CASE ~(Over(<< 425 >>) /\ UNCHANGED <<copy, missing>>)
  <2>1. /\ pc' = "send" /\ wire' = <<>>
        /\ copy' = (IF restart = None THEN <<>> ELSE copy)
        /\ pos' = (IF restart = None THEN 0 ELSE restart)
        /\ missing' = IF "hole" \in missing THEN missing \cup {"copy"}
                      ELSE missing \ (IF restart = None THEN {"copy"} ELSE {})
    BY <1>3 DEF Fretr
  <2>2. "hole" \notin missing'
    BY <2>1
  <2>3. IsPrefix(copy', text) /\ Len(copy') = pos' /\ pos' \in Nat
    <3>1. CASE restart = None
      <4>1. copy' = <<>> /\ pos' = 0 /\ Len(<<>>) = 0
        BY <2>1, <3>1
      <4> QED
        BY <1>1, <4>1, EmptyIsPrefix
    <3>2. CASE restart # None
      <4>1. copy' = copy /\ pos' = Len(copy) /\ "copy" \notin missing
        BY <1>1, <2>1, <3>2
      <4> QED
        BY <1>1, <4>1 DEF CopyGood
    <3> QED
      BY <3>1, <3>2
  <2>4. SubSeq(text, pos' + 1, pos') = <<>>
    <3>1. ASSUME NEW i \in Nat PROVE SubSeq(text, i + 1, i) = <<>>
      <4>1. i \in Int /\ i + 1 \in Int /\ i < i + 1
        OBVIOUS
      <4> QED
        BY <4>1, SubSeqEmpty
    <3> QED
      BY <2>3, <3>1
  <2>5. wire' = Encoded(SubSeq(text, Len(copy) + 1, pos))'
    <3>1. SubSeq(text', Len(copy') + 1, pos') = <<>>
      BY <1>1, <2>3, <2>4
    <3>2. Encoded(<<>>)' = <<>>
      BY EncodeEmpty DEF Encoded
    <3> QED
      BY <2>1, <3>1, <3>2 DEF Encoded
  <2>6. Len(copy') <= pos' /\ pos' = Len(copy')
    BY <2>3
  <2> QED
    BY <1>1, <2>2, <2>3, <2>5, <2>6 DEF CopyGood, SentPart
<1> QED
  BY <1>2, <1>3

LEMMA SendKeepsCopy ==
  ASSUME Typed, FileGood, CopyGood, Send
  PROVE  CopyGood'
<1> DEFINE n == Len(copy)
           e == pos + BufSize
<1>1. /\ text \in Seq(Byte) /\ Len(text) \in Nat /\ Len(file) \in 0..Len(text)
      /\ n \in 0..Len(text) /\ pos \in Nat
  BY Types, PrefixLength DEF FileGood, CopyGood
<1>2. /\ pc = "send" /\ wire' = wire \o Encoded(Block) /\ pos' = e
      /\ text' = text /\ file' = file /\ copy' = copy /\ type' = type /\ missing' = missing
  BY DEF Send
<1>3. e \in pos..Len(file) /\ Block = SubSeq(text, pos + 1, e)
  BY BlockIsPart DEF Send
<1>4. wire = Encoded(SubSeq(text, n + 1, pos)) /\ n <= pos /\ "hole" \notin missing
  BY <1>2 DEF CopyGood, SentPart
<1> HIDE DEF n, e
<1>5. pos \in n..Len(text) /\ e \in pos..Len(text) /\ n <= e /\ e <= Len(file)
  BY <1>1, <1>3, <1>4
<1>6. Encoded(SubSeq(text, n + 1, pos)) \o Encoded(SubSeq(text, pos + 1, e))
        = Encoded(SubSeq(text, n + 1, e))
  BY <1>1, <1>5, Adjacent
<1>7. wire' = Encoded(SubSeq(text, n + 1, e))
  BY <1>2, <1>3, <1>4, <1>6, Zenon
<1>8. SentPart'
  <2>1. wire' = Encoded(SubSeq(text, Len(copy) + 1, pos))'
    BY <1>2, <1>7 DEF Encoded, n
  <2>2. Len(copy') <= pos' /\ pos' <= Len(file')
    BY <1>2, <1>5 DEF n
  <2> QED
    BY <1>2, <1>4, <2>1, <2>2 DEF SentPart
<1> QED
  BY <1>2, <1>8 DEF CopyGood

\* The copy, and the part of the text behind it.
LEMMA CopyAndRest ==
  ASSUME NEW t \in Seq(Byte), NEW g \in Seq(Byte), IsPrefix(g, t), NEW n \in Len(g)..Len(t)
  PROVE  g \o SubSeq(t, Len(g) + 1, n) = Upto(t, n)
<1>1. Len(g) \in 0..Len(t) /\ Upto(t, Len(g)) = g
  BY PrefixLength
<1>2. 1 \in 1..(Len(t) + 1) /\ Len(g) \in (1 - 1)..Len(t) /\ n \in Len(g)..Len(t)
  BY <1>1
<1>3. SubSeq(t, 1, Len(g)) \o SubSeq(t, Len(g) + 1, n) = SubSeq(t, 1, n)
  BY <1>2, ConcatAdjacentSubSeq
<1> QED
  BY <1>1, <1>3 DEF Upto
\* When RETR has sent everything, the client has the whole file, unless its own copy was
\* longer, and then it has what it had.
LEMMA AllSent ==
  ASSUME Typed, FileGood, CopyGood, SendLast
  PROVE  copy' = IF pos <= Len(file) THEN file ELSE copy
<1> DEFINE n == Len(copy)
           e == Len(file)
<1>1. /\ text \in Seq(Byte) /\ file \in Seq(Byte) /\ copy \in Seq(Byte) /\ wire \in Seq(Byte)
      /\ IsPrefix(file, text) /\ IsPrefix(copy, text)
      /\ Len(text) \in Nat /\ e \in 0..Len(text) /\ n \in 0..Len(text) /\ pos \in Nat
  BY Types, PrefixLength DEF FileGood, CopyGood
<1>2. pc = "send" /\ Feof /\ copy' = copy \o Decoded(wire \o Encoded(Block))
  BY DEF SendLast
<1>3. /\ wire = Encoded(SubSeq(text, n + 1, pos)) /\ n <= pos
      /\ pos <= e \/ pos = n
  BY <1>2 DEF CopyGood, SentPart
<1>4. ASSUME NEW s \in Seq(Byte)
      PROVE  Decoded(Encoded(s)) = s
  BY DecodeEncoded DEF Decoded, Encoded
<1>5. CASE pos <= e
  <2>1. Block = SubSeq(text, pos + 1, e)
    BY <1>2, <1>5, BlockIsPart
  <2>2. pos \in n..Len(text) /\ e \in pos..Len(text) /\ e \in n..Len(text) /\ n \in 0..Len(text)
    BY <1>1, <1>3, <1>5
  <2> HIDE DEF n, e
  <2>3. /\ Encoded(SubSeq(text, n + 1, pos)) \o Encoded(SubSeq(text, pos + 1, e))
             = Encoded(SubSeq(text, n + 1, e))
        /\ SubSeq(text, n + 1, e) \in Seq(Byte)
    BY <1>1, <2>2, Adjacent, Slice
  <2>4. Decoded(wire \o Encoded(Block)) = SubSeq(text, n + 1, e)
    BY <1>3, <1>4, <2>1, <2>3, Zenon
  <2>5. copy \o SubSeq(text, n + 1, e) = Upto(text, e)
    BY <1>1, <2>2, CopyAndRest DEF n
  <2>6. Upto(text, e) = file
    BY <1>1, PrefixLength DEF e
  <2> QED
    BY <1>2, <1>5, <2>4, <2>5, <2>6 DEF e
<1>6. CASE pos > e
  <2>1. Block = <<>> /\ pos = n
    BY <1>1, <1>2, <1>3, <1>6, BlockIsPart
  <2>2. SubSeq(text, n + 1, pos) = <<>>
    <3>1. pos \in Int /\ n + 1 \in Int /\ pos < n + 1
      BY <1>1, <2>1
    <3> QED
      BY <3>1, SubSeqEmpty
  <2>3. Encoded(<<>>) = <<>> /\ Decoded(<<>>) = <<>>
    BY EncodeEmpty, DecodeEmpty DEF Encoded, Decoded
  <2>4. <<>> \o <<>> = <<>> /\ copy \o <<>> = copy
    BY <1>1
  <2>5. copy' = copy
    BY <1>2, <1>3, <2>1, <2>2, <2>3, <2>4, Zenon
  <2> QED
    BY <1>1, <1>6, <2>5
<1> QED
  BY <1>1, <1>5, <1>6

LEMMA SendLastKeepsCopy ==
  ASSUME Typed, FileGood, CopyGood, SendLast
  PROVE  CopyGood'
<1>1. copy' \in {file, copy}
  BY AllSent
<1>2. text' = text /\ pc' = "idle"
  BY DEF SendLast, Over
<1> QED
  BY <1>1, <1>2 DEF FileGood, CopyGood

LEMMA SendAbortedKeepsCopy ==
  ASSUME Typed, FileGood, CopyGood, SendAborted
  PROVE  CopyGood'
<1> DEFINE n == Len(copy)
           sent == wire \o Encoded(Block)
<1>1. /\ text \in Seq(Byte) /\ copy \in Seq(Byte) /\ IsPrefix(copy, text)
      /\ Len(text) \in Nat /\ n \in 0..Len(text) /\ type \in {"A", "I"}
  BY Types, PrefixLength DEF CopyGood
<1>2. PICK e \in n..Len(text) : sent = Encoded(SubSeq(text, n + 1, e))
  BY SentIs DEF SendAborted
<1> DEFINE w == SubSeq(text, n + 1, e)
<1>3. w \in Seq(Byte) /\ e \in 0..Len(text)
  BY <1>1, Slice
<1>4. copy \o w = Upto(text, e)
  BY <1>1, CopyAndRest
<1>5. sent \in Seq(Byte)
  BY <1>2, <1>3, EncodedType
<1>6. PICK k \in 0..Len(sent) : copy' = copy \o Decoded(Certain(Upto(sent, k)))
  BY DEF SendAborted
<1>7. sent = Encoded(w)
  BY <1>2
<1> HIDE DEF n, w, sent
<1> DEFINE x == Upto(sent, k)
           y == From(sent, k)
           u == Decoded(Certain(x))
<1>8. x \in Seq(Byte) /\ y \in Seq(Byte) /\ sent = x \o y
  BY <1>5, Split
<1> HIDE DEF x, y
<1>9. Encoded(w) = x \o y
  BY <1>7, <1>8
<1>10. \E v \in Seq(Byte) : u \in Seq(Byte) /\ w = u \o v
  BY <1>1, <1>3, <1>8, <1>9, CertainFits
<1> HIDE DEF u
<1>11. PICK v \in Seq(Byte) : u \in Seq(Byte) /\ w = u \o v
  BY <1>10
<1>12. IsPrefix(copy \o u, text)
  <2> DEFINE g == copy \o u
             q == Upto(text, e)
  <2>1. u \in Seq(Byte)
    BY <1>11
  <2>2. (copy \o u) \o v = copy \o (u \o v)
    <3>1. Groups(copy, u, v)
      BY <1>1, <2>1, AllGroup, Zenon
    <3> QED
      BY <3>1, Zenon DEF Groups
  <2>3. q = g \o v
    BY <1>4, <1>11, <2>2, Zenon
  <2>4. g \in Seq(Byte)
    BY <1>1, <2>1, Joined
  <2>5. q \in Seq(Byte) /\ IsPrefix(q, text)
    BY <1>1, <1>3, UptoPrefix, Split
  <2> HIDE DEF g, q
  <2>6. IsPrefix(g, g \o v)
    BY <2>4, Joined
  <2>7. IsPrefix(g, q)
    BY <2>3, <2>6, Zenon
  <2>8. IsPrefix(g, text)
    BY <1>1, <2>4, <2>5, <2>7, PrefixOfPrefix
  <2> QED
    BY <2>8 DEF g
<1>13. copy' = copy \o u
  BY <1>6 DEF u, x
<1>14. IsPrefix(copy', text)
  BY <1>12, <1>13, Zenon
<1>15. text' = text /\ pc' = "idle"
  BY DEF SendAborted, Over
<1> QED
  BY <1>14, <1>15 DEF CopyGood

LEMMA NextKeepsCopy ==
  ASSUME Typed, "hole" \notin missing => FileGood, "copy" \notin missing => CopyGood,
         Next, "copy" \notin missing'
  PROVE  CopyGood'
<1> DEFINE Untouched == "copy" \notin missing /\ copy' = copy /\ text' = text /\ pc' # "send"
<1>1. ASSUME Untouched PROVE CopyGood'
  BY <1>1 DEF CopyGood
<1>2. CASE (\E t \in {"A", "I"} : Ftype(t)) \/ (\E n \in {Len(file), Len(copy)} : Frest(n))
  <2>1. Untouched
    BY <1>2 DEF Ftype, Frest, Idle
  <2> QED
    BY <1>1, <2>1
<1>3. CASE Fstor \/ Fappe
  <2>1. /\ "copy" \in missing => "copy" \in missing'
        /\ copy' = copy /\ text' = text /\ (pc' = "receive" \/ Over(<< 425 >>))
    BY <1>3, UploadFrom
  <2>2. Untouched
    BY <2>1 DEF Over
  <2> QED
    BY <1>1, <2>2
<1>4. CASE Received \/ ReceiveAborted \/ Killed
  <2>1. Untouched
    BY <1>4, EndedFile DEF Over
  <2> QED
    BY <1>1, <2>1
<1>5. ASSUME NEW k \in 1..BufSize, Receive(k) \/ WriteFails(k) \/ HeldLost(k)
      PROVE  CopyGood'
  <2>1. Untouched
    BY <1>5 DEF Receive, WriteFails, HeldLost, Over
  <2> QED
    BY <1>1, <2>1
<1>6. CASE Fretr
  BY <1>6, FretrKeepsCopy
<1>7. CASE Send \/ SendLast \/ SendAborted
  <2>1. "copy" \notin missing /\ pc = "send"
    BY <1>7 DEF Send, SendLast, SendAborted
  <2>2. FileGood /\ CopyGood
    BY <2>1 DEF CopyGood, SentPart
  <2> QED
    BY <1>7, <2>2, SendKeepsCopy, SendLastKeepsCopy, SendAbortedKeepsCopy
<1>8. CASE SendShort
  BY <1>8 DEF SendShort
<1> QED
  BY <1>2, <1>3, <1>4, <1>5, <1>6, <1>7, <1>8 DEF Next

-----------------------------------------------------------------------------
LEMMA StepKeeps ==
  ASSUME TransferInv, [Next]_vars
  PROVE  TransferInv'
<1>1. /\ Typed
      /\ "hole" \notin missing => FileGood
      /\ "copy" \notin missing => CopyGood
  BY Parts
<1>2. CASE Next
  <2>1. Typed'
    BY <1>1, <1>2, NextTyped
  <2>2. ("hole" \notin missing => FileGood)'
    BY <1>1, <1>2, NextKeepsFile
  <2>3. ("copy" \notin missing => CopyGood)'
    BY <1>1, <1>2, NextKeepsCopy
  <2> QED
    BY <2>1, <2>2, <2>3, PartsNext
<1>3. CASE UNCHANGED vars
  <2>1. Typed'
    BY <1>1, <1>3 DEF vars, Typed, OnDisk, Unanswered
  <2>2. ("hole" \notin missing => FileGood)'
    BY <1>1, <1>3 DEF vars, FileGood, Arrives, Encoded
  <2>3. ("copy" \notin missing => CopyGood)'
    BY <1>1, <1>3 DEF vars, CopyGood, SentPart, Encoded
  <2> QED
    BY <2>1, <2>2, <2>3, PartsNext
<1> QED
  BY <1>2, <1>3

-----------------------------------------------------------------------------
\* In every reachable state the data connection carries just what is missing on the side
\* that receives, until a write() to the client ends early or a CR cannot be written; the
\* other theorems follow from this.
THEOREM TransferCorrect == Spec => []TransferInv
<1>1. Init => TransferInv
  BY TransferInit
<1>2. TransferInv /\ [Next]_vars => TransferInv'
  BY StepKeeps
<1> QED
  BY <1>1, <1>2, PTL DEF Spec

\* Types, and that without a hole the server's file is never longer than the client's.
THEOREM TypeCorrect == Spec => []TypeOK
<1>1. TransferInv => TypeOK
  BY DEF TransferInv
<1> QED
  BY <1>1, TransferCorrect, PTL

\* What STOR and APPE have written, in whatever blocks the bytes came and wherever the
\* transfer broke off, is a beginning of the client's file, as long as no CR that was held
\* back was lost: it can be resumed.
THEOREM StoredPrefix == Spec => []StoredIsPrefix
<1>1. TransferInv => StoredIsPrefix
  BY DEF TransferInv
<1> QED
  BY <1>1, TransferCorrect, PTL

\* What RETR and RETR after REST have brought the client is a beginning of the same file,
\* as long as every write() took its whole block.
THEOREM CopyPrefix == Spec => []CopyIsPrefix
<1>1. TransferInv => CopyIsPrefix
  BY DEF TransferInv
<1> QED
  BY <1>1, TransferCorrect, PTL

-----------------------------------------------------------------------------
\* An upload that ended lacks nothing but a CR at the end that was held back.
LEMMA AllReceived ==
  ASSUME Typed, FileGood, Received
  PROVE  file = text \/ (held /\ file = Front(text))
<1> DEFINE rest == From(text, Len(file))
<1>1. /\ text \in Seq(Byte) /\ file \in Seq(Byte) /\ rest \in Seq(Byte) /\ text = file \o rest
      /\ type \in {"A", "I"}
  BY Types, PrefixLength DEF FileGood
<1>2. (held => type = "A") /\ HeldBack(held) = Encoded(rest)
  <2>1. HeldBack(held) \o wire = Encoded(rest) /\ (held => type = "A") /\ wire = <<>>
    BY DEF Received, FileGood, Arrives
  <2>2. HeldBack(held) \o <<>> = HeldBack(held)
    BY HeldBackType
  <2> QED
    BY <2>1, <2>2
<1> HIDE DEF rest
<1>3. CASE ~held
  <2>1. Encoded(rest) = <<>>
    BY <1>2, <1>3 DEF HeldBack
  <2>2. rest = <<>>
    BY <1>1, <2>1, EncodeHead DEF Encoded
  <2>3. file \o <<>> = file
    BY <1>1
  <2> QED
    BY <1>1, <2>2, <2>3, Zenon
<1>4. CASE held
  <2>1. LF2CRLF(rest) = <<CR>>
    BY <1>2, <1>4 DEF HeldBack, Encoded
  <2>2. rest # <<>>
    BY <2>1, EncodeEmpty
  <2> DEFINE b == Head(rest)
             r == Tail(rest)
  <2>3. b \in Byte /\ r \in Seq(Byte) /\ rest = <<b>> \o r
    BY <1>1, <2>2, HeadAndTail
  <2> HIDE DEF b, r
  <2>4. Sent(b) \o LF2CRLF(r) = <<CR>>
    BY <2>1, <2>3, EncodeCons
  <2>5. Sent(b) \in Seq(Byte) /\ LF2CRLF(r) \in Seq(Byte) /\ Len(Sent(b)) = IF b = LF THEN 2 ELSE 1
    BY <2>3, SentType, EncodeType
  <2>6. Len(Sent(b)) + Len(LF2CRLF(r)) = 1 /\ Len(LF2CRLF(r)) \in Nat
    <3>1. Len(Sent(b) \o LF2CRLF(r)) = Len(Sent(b)) + Len(LF2CRLF(r)) /\ Len(LF2CRLF(r)) \in Nat
      <4>1. \A f, g \in Seq(Byte) : Len(f \o g) = Len(f) + Len(g) /\ Len(g) \in Nat
        OBVIOUS
      <4> QED
        BY <2>5, <4>1
    <3>2. Len(<<CR>>) = 1
      OBVIOUS
    <3> QED
      BY <2>4, <3>1, <3>2
  <2>7. b # LF /\ Len(LF2CRLF(r)) = 0
    BY <2>5, <2>6
  <2>8. LF2CRLF(r) = <<>>
    BY <2>5, <2>7, EmptySeq
  <2>9. r = <<>>
    BY <2>3, <2>8, EncodeHead
  <2>10. rest = <<b>>
    <3>1. <<b>> \o <<>> = <<b>>
      BY <2>3
    <3> QED
      BY <2>3, <2>9, <3>1, Zenon
  <2>11. Front(file \o <<b>>) = file
    BY <1>1, <2>3, LastOfAppend
  <2>12. Front(text) = file
    BY <1>1, <2>10, <2>11, Zenon
  <2> QED
    BY <1>4, <2>12
<1> QED
  BY <1>3, <1>4
LEMMA WholeStep ==
  ASSUME TransferInv, [Next]_vars, reply' = << 226 >>, ~UNCHANGED vars
  PROVE  /\ pc = "receive" /\ missing' \cap {"hole", "tail"} = {}
              => file' = text \/ (held /\ file' = Front(text))
         /\ pc = "send" /\ "copy" \notin missing' /\ IsPrefix(copy, file)
              => copy' = file
<1>1. /\ Typed
      /\ "hole" \notin missing => FileGood
      /\ "copy" \notin missing => CopyGood
  BY Parts
<1>2. Next
  OBVIOUS
<1>3. << 150 >> # << 226 >> /\ <<426, 226>> # << 226 >> /\ << 426 >> # << 226 >> /\ << 451 >> # << 226 >>
      /\ <<>> # << 226 >>
  OBVIOUS
<1>4. CASE Received
  <2>1. pc = "receive"
    BY <1>4 DEF Received
  <2>2. SUFFICES ASSUME missing' \cap {"hole", "tail"} = {}
                 PROVE  file' = text \/ (held /\ file' = Front(text))
    BY <2>1
  <2>3. file' = file /\ "hole" \notin missing
    BY <1>4, <2>2 DEF Received
  <2> QED
    BY <1>1, <1>4, <2>3, AllReceived
<1>5. CASE SendLast
  <2>1. pc = "send" /\ missing' = missing
    BY <1>5 DEF SendLast
  <2>2. SUFFICES ASSUME "copy" \notin missing, IsPrefix(copy, file)
                 PROVE  copy' = file
    BY <2>1
  <2>3. FileGood /\ CopyGood /\ (pos <= Len(file) \/ pos = Len(copy))
    BY <1>1, <2>1, <2>2 DEF CopyGood, SentPart
  <2>4. copy' = IF pos <= Len(file) THEN file ELSE copy
    BY <1>1, <1>5, <2>3, AllSent
  <2>5. Len(copy) \in 0..Len(file)
    BY <1>1, <2>2, Types, PrefixLength
  <2> QED
    BY <2>3, <2>4, <2>5
<1>6. CASE SendShort
  <2>1. pc = "send" /\ "copy" \in missing'
    BY <1>6 DEF SendShort
  <2> QED
    BY <2>1
<1>7. CASE pc = "idle"
  BY <1>7
<1>8. CASE pc # "idle" /\ ~Received /\ ~SendLast /\ ~SendShort
  <2>1. reply = << 150 >>
    BY <1>1, <1>8 DEF Typed, Unanswered
  <2>2. \/ ReceiveAborted \/ Killed \/ Send \/ SendAborted
        \/ \E k \in 1..BufSize : Receive(k) \/ WriteFails(k) \/ HeldLost(k)
    BY <1>2, <1>8 DEF Next, Ftype, Frest, Fstor, Fappe, Fretr, Idle
  <2>3. reply' \in {<< 150 >>, <<426, 226>>, << 426 >>, << 451 >>, <<>>}
    BY <2>1, <2>2 DEF ReceiveAborted, Killed, Send, SendAborted, Receive, WriteFails, HeldLost, Over
  <2> QED
    BY <1>3, <2>3
<1> QED
  BY <1>4, <1>5, <1>6, <1>7, <1>8

\* 226 alone after STOR or APPE means that the file is whole, but for a CR at its end; 226
\* after RETR, that the client has all that the server has: unless a CR, the end of the
\* file in fclose() or a part of a block was lost unnoticed.
THEOREM WholeAt226 == Spec => Whole226
<1>1. TransferInv /\ [Next]_vars =>
        [reply' = << 226 >> =>
           /\ pc = "receive" /\ missing' \cap {"hole", "tail"} = {}
                => file' = text \/ (held /\ file' = Front(text))
           /\ pc = "send" /\ "copy" \notin missing' /\ IsPrefix(copy, file)
                => copy' = file]_vars
  BY WholeStep
<1> QED
  BY <1>1, TransferCorrect, PTL DEF Spec, Whole226

================================================================================

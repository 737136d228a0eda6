-------------------------- MODULE OscDatagramsProofs --------------------------
(***************************************************************************)
(* Proofs about OscDatagrams, for addresses, texts and buffers of every    *)
(* size and whatever the buffers hold.                                     *)
(***************************************************************************)
EXTENDS OscDatagrams, SequenceTheorems, TLAPS

\* Both ways to pad a string's terminator to four bytes.
LEMMA Padding ==
  ASSUME NEW n \in Nat
  PROVE  /\ RoundUp4(n + 1) = n + 1 + MorePadding(n)
         /\ MorePadding(n) \in Nat
         /\ RoundUp4(n + 1) % 4 = 0
         /\ RoundUp4(n + 1) = (n + 4) - ((n + 4) % 4)
  BY DEF RoundUp4, MorePadding

LEMMA PaddedLength ==
  ASSUME NEW n \in Nat
  PROVE  /\ RoundUp4(n + 1) \in Nat
         /\ RoundUp4(n + 1) >= n + 1 /\ RoundUp4(n + 1) <= n + 4
         /\ RoundUp4(n + 1) - n \in Nat
  BY DEF RoundUp4

LEMMA CellsAreCells ==
  /\ Nul \in Cell /\ Comma \in Cell
  /\ \A t \in TagKind : Tag(t) \in Cell
  /\ \A s \in Address \cup Text, i \in Nat : Char(s, i) \in Cell
  /\ \A v \in Value, i \in Nat : Byte(v, i) \in Cell
  BY DEF Cell, Nul, Comma, Tag, Char, Byte, TagKind

LEMMA ZerosType ==
  ASSUME NEW n \in Nat
  PROVE  Zeros(n) \in Seq(Cell) /\ Len(Zeros(n)) = n /\ \A i \in 1 .. n : Zeros(n)[i] = Nul
  BY CellsAreCells DEF Zeros

LEMMA CharsType ==
  ASSUME NEW s \in Address \cup Text
  PROVE  /\ StringLength[s] \in Nat
         /\ Chars(s) \in Seq(Cell)
         /\ Len(Chars(s)) = StringLength[s]
         /\ \A i \in 1 .. StringLength[s] : Chars(s)[i] = Char(s, i)
<1>1. StringLength[s] \in Nat
  BY DatagramAssumption
<1>2. \A i \in 1 .. StringLength[s] : Char(s, i) \in Cell
  BY <1>1, CellsAreCells
<1>3. QED
  BY <1>1, <1>2 DEF Chars

LEMMA BytesType ==
  ASSUME NEW v \in Value
  PROVE  Bytes(v) \in Seq(Cell) /\ Len(Bytes(v)) = 4
  BY CellsAreCells DEF Bytes

\* Where the cells of two parts lie in the whole.
LEMMA Joined ==
  \A s, t \in Seq(Cell) :
    /\ s \o t \in Seq(Cell) /\ Len(s \o t) = Len(s) + Len(t)
    /\ \A i \in 1 .. Len(s) : (s \o t)[i] = s[i]
    /\ \A i \in 1 .. Len(t) : (s \o t)[Len(s) + i] = t[i]
<1> TAKE s, t \in Seq(Cell)
<1>1. PICK k \in Nat, l \in Nat : k = Len(s) /\ l = Len(t)
  BY LenProperties
<1>2. /\ s \o t \in Seq(Cell) /\ Len(s \o t) = k + l
      /\ \A i \in 1 .. k + l : (s \o t)[i] = IF i <= k THEN s[i] ELSE t[i - k]
  BY <1>1, ConcatProperties
<1>3. ASSUME NEW i \in 1 .. k PROVE (s \o t)[i] = s[i]
  BY <1>2
<1>4. ASSUME NEW i \in 1 .. l PROVE (s \o t)[k + i] = t[i]
  <2>1. k + i \in 1 .. k + l /\ ~(k + i <= k) /\ (k + i) - k = i
    OBVIOUS
  <2>2. (s \o t)[k + i] = t[(k + i) - k]
    BY <1>2, <2>1
  <2>3. QED
    BY <2>1, <2>2
<1>5. QED
  BY <1>1, <1>2, <1>3, <1>4

LEMMA PaddedType ==
  ASSUME NEW s \in Address \cup Text
  PROVE  /\ Padded(s) \in Seq(Cell)
         /\ Len(Padded(s)) = RoundUp4(StringLength[s] + 1)
         /\ \A i \in 1 .. RoundUp4(StringLength[s] + 1) :
              Padded(s)[i] = IF i <= StringLength[s] THEN Char(s, i) ELSE Nul
<1>1. PICK n : n = StringLength[s]
  OBVIOUS
<1>2. PICK p : p = RoundUp4(n + 1)
  OBVIOUS
<1>3. PICK z : z = Zeros(p - n)
  OBVIOUS
<1>4. /\ n \in Nat /\ Chars(s) \in Seq(Cell) /\ Len(Chars(s)) = n
      /\ \A i \in 1 .. n : Chars(s)[i] = Char(s, i)
  BY <1>1, CharsType
<1>5. p \in Nat /\ p - n \in Nat
  BY <1>2, <1>4, PaddedLength
<1>6. z \in Seq(Cell) /\ Len(z) = p - n /\ \A i \in 1 .. p - n : z[i] = Nul
  BY <1>3, <1>5, ZerosType
<1>7. Padded(s) = Chars(s) \o z
  BY <1>1, <1>2, <1>3 DEF Padded
<1>8. /\ Chars(s) \o z \in Seq(Cell) /\ Len(Chars(s) \o z) = Len(Chars(s)) + Len(z)
      /\ \A i \in 1 .. Len(Chars(s)) : (Chars(s) \o z)[i] = Chars(s)[i]
      /\ \A i \in 1 .. Len(z) : (Chars(s) \o z)[Len(Chars(s)) + i] = z[i]
  <2>1. Chars(s) \in Seq(Cell) /\ z \in Seq(Cell)
    BY <1>4, <1>6
  <2>2. QED
    BY <2>1, Joined, Zenon
<1>9. /\ Padded(s) \in Seq(Cell) /\ Len(Padded(s)) = p
      /\ \A i \in 1 .. n : Padded(s)[i] = Chars(s)[i]
      /\ \A i \in 1 .. p - n : Padded(s)[n + i] = z[i]
  BY <1>4, <1>5, <1>6, <1>7, <1>8
<1>10. ASSUME NEW i \in 1 .. p
       PROVE  Padded(s)[i] = IF i <= n THEN Char(s, i) ELSE Nul
  <2>1. CASE i <= n
    <3>1. i \in 1 .. n
      BY <1>4, <2>1
    <3>2. QED
      BY <1>4, <1>9, <2>1, <3>1
  <2>2. CASE ~(i <= n)
    <3>1. i - n \in 1 .. p - n /\ n + (i - n) = i
      BY <1>4, <1>5, <2>2
    <3>2. Padded(s)[n + (i - n)] = z[i - n] /\ z[i - n] = Nul
      BY <1>6, <1>9, <3>1
    <3>3. QED
      BY <2>2, <3>1, <3>2
  <2>3. QED
    BY <2>1, <2>2
<1>11. QED
  BY <1>1, <1>2, <1>9, <1>10

LEMMA OneTag ==
  ASSUME NEW t \in TagKind
  PROVE  <<t>> \in Seq(TagKind) /\ Len(<<t>>) = 1 /\ <<t>>[1] = t
  OBVIOUS

LEMMA TagsOf ==
  ASSUME NEW m \in Message
  PROVE  /\ m.address \in Address
         /\ m.tags \in Seq(TagKind)
         /\ \/ Len(m.tags) = 1 /\ m.tags[1] \in {"T", "F"} /\ m.argument = Nothing
            \/ Len(m.tags) = 1 /\ m.tags[1] \in {"i", "f"} /\ m.argument \in Value
            \/ Len(m.tags) \in {1, 3} /\ m.tags[1] = "s" /\ m.argument \in Text
<1>1. CASE m \in [address : Address, tags : {<<"T">>, <<"F">>}, argument : {Nothing}]
  <2>1. m.address \in Address /\ m.tags \in {<<"T">>, <<"F">>} /\ m.argument = Nothing
    BY <1>1
  <2>2. PICK t \in {"T", "F"} : m.tags = <<t>>
    BY <2>1
  <2>3. t \in TagKind
    BY DEF TagKind
  <2>4. QED
    BY <2>1, <2>2, <2>3, OneTag
<1>2. CASE m \in [address : Address, tags : {<<"i">>, <<"f">>}, argument : Value]
  <2>1. m.address \in Address /\ m.tags \in {<<"i">>, <<"f">>} /\ m.argument \in Value
    BY <1>2
  <2>2. PICK t \in {"i", "f"} : m.tags = <<t>>
    BY <2>1
  <2>3. t \in TagKind
    BY DEF TagKind
  <2>4. QED
    BY <2>1, <2>2, <2>3, OneTag
<1>3. CASE m \in [address : Address, tags : {<<"s">>, <<"s", "T", "T">>}, argument : Text]
  <2>1. m.address \in Address /\ m.tags \in {<<"s">>, <<"s", "T", "T">>} /\ m.argument \in Text
    BY <1>3
  <2>2. "s" \in TagKind /\ "T" \in TagKind
    BY DEF TagKind
  <2>3. CASE m.tags = <<"s">>
    BY <2>1, <2>2, <2>3, OneTag
  <2>4. CASE m.tags = <<"s", "T", "T">>
    <3>1. <<"s", "T", "T">> \in Seq(TagKind) /\ Len(<<"s", "T", "T">>) = 3
      BY <2>2
    <3>2. <<"s", "T", "T">>[1] = "s"
      OBVIOUS
    <3>3. QED
      BY <2>1, <2>4, <3>1, <3>2
  <2>5. QED
    BY <2>1, <2>3, <2>4
<1>4. QED
  BY <1>1, <1>2, <1>3 DEF Message

LEMMA ArgumentType ==
  ASSUME NEW m \in Message
  PROVE  Argument(m) \in Seq(Cell)
  BY TagsOf, PaddedType, BytesType DEF Argument

----------------------------------------------------------------------------
(* What is sent                                                            *)

LEMMA TagCells ==
  ASSUME NEW m \in Message
  PROVE  /\ [i \in 1 .. Len(m.tags) |-> Tag(m.tags[i])] \in Seq(Cell)
         /\ CopiedTags(m) = [i \in 1 .. Len(m.tags) |-> Tag(m.tags[i])]
<1>1. m.tags \in Seq(TagKind) /\ Len(m.tags) \in Nat
  BY TagsOf
<1>2. \A i \in 1 .. Len(m.tags) : Tag(m.tags[i]) \in Cell
  BY <1>1, CellsAreCells
<1>3. ASSUME NEW i \in 1 .. Len(m.tags)
      PROVE  StoredTags(m)[Len(m.tags) + 1 - i] = Tag(m.tags[i])
  BY <1>1 DEF StoredTags
<1>4. QED
  BY <1>1, <1>2, <1>3 DEF CopiedTags

LEMMA Associative ==
  \A s, t, u \in Seq(Cell) : (s \o t) \o u = s \o (t \o u)
  BY ConcatAssociative

LEMMA OneMoreZero ==
  ASSUME NEW k \in Nat
  PROVE  <<Nul>> \o Zeros(k) = Zeros(k + 1)
  BY DEF Zeros

LEMMA TwoZeros ==
  ASSUME NEW c \in Cell, NEW d \in Cell
  PROVE  <<c>> \o <<d>> \o <<Nul, Nul>> = <<c, d, Nul, Nul>>
<1>1. <<c>> \in Seq(Cell) /\ Len(<<c>>) = 1 /\ <<c>>[1] = c
  OBVIOUS
<1>2. <<d>> \in Seq(Cell) /\ Len(<<d>>) = 1 /\ <<d>>[1] = d
  OBVIOUS
<1>3. /\ <<Nul, Nul>> \in Seq(Cell) /\ Len(<<Nul, Nul>>) = 2
      /\ <<Nul, Nul>>[1] = Nul /\ <<Nul, Nul>>[2] = Nul
  BY CellsAreCells
<1>4. /\ <<c, d, Nul, Nul>> \in Seq(Cell) /\ Len(<<c, d, Nul, Nul>>) = 4
      /\ <<c, d, Nul, Nul>>[1] = c /\ <<c, d, Nul, Nul>>[2] = d
      /\ <<c, d, Nul, Nul>>[3] = Nul /\ <<c, d, Nul, Nul>>[4] = Nul
  BY CellsAreCells
<1> DEFINE cd == <<c>> \o <<d>>
           all == cd \o <<Nul, Nul>>
<1>5. /\ cd \in Seq(Cell) /\ Len(cd) = 2
      /\ \A i \in 1 .. 1 : cd[i] = <<c>>[i]
      /\ \A i \in 1 .. 1 : cd[1 + i] = <<d>>[i]
  BY <1>1, <1>2, Joined
<1>6. cd[1] = c /\ cd[2] = d
  BY <1>1, <1>2, <1>5
<1> HIDE DEF cd
<1>7. /\ all \in Seq(Cell) /\ Len(all) = 4
      /\ \A i \in 1 .. 2 : all[i] = cd[i]
      /\ \A i \in 1 .. 2 : all[2 + i] = <<Nul, Nul>>[i]
  <2>1. cd \in Seq(Cell) /\ <<Nul, Nul>> \in Seq(Cell)
    BY <1>3, <1>5
  <2>2. /\ all \in Seq(Cell) /\ Len(all) = Len(cd) + Len(<<Nul, Nul>>)
        /\ \A i \in 1 .. Len(cd) : all[i] = cd[i]
        /\ \A i \in 1 .. Len(<<Nul, Nul>>) : all[Len(cd) + i] = <<Nul, Nul>>[i]
    BY <2>1, Joined, Zenon
  <2>3. QED
    BY <1>3, <1>5, <2>2
<1>8. all[1] = c /\ all[2] = d /\ all[3] = Nul /\ all[4] = Nul
  BY <1>3, <1>6, <1>7
<1> HIDE DEF all
<1>9. \A i \in 1 .. Len(all) : all[i] = <<c, d, Nul, Nul>>[i]
  BY <1>4, <1>7, <1>8
<1>10. all = <<c, d, Nul, Nul>>
  BY <1>4, <1>7, <1>9, SeqEqual
<1>11. QED
  BY <1>10 DEF all, cd

\* The padding of one tag and of three.
LEMMA TagPadding ==
  ASSUME NEW k \in {1, 3}
  PROVE  /\ RoundUp4(k + 2) - k - 1 \in Nat
         /\ RoundUp4(k + 2) - (k + 1) = RoundUp4(k + 2) - k - 1
         /\ k = 1 => RoundUp4(k + 2) - k - 1 = 2
  BY DEF RoundUp4

LEMMA TypeTagsType ==
  ASSUME NEW m \in Message
  PROVE  /\ TypeTags(m) \in Seq(Cell)
         /\ Len(m.tags) = 1 => TypeTags(m) = <<Comma, Tag(m.tags[1]), Nul, Nul>>
<1> DEFINE k == Len(m.tags)
           tags == [i \in 1 .. k |-> Tag(m.tags[i])]
           zeros == Zeros(RoundUp4(k + 2) - k - 1)
<1>1. k \in {1, 3} /\ tags \in Seq(Cell) /\ Len(tags) = k
  BY TagsOf, TagCells
<1>2. RoundUp4(k + 2) - k - 1 \in Nat /\ (k = 1 => RoundUp4(k + 2) - k - 1 = 2)
  BY <1>1, TagPadding
<1>3. zeros \in Seq(Cell)
  BY <1>2, ZerosType
<1>4. <<Comma>> \in Seq(Cell)
  BY CellsAreCells
<1>5. TypeTags(m) \in Seq(Cell)
  BY <1>1, <1>3, <1>4, ConcatProperties DEF TypeTags
<1>6. ASSUME k = 1
      PROVE  TypeTags(m) = <<Comma, Tag(m.tags[1]), Nul, Nul>>
  <2>1. tags = <<Tag(m.tags[1])>>
    BY <1>1, <1>6
  <2>2. zeros = <<Nul, Nul>>
    BY <1>2, <1>6 DEF Zeros
  <2>3. TypeTags(m) = <<Comma>> \o <<Tag(m.tags[1])>> \o <<Nul, Nul>>
    BY <2>1, <2>2 DEF TypeTags
  <2>4. m.tags[1] \in TagKind
    BY <1>6, TagsOf
  <2>5. Comma \in Cell /\ Tag(m.tags[1]) \in Cell
    BY <2>4, CellsAreCells
  <2>6. QED
    BY <2>3, <2>5, TwoZeros
<1>7. QED
  BY <1>5, <1>6

\* SendBool and SendInt write the OSC message.
LEMMA ByHandIsOsc ==
  ASSUME NEW m \in Message, Len(m.tags) = 1
  PROVE  ByHand(m) = Osc(m)
<1> DEFINE n == StringLength[m.address]
           k == MorePadding(n)
<1>1. n \in Nat /\ Chars(m.address) \in Seq(Cell)
  BY TagsOf, CharsType
<1>2. k \in Nat /\ RoundUp4(n + 1) - n = k + 1
  <2>1. k \in Nat /\ RoundUp4(n + 1) = n + 1 + k
    BY <1>1, Padding
  <2> HIDE DEF k, n
  <2>2. QED
    BY <1>1, <2>1
<1>3. Zeros(k) \in Seq(Cell) /\ <<Nul>> \in Seq(Cell)
  BY <1>2, ZerosType, CellsAreCells
<1>4. <<Nul>> \o Zeros(k) = Zeros(k + 1)
  BY <1>2, OneMoreZero
<1>5. (Chars(m.address) \o <<Nul>>) \o Zeros(k) = Chars(m.address) \o Zeros(k + 1)
  BY <1>1, <1>3, <1>4, Associative
<1>6. Padded(m.address) = (Chars(m.address) \o <<Nul>>) \o Zeros(k)
  BY <1>2, <1>5 DEF Padded
<1>7. QED
  BY <1>6, TypeTagsType DEF ByHand, Osc

\* OutboundPacketStream writes the OSC message.
LEMMA ByStreamIsOsc ==
  ASSUME NEW m \in Message
  PROVE  ByStream(m) = Osc(m)
<1> DEFINE k == Len(m.tags)
           tags == [i \in 1 .. k |-> Tag(m.tags[i])]
           zeros == Zeros(RoundUp4(k + 2) - k - 1)
<1>1. k \in {1, 3} /\ tags \in Seq(Cell) /\ CopiedTags(m) = tags
  BY TagsOf, TagCells
<1>2. /\ RoundUp4(k + 2) - (k + 1) = RoundUp4(k + 2) - k - 1
      /\ RoundUp4(k + 2) - k - 1 \in Nat
  BY <1>1, TagPadding
<1>3. zeros \in Seq(Cell)
  BY <1>2, ZerosType
<1>4. Padded(m.address) \in Seq(Cell) /\ <<Comma>> \in Seq(Cell)
  BY TagsOf, PaddedType, CellsAreCells
<1>5. ByStream(m) = Padded(m.address) \o <<Comma>> \o tags \o zeros \o Argument(m)
  BY <1>1, <1>2 DEF ByStream, Padded
<1> HIDE DEF tags, zeros
<1>6. Padded(m.address) \o <<Comma>> \o tags \o zeros
        = Padded(m.address) \o (<<Comma>> \o tags \o zeros)
  <2>1. <<Comma>> \o tags \in Seq(Cell)
    BY <1>1, <1>4, ConcatProperties
  <2>2. Padded(m.address) \o <<Comma>> \o tags = Padded(m.address) \o (<<Comma>> \o tags)
    BY <1>1, <1>4, Associative
  <2>3. QED
    BY <1>3, <1>4, <2>1, <2>2, Associative
<1>7. QED
  BY <1>5, <1>6 DEF Osc, TypeTags, tags, zeros

----------------------------------------------------------------------------
(* What is received                                                        *)

\* Where the parts of a message with one argument lie.
LEMMA OscCells ==
  ASSUME NEW m \in Message, Len(m.tags) = 1, NEW p \in Nat,
         p = RoundUp4(StringLength[m.address] + 1)
  PROVE  /\ Osc(m) \in Seq(Cell)
         /\ Len(Osc(m)) = p + 4 + Len(Argument(m))
         /\ \A i \in 1 .. p : Osc(m)[i] = Padded(m.address)[i]
         /\ Osc(m)[p + 1] = Comma /\ Osc(m)[p + 2] = Tag(m.tags[1])
         /\ \A i \in 1 .. Len(Argument(m)) : Osc(m)[p + 4 + i] = Argument(m)[i]
<1> DEFINE head == Padded(m.address) \o TypeTags(m)
<1>1. Padded(m.address) \in Seq(Cell) /\ Len(Padded(m.address)) = p
  BY TagsOf, PaddedType
<1>2. /\ TypeTags(m) \in Seq(Cell) /\ Len(TypeTags(m)) = 4
      /\ TypeTags(m)[1] = Comma /\ TypeTags(m)[2] = Tag(m.tags[1])
  BY TypeTagsType
<1>3. Argument(m) \in Seq(Cell) /\ Len(Argument(m)) \in Nat
  BY ArgumentType
<1>4. /\ head \in Seq(Cell) /\ Len(head) = p + 4
      /\ \A i \in 1 .. p : head[i] = Padded(m.address)[i]
      /\ \A i \in 1 .. 4 : head[p + i] = TypeTags(m)[i]
  <2>1. Padded(m.address) \in Seq(Cell) /\ TypeTags(m) \in Seq(Cell)
    BY <1>1, <1>2
  <2>2. /\ head \in Seq(Cell) /\ Len(head) = Len(Padded(m.address)) + Len(TypeTags(m))
        /\ \A i \in 1 .. Len(Padded(m.address)) : head[i] = Padded(m.address)[i]
        /\ \A i \in 1 .. Len(TypeTags(m)) : head[Len(Padded(m.address)) + i] = TypeTags(m)[i]
    BY <2>1, Joined, Zenon
  <2>3. QED
    BY <1>1, <1>2, <2>2, Zenon
<1>5. head[p + 1] = Comma /\ head[p + 2] = Tag(m.tags[1])
  <2>1. 1 \in 1 .. 4 /\ 2 \in 1 .. 4
    OBVIOUS
  <2>2. QED
    BY <1>2, <1>4, <2>1, Zenon
<1>6. Osc(m) = head \o Argument(m)
  BY DEF Osc
<1> HIDE DEF head
<1>7. p + 4 \in Nat
  OBVIOUS
<1>8. /\ Osc(m) \in Seq(Cell) /\ Len(Osc(m)) = p + 4 + Len(Argument(m))
      /\ \A i \in 1 .. p + 4 : Osc(m)[i] = head[i]
      /\ \A i \in 1 .. Len(Argument(m)) : Osc(m)[p + 4 + i] = Argument(m)[i]
  <2>1. head \in Seq(Cell) /\ Argument(m) \in Seq(Cell)
    BY <1>3, <1>4
  <2> DEFINE all == head \o Argument(m)
  <2>2. /\ all \in Seq(Cell) /\ Len(all) = Len(head) + Len(Argument(m))
        /\ \A i \in 1 .. Len(head) : all[i] = head[i]
        /\ \A i \in 1 .. Len(Argument(m)) : all[Len(head) + i] = Argument(m)[i]
    BY <2>1, Joined, Zenon
  <2>3. Len(head) = p + 4 /\ Osc(m) = all
    BY <1>4, <1>6
  <2> HIDE DEF all
  <2>4. QED
    BY <2>2, <2>3
<1>9. QED
  BY <1>4, <1>5, <1>8

\* The search for the end of a string stops at its first zero.
LEMMA EndIs ==
  ASSUME NEW buf, NEW from \in Nat, NEW e \in from .. BufferSize,
         e = BufferSize \/ buf[e] = Nul,
         \A i \in from .. e - 1 : buf[i] # Nul
  PROVE  End(buf, from) = e
<1> DEFINE IsEnd(x) == /\ x = BufferSize \/ buf[x] = Nul
                       /\ \A i \in from .. x - 1 : buf[i] # Nul
<1>1. IsEnd(e)
  OBVIOUS
<1>2. ASSUME NEW x \in from .. BufferSize, IsEnd(x)
      PROVE  x = e
  <2>1. BufferSize \in Nat /\ x \in Int /\ e \in Int
    BY DatagramAssumption
  <2>2. ~(x < e)
    BY <1>2, <2>1
  <2>3. ~(e < x)
    BY <1>2, <2>1
  <2>4. QED
    BY <2>1, <2>2, <2>3
<1>3. QED
  BY <1>1, <1>2 DEF End

LEMMA CharIsNotNul ==
  \A s, i : Char(s, i) # Nul
  BY DEF Char, Nul

\* A string in the buffer, with the zeros after it, is found whatever follows.
LEMMA StringFound ==
  ASSUME NEW buf, NEW s \in Address \cup Text, NEW from \in Nat,
         from + RoundUp4(StringLength[s] + 1) <= BufferSize,
         \A i \in 1 .. RoundUp4(StringLength[s] + 1) : buf[from + i - 1] = Padded(s)[i]
  PROVE  /\ End(buf, from) = from + StringLength[s]
         /\ Part(buf, from, End(buf, from)) = Chars(s)
<1>1. PICK n : n = StringLength[s]
  OBVIOUS
<1>2. PICK p : p = RoundUp4(n + 1)
  OBVIOUS
<1>3. n \in Nat /\ Len(Chars(s)) = n /\ Chars(s) \in Seq(Cell)
  BY <1>1, CharsType
<1>4. p \in Nat /\ p >= n + 1 /\ BufferSize \in Nat
  BY <1>2, <1>3, PaddedLength, DatagramAssumption
<1>5. \A i \in 1 .. p : buf[from + i - 1] = IF i <= n THEN Char(s, i) ELSE Nul
  BY <1>1, <1>2, PaddedType
<1>6. from + p <= BufferSize
  BY <1>1, <1>2
<1>7. buf[from + n] = Nul
  <2>1. n + 1 \in 1 .. p /\ ~(n + 1 <= n) /\ from + (n + 1) - 1 = from + n
    BY <1>3, <1>4
  <2>2. QED
    BY <1>5, <2>1
<1>8. \A i \in 1 .. n : buf[from + i - 1] = Char(s, i)
  BY <1>3, <1>4, <1>5
<1>9. \A j \in from .. from + n - 1 : buf[j] # Nul
  <2> TAKE j \in from .. from + n - 1
  <2>1. (j - from + 1) \in 1 .. n /\ from + (j - from + 1) - 1 = j
    BY <1>3
  <2>2. QED
    BY <1>8, <2>1, CharIsNotNul
<1>10. End(buf, from) = from + n
  <2>1. from + n \in from .. BufferSize
    BY <1>3, <1>4, <1>6
  <2>2. PICK e \in from .. BufferSize : e = from + n
    BY <2>1
  <2>3. buf[e] = Nul /\ \A i \in from .. e - 1 : buf[i] # Nul
    <3>1. buf[e] = Nul
      BY <1>7, <2>2
    <3>2. e - 1 = from + n - 1
      BY <1>3, <2>2
    <3>3. QED
      BY <1>9, <3>1, <3>2, Zenon
  <2>4. End(buf, from) = e
    BY <2>3, EndIs, Zenon
  <2>5. QED
    BY <2>2, <2>4
<1>11. Part(buf, from, from + n) = Chars(s)
  <2>1. (from + n) - from = n
    BY <1>3
  <2>2. Part(buf, from, from + n) = [i \in 1 .. n |-> buf[from + i - 1]]
    BY <2>1 DEF Part
  <2>3. QED
    BY <1>1, <1>8, <2>2 DEF Chars
<1>12. QED
  BY <1>1, <1>10, <1>11

\* Receiver::Run finds the address, the tag and the argument of a message,
\* whatever the buffer holds beyond it.
LEMMA DecodedIsSaid ==
  ASSUME NEW m \in Message, Len(m.tags) = 1, NEW buf, Len(Osc(m)) <= BufferSize,
         \A i \in 1 .. Len(Osc(m)) : buf[i - 1] = Osc(m)[i]
  PROVE  /\ HasTag(buf)
         /\ Decoded(buf) =
              [address |-> Chars(m.address),
               tag |-> m.tags[1],
               argument |-> IF m.tags[1] = "s" THEN Chars(m.argument) ELSE Argument(m)]
<1>1. PICK n : n = StringLength[m.address]
  OBVIOUS
<1>2. PICK p : p = RoundUp4(n + 1)
  OBVIOUS
<1>3. n \in Nat
  BY <1>1, TagsOf, CharsType
<1>4. p \in Nat /\ p = (n + 4) - ((n + 4) % 4)
  BY <1>2, <1>3, Padding, PaddedLength
<1>5. PICK l : l = Len(Argument(m))
  OBVIOUS
<1>6. l \in Nat
  BY <1>5, ArgumentType
<1>7. /\ Len(Osc(m)) = p + 4 + l
      /\ \A i \in 1 .. p : Osc(m)[i] = Padded(m.address)[i]
      /\ Osc(m)[p + 1] = Comma /\ Osc(m)[p + 2] = Tag(m.tags[1])
      /\ \A i \in 1 .. l : Osc(m)[p + 4 + i] = Argument(m)[i]
  BY <1>1, <1>2, <1>4, <1>5, OscCells
<1>8. BufferSize \in Nat /\ p + 4 + l <= BufferSize
  BY <1>7, DatagramAssumption
<1>9. \A i \in 1 .. p + 4 + l : buf[i - 1] = Osc(m)[i]
  BY <1>7
<1>10. End(buf, 0) = n /\ Part(buf, 0, End(buf, 0)) = Chars(m.address)
  <2>1. \A i \in 1 .. p : buf[0 + i - 1] = Padded(m.address)[i]
    BY <1>4, <1>6, <1>7, <1>9
  <2>2. 0 + p <= BufferSize
    BY <1>4, <1>6, <1>8
  <2>3. m.address \in Address \cup Text
    BY TagsOf
  <2>4. /\ End(buf, 0) = 0 + StringLength[m.address]
        /\ Part(buf, 0, End(buf, 0)) = Chars(m.address)
    BY <1>1, <1>2, <2>1, <2>2, <2>3, StringFound
  <2>5. QED
    BY <1>1, <1>3, <2>4
<1>11. TagsAt(buf) = p
  BY <1>4, <1>10 DEF TagsAt
<1>12. buf[p + 1].kind = m.tags[1]
  <2>1. p + 2 \in 1 .. p + 4 + l /\ (p + 2) - 1 = p + 1
    BY <1>4, <1>6
  <2>2. buf[p + 1] = Tag(m.tags[1])
    BY <1>7, <1>9, <2>1
  <2>3. QED
    BY <2>2 DEF Tag
<1>13. HasTag(buf)
  <2>1. p + 1 \in 1 .. p + 4 + l /\ (p + 1) - 1 = p
    BY <1>4, <1>6
  <2>2. buf[p] = Comma
    BY <1>7, <1>9, <2>1
  <2>3. p + 2 < BufferSize
    BY <1>4, <1>6, <1>8
  <2>4. QED
    BY <1>11, <2>2, <2>3 DEF HasTag
<1>14. \A i \in 1 .. l : buf[p + 4 + i - 1] = Argument(m)[i]
  <2> TAKE i \in 1 .. l
  <2>1. p + 4 + i \in 1 .. p + 4 + l
    BY <1>4, <1>6
  <2>2. buf[(p + 4 + i) - 1] = Argument(m)[i]
    BY <1>7, <1>9, <2>1
  <2>3. (p + 4 + i) - 1 = p + 4 + i - 1
    BY <1>4
  <2>4. QED
    BY <2>2, <2>3
<1>15. CASE m.tags[1] \in {"T", "F"}
  <2>1. Argument(m) = << >>
    BY <1>15 DEF Argument
  <2>2. QED
    BY <1>10, <1>11, <1>12, <1>13, <1>15, <2>1 DEF Decoded
<1>16. CASE m.tags[1] \in {"i", "f"}
  <2>1. m.argument \in Value /\ Argument(m) = Bytes(m.argument)
    BY <1>16, TagsOf DEF Argument
  <2>2. l = 4 /\ Bytes(m.argument) = [i \in 1 .. 4 |-> Bytes(m.argument)[i]]
    BY <1>5, <2>1, BytesType DEF Bytes
  <2>3. Part(buf, p + 4, p + 4 + 4) = [i \in 1 .. 4 |-> buf[p + 4 + i - 1]]
    <3>1. (p + 4 + 4) - (p + 4) = 4
      BY <1>4
    <3>2. QED
      BY <3>1 DEF Part
  <2>4. Part(buf, p + 4, p + 4 + 4) = Argument(m)
    BY <1>14, <2>1, <2>2, <2>3
  <2>5. p + 4 + 4 <= BufferSize
    BY <1>8, <2>2
  <2>6. QED
    BY <1>10, <1>11, <1>12, <1>13, <1>16, <2>4, <2>5 DEF Decoded
<1>17. CASE m.tags[1] = "s"
  <2>1. m.argument \in Text /\ Argument(m) = Padded(m.argument)
    BY <1>17, TagsOf DEF Argument
  <2>2. l = RoundUp4(StringLength[m.argument] + 1)
    BY <1>5, <2>1, PaddedType
  <2>3. p + 4 \in Nat
    BY <1>4
  <2>4. \A i \in 1 .. l : buf[(p + 4) + i - 1] = Padded(m.argument)[i]
    BY <1>14, <2>1
  <2>5. (p + 4) + l <= BufferSize
    BY <1>8
  <2>6. Part(buf, p + 4, End(buf, p + 4)) = Chars(m.argument)
    BY <2>1, <2>2, <2>3, <2>4, <2>5, StringFound
  <2>7. QED
    BY <1>10, <1>11, <1>12, <1>13, <1>17, <2>6 DEF Decoded
<1>18. QED
  BY <1>13, <1>15, <1>16, <1>17, TagsOf

----------------------------------------------------------------------------
(* The inductive invariant                                                 *)

IInv == TypeOK /\ SentIsOsc /\ HeardIsSaid

LEMMA FilledType ==
  ASSUME NEW d \in Seq(Cell), NEW left \in [0 .. BufferSize - 1 -> Cell]
  PROVE  Filled(d, left) \in [0 .. BufferSize - 1 -> Cell]
<1>1. ASSUME NEW i \in 0 .. BufferSize - 1
      PROVE  (IF i < Len(d) THEN d[i + 1] ELSE left[i]) \in Cell
  <2>1. CASE i < Len(d)
    <3>1. i + 1 \in 1 .. Len(d)
      BY <2>1, LenProperties
    <3>2. QED
      BY <2>1, <3>1, ElementOfSeq
  <2>2. CASE ~(i < Len(d))
    BY <2>2
  <2>3. QED
    BY <2>1, <2>2
<1>2. QED
  BY <1>1 DEF Filled

LEMMA FilledHolds ==
  ASSUME NEW d \in Seq(Cell), NEW left, Len(d) <= BufferSize
  PROVE  \A i \in 1 .. Len(d) : Filled(d, left)[i - 1] = d[i]
<1> TAKE i \in 1 .. Len(d)
<1>1. Len(d) \in Nat /\ BufferSize \in Nat
  BY LenProperties, DatagramAssumption
<1>2. i - 1 \in 0 .. BufferSize - 1 /\ i - 1 < Len(d) /\ (i - 1) + 1 = i
  BY <1>1
<1>3. QED
  BY <1>2 DEF Filled

LEMMA OscType ==
  ASSUME NEW m \in Message
  PROVE  Osc(m) \in Seq(Cell)
BY TagsOf, PaddedType, TypeTagsType, ArgumentType, ConcatProperties DEF Osc

LEMMA ReceiveKeeps ==
  ASSUME IInv, NEW says \in Message \cup {Nothing}, NEW d \in Seq(Cell), Receive(says, d),
         says # Nothing => Len(says.tags) = 1 /\ d = Osc(says)
  PROVE  IInv'
<1>1. UNCHANGED <<sent, overrun>>
  BY DEF Receive
<1>2. PICK left \in Garbage \cup {buffer} : buffer' = Filled(d, left)
  BY DEF Receive
<1>3. left \in [0 .. BufferSize - 1 -> Cell]
  BY DatagramAssumption DEF IInv, TypeOK
<1>4. buffer' \in [0 .. BufferSize - 1 -> Cell]
  BY <1>2, <1>3, FilledType
<1>5. CASE Len(d) \in 1 .. BufferSize
  <2>1. /\ heard' = [says |-> says,
                      value |-> IF HasTag(buffer') THEN Decoded(buffer') ELSE Nothing]
        /\ Len(d) <= BufferSize
    BY <1>5, DatagramAssumption DEF Receive
  <2>2. HeardIsSaid'
    <3>1. CASE says # Nothing
      <4>1. says \in Message /\ Len(says.tags) = 1 /\ d = Osc(says)
        BY <3>1
      <4>2. Len(Osc(says)) <= BufferSize
        BY <2>1, <4>1
      <4>3. \A i \in 1 .. Len(Osc(says)) : buffer'[i - 1] = Osc(says)[i]
        BY <1>2, <2>1, <4>1, FilledHolds
      <4>4. /\ HasTag(buffer')
            /\ Decoded(buffer') =
                 [address |-> Chars(says.address),
                  tag |-> says.tags[1],
                  argument |-> IF says.tags[1] = "s" THEN Chars(says.argument)
                               ELSE Argument(says)]
        BY <4>1, <4>2, <4>3, DecodedIsSaid
      <4>5. QED
        BY <2>1, <4>4 DEF HeardIsSaid
    <3>2. CASE says = Nothing
      BY <2>1, <3>2 DEF HeardIsSaid
    <3>3. QED
      BY <3>1, <3>2
  <2>3. TypeOK'
    BY <1>1, <1>4, <2>1 DEF IInv, TypeOK
  <2>4. SentIsOsc'
    BY <1>1 DEF IInv, SentIsOsc
  <2>5. QED
    BY <2>2, <2>3, <2>4 DEF IInv
<1>6. CASE ~(Len(d) \in 1 .. BufferSize)
  <2>1. UNCHANGED heard
    BY <1>6 DEF Receive
  <2>2. TypeOK'
    BY <1>1, <1>4, <2>1 DEF IInv, TypeOK
  <2>3. SentIsOsc' /\ HeardIsSaid'
    BY <1>1, <2>1 DEF IInv, SentIsOsc, HeardIsSaid
  <2>4. QED
    BY <2>2, <2>3 DEF IInv
<1>7. QED
  BY <1>5, <1>6

\* What either way of sending sends.
LEMMA Sends ==
  ASSUME NEW m \in Message, SendByHand(m) \/ SendByStream(m)
  PROVE  /\ sent' = [says |-> m, datagram |-> Osc(m)]
         /\ UNCHANGED <<buffer, heard>>
<1>1. CASE SendByHand(m)
  <2>1. Len(m.tags) = 1
    BY <1>1 DEF SendByHand
  <2>2. QED
    BY <1>1, <2>1, ByHandIsOsc DEF SendByHand
<1>2. CASE SendByStream(m)
  BY <1>2, ByStreamIsOsc DEF SendByStream
<1>3. QED
  BY <1>1, <1>2

LEMMA SendKeeps ==
  ASSUME IInv, NEW m \in Message, SendByHand(m) \/ SendByStream(m)
  PROVE  IInv'
<1>1. sent' = [says |-> m, datagram |-> Osc(m)] /\ UNCHANGED <<buffer, heard>>
  BY Sends
<1>2. overrun' \in BOOLEAN /\ (overrun => overrun')
  BY DEF IInv, TypeOK, SendByHand, SendByStream
<1>3. TypeOK'
  BY <1>1, <1>2, OscType DEF IInv, TypeOK
<1>4. SentIsOsc'
  BY <1>1 DEF SentIsOsc
<1>5. HeardIsSaid'
  BY <1>1, <1>2 DEF IInv, HeardIsSaid
<1>6. QED
  BY <1>3, <1>4, <1>5 DEF IInv

LEMMA Inductive == Spec => []IInv
<1>1. Init => IInv
  BY DatagramAssumption DEF Init, IInv, TypeOK, SentIsOsc, HeardIsSaid
<1>2. IInv /\ [Next]_vars => IInv'
  <2> SUFFICES ASSUME IInv, [Next]_vars
               PROVE  IInv'
    OBVIOUS
  <2>1. ASSUME NEW m \in Message, SendByHand(m) \/ SendByStream(m)
        PROVE  IInv'
    BY <2>1, SendKeeps
  <2>2. CASE ReceiveMessage
    <3>1. PICK m \in Message : Len(m.tags) = 1 /\ Receive(m, Osc(m))
      BY <2>2 DEF ReceiveMessage
    <3>2. QED
      BY <3>1, OscType, ReceiveKeeps
  <2>3. CASE ReceiveForeign
    <3>1. PICK d \in Foreign : Receive(Nothing, d)
      BY <2>3 DEF ReceiveForeign
    <3>2. d \in Seq(Cell)
      BY DatagramAssumption
    <3>3. QED
      BY <3>1, <3>2, ReceiveKeeps
  <2>4. CASE UNCHANGED vars
    BY <2>4 DEF vars, IInv, TypeOK, SentIsOsc, HeardIsSaid
  <2>5. QED
    BY <2>1, <2>2, <2>3, <2>4 DEF Next
<1>3. QED
  BY <1>1, <1>2, PTL DEF Spec

----------------------------------------------------------------------------
(* Theorems                                                                *)

\* Typing: what is sent and heard is always as the variables are declared, and
\* Run never writes beyond its buffer.
THEOREM DatagramTyping == Spec => []TypeOK
<1>1. IInv => TypeOK
  BY DEF IInv
<1>2. QED
  BY <1>1, Inductive, PTL

\* Transmitter's two encoders lay out every message, of any length, as OSC does.
THEOREM SendsOsc == Spec => []SentIsOsc
<1>1. IInv => SentIsOsc
  BY DEF IInv
<1>2. QED
  BY <1>1, Inductive, PTL

\* Receiver::Run reads out of every message that fits its buffer what it says.
THEOREM HearsWhatIsSaid == Spec => []HeardIsSaid
<1>1. IInv => HeardIsSaid
  BY DEF IInv
<1>2. QED
  BY <1>1, Inductive, PTL

\* How long what SendBool and SendInt write may be.
LEMMA ByHandLength ==
  ASSUME NEW m \in Message, m.tags \in {<<"T">>, <<"F">>, <<"i">>}
  PROVE  Len(ByHand(m)) <= StringLength[m.address] + 12
<1>1. Len(m.tags) = 1 /\ m.tags[1] # "s"
  OBVIOUS
<1>2. PICK n : n = StringLength[m.address]
  OBVIOUS
<1>3. PICK p : p = RoundUp4(n + 1)
  OBVIOUS
<1>4. n \in Nat
  BY <1>2, TagsOf, CharsType
<1>5. p \in Nat /\ p <= n + 4
  BY <1>3, <1>4, PaddedLength
<1>6. PICK l : l = Len(Argument(m))
  OBVIOUS
<1>7. l = 0 \/ l = 4
  <2>1. CASE m.tags[1] \in {"T", "F"}
    BY <1>6, <2>1 DEF Argument
  <2>2. CASE m.tags[1] \in {"i", "f"}
    BY <1>6, <2>2, TagsOf, BytesType DEF Argument
  <2>3. QED
    BY <1>1, <2>1, <2>2, TagsOf
<1>8. Len(Osc(m)) = p + 4 + l
  BY <1>1, <1>2, <1>3, <1>5, <1>6, OscCells
<1>9. Len(ByHand(m)) = p + 4 + l
  BY <1>1, <1>8, ByHandIsOsc
<1>10. QED
  BY <1>2, <1>4, <1>5, <1>7, <1>9

\* SendBool and SendInt stay within tmp for every address that leaves twelve
\* bytes of it, and nothing else ever leaves it.
THEOREM OverrunOnlyIfLong == Spec => [][OverrunNeedsLongAddress]_vars
<1>1. IInv /\ [Next]_vars => [OverrunNeedsLongAddress]_vars
  <2> SUFFICES ASSUME IInv, Next, overrun', ~overrun
               PROVE  StringLength[sent'.says.address] + 12 > Capacity
    BY DEF OverrunNeedsLongAddress
  <2>1. PICK m \in Message : SendByHand(m) \/ SendByStream(m)
    BY DEF Next, ReceiveMessage, ReceiveForeign, Receive
  <2>2. SendByHand(m)
    BY <2>1 DEF SendByStream
  <2>3. sent'.says = m
    BY <2>2 DEF SendByHand
  <2>4. Len(ByHand(m)) > Capacity
    BY <2>2 DEF SendByHand
  <2>5. Len(ByHand(m)) <= StringLength[m.address] + 12
    BY <2>2, ByHandLength DEF SendByHand
  <2>6. PICK k \in Int : k = Len(ByHand(m))
    <3>1. ByHand(m) \in Seq(Cell)
      BY <2>2, ByHandIsOsc, OscType DEF SendByHand
    <3>2. QED
      BY <3>1, LenProperties
  <2>7. StringLength[m.address] \in Nat /\ Capacity \in Nat
    BY TagsOf, CharsType, DatagramAssumption
  <2>8. StringLength[m.address] + 12 > Capacity
    BY <2>4, <2>5, <2>6, <2>7
  <2>9. QED
    BY <2>3, <2>8
<1>2. QED
  BY <1>1, Inductive, PTL DEF Spec

\* Transmitter sends OSC, from a buffer it only leaves for a long address.
THEOREM SendsFromTmp == Spec => SendsOscFromTmp
<1>1. SentIsOsc' /\ [OverrunNeedsLongAddress]_vars
        => [SentIsOsc' /\ OverrunNeedsLongAddress]_vars
  OBVIOUS
<1>2. QED
  BY <1>1, SendsOsc, OverrunOnlyIfLong, PTL DEF SendsOscFromTmp

=============================================================================

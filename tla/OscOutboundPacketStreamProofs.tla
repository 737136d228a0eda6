--------------------- MODULE OscOutboundPacketStreamProofs ---------------------
(***************************************************************************)
(* Proofs about OscOutboundPacketStream, for every capacity of the buffer  *)
(* and every length of addresses and arguments.                            *)
(***************************************************************************)
EXTENDS OscOutboundPacketStream, SequenceTheorems, TLAPS

\* Rounding up gives the next multiple of four.
LEMMA RoundUp4Properties ==
  ASSUME NEW x \in Nat
  PROVE  /\ RoundUp4(x) \in Nat
         /\ x <= RoundUp4(x) /\ RoundUp4(x) <= x + 3
         /\ RoundUp4(x) % 4 = 0
  BY DEF RoundUp4

\* Arguments keep what follows them aligned.
LEMMA ArgumentBytesProperties ==
  ASSUME NEW bytes \in ArgumentBytes
  PROVE  bytes \in Nat /\ bytes % 4 = 0
<1>1. CASE bytes \in {0, 4, 8}
  BY <1>1
<1>2. ASSUME NEW n \in StringLengths, bytes = RoundUp4(n + 1)
      PROVE  bytes \in Nat /\ bytes % 4 = 0
  BY <1>2, SizesAssumption, RoundUp4Properties
<1>3. ASSUME NEW n \in BlobSizes, bytes = 4 + RoundUp4(n)
      PROVE  bytes \in Nat /\ bytes % 4 = 0
  <2>1. n \in Nat /\ RoundUp4(n) \in Nat /\ RoundUp4(n) % 4 = 0
    BY SizesAssumption, RoundUp4Properties
  <2> QED
    BY <2>1, <1>3
<1> QED
  BY <1>1, <1>2, <1>3 DEF ArgumentBytes

----------------------------------------------------------------------------
(* The inductive invariant                                                 *)

\* The arguments follow the cursor; without type tags there are none.
Cursors ==
  /\ messageCursor <= argumentCurrent
  /\ messageIsInProgress /\ typeTags = 0 => argumentCurrent = messageCursor

\* The open elements begin one after the other, below the cursor.
OpenInOrder ==
  /\ open # << >> => open[1] = Data
  /\ \A i \in 2 .. Len(open) : open[i] # Data /\ open[i] + 4 <= messageCursor
  /\ \A i, j \in 1 .. Len(open) : i < j => open[i] < open[j]
  /\ open # << >> => 0 < messageCursor

\* A slot that holds a size is a slot, below the cursor, and not that of an open
\* element.
SizedAreClosed ==
  \A p \in sized :
    p # Data /\ p < messageCursor /\ \A i \in 1 .. Len(open) : open[i] # p

\* The part of the invariant that is about elements, and the part about bytes.
Elements ==
  /\ elementSizePtr \in {NoElement} \cup 0 .. Capacity
  /\ slot \in [0 .. Capacity -> 0 .. Capacity]
  /\ open \in Seq(0 .. Capacity)
  /\ sized \subseteq 0 .. Capacity
  /\ ChainVisitsOpenElements
  /\ OpenInOrder
  /\ SizedAreClosed

Regions ==
  /\ typeTags \in 0 .. Capacity
  /\ messageCursor \in 0 .. Capacity
  /\ argumentCurrent \in 0 .. Capacity
  /\ messageIsInProgress \in BOOLEAN
  /\ MessageCanBeClosed
  /\ Aligned
  /\ Cursors

IInv == Elements /\ Regions /\ ElementIsOpenInMessage

----------------------------------------------------------------------------
(* Elements                                                                *)

\* The last element of a sequence with one element is its first.
LEMMA OneOnly ==
  ASSUME NEW n \in Nat, n # 0, n \notin 2 .. n
  PROVE  n = 1
  OBVIOUS

\* An element that begins at the cursor becomes the innermost one.
LEMMA BeginElementKeepsElements ==
  ASSUME Elements, messageCursor \in 0 .. Capacity, messageCursor' \in 0 .. Capacity,
         BeginElement(messageCursor),
         messageCursor' >= messageCursor + ElementSizeSlot + 4
  PROVE  Elements' /\ elementSizePtr' # NoElement /\ open' # << >>
<1> USE DEF Elements
<1>0. Capacity \in Nat /\ NoElement = -1 /\ Data = 0
  BY SizesAssumption DEF NoElement, Data
<1>positions. \A i \in 1 .. Len(open) : open[i] \in 0 .. Capacity
  BY ElementOfSeq
<1>1. CASE elementSizePtr = NoElement
  <2>1. /\ elementSizePtr' = Data /\ open' = <<Data>>
        /\ slot' = slot /\ sized' = sized
    BY <1>1 DEF BeginElement
  <2>2. ElementSizeSlot = 0
    BY <1>1 DEF ElementSizeSlot
  <2>3. open' \in Seq(0 .. Capacity) /\ Len(open') = 1 /\ open'[1] = Data
    BY <2>1, <1>0
  <2>4. ChainVisitsOpenElements'
    BY <2>1, <2>3 DEF ChainVisitsOpenElements
  <2>5. OpenInOrder'
    BY <2>1, <2>2, <2>3, <1>0 DEF OpenInOrder
  <2>6. SizedAreClosed'
    <3> SUFFICES ASSUME NEW p \in sized PROVE p < messageCursor' /\ p # Data
      BY <2>1, <2>3 DEF SizedAreClosed
    <3> QED
      BY <2>2, <1>0 DEF SizedAreClosed
  <2> QED
    BY <2>1, <2>3, <2>4, <2>5, <2>6, <1>0
<1>2. CASE elementSizePtr # NoElement
  <2>1. /\ elementSizePtr' = messageCursor /\ open' = Append(open, messageCursor)
        /\ slot' = [slot EXCEPT ![messageCursor] = elementSizePtr] /\ sized' = sized
    BY <1>2 DEF BeginElement
  <2>2. ElementSizeSlot = 4
    BY <1>2 DEF ElementSizeSlot
  <2>3. open # << >> /\ elementSizePtr = open[Len(open)] /\ 0 < messageCursor
    BY <1>2 DEF ChainVisitsOpenElements, OpenInOrder
  <2>4. /\ open' \in Seq(0 .. Capacity) /\ Len(open') = Len(open) + 1
        /\ open'[Len(open')] = messageCursor
        /\ \A i \in 1 .. Len(open) : open'[i] = open[i]
        /\ Len(open) \in Nat /\ Len(open) >= 1
    BY <2>1, <2>3
  <2>5. \A i \in 1 .. Len(open) : open[i] \in 0 .. Capacity /\ open[i] < messageCursor
    <3> SUFFICES ASSUME NEW i \in 1 .. Len(open)
                 PROVE  open[i] \in 0 .. Capacity /\ open[i] < messageCursor
      OBVIOUS
    <3>1. open[i] \in 0 .. Capacity
      BY <1>positions
    <3>2. CASE i = 1
      BY <3>1, <3>2, <2>3, <1>0 DEF OpenInOrder
    <3>3. CASE i \in 2 .. Len(open)
      BY <3>1, <3>3 DEF OpenInOrder
    <3> QED
      BY <3>1, <3>2, <3>3, <2>4
  <2>6. slot' \in [0 .. Capacity -> 0 .. Capacity]
    BY <2>1, <1>2
  <2>7. ChainVisitsOpenElements'
    <3>1. ASSUME NEW i \in 2 .. Len(open') PROVE slot'[open'[i]] = open'[i - 1]
      <4>1. CASE i = Len(open')
        BY <4>1, <2>1, <2>3, <2>4
      <4>2. CASE i \in 2 .. Len(open)
        <5>1. open'[i] = open[i] /\ open'[i - 1] = open[i - 1]
          BY <4>2, <2>4
        <5>2. slot'[open[i]] = slot[open[i]]
          BY <4>2, <2>1, <2>5
        <5> QED
          BY <4>2, <5>1, <5>2 DEF ChainVisitsOpenElements
      <4> QED
        BY <4>1, <4>2, <2>4
    <3> QED
      BY <3>1, <2>1, <2>4 DEF ChainVisitsOpenElements
  <2>8. OpenInOrder'
    <3>1. open'[1] = Data
      BY <2>3, <2>4 DEF OpenInOrder
    <3>2. ASSUME NEW i \in 2 .. Len(open')
          PROVE  open'[i] # Data /\ open'[i] + 4 <= messageCursor'
      <4>1. CASE i = Len(open')
        BY <4>1, <2>2, <2>3, <2>4, <1>0
      <4>2. CASE i \in 2 .. Len(open)
        BY <4>2, <2>2, <2>4, <2>5 DEF OpenInOrder
      <4> QED
        BY <4>1, <4>2, <2>4
    <3>3. ASSUME NEW i \in 1 .. Len(open'), NEW j \in 1 .. Len(open'), i < j
          PROVE  open'[i] < open'[j]
      <4>1. CASE j = Len(open')
        BY <3>3, <4>1, <2>4, <2>5
      <4>2. CASE j \in 1 .. Len(open)
        BY <3>3, <4>2, <2>4 DEF OpenInOrder
      <4> QED
        BY <4>1, <4>2, <2>4
    <3>4. 0 < messageCursor'
      BY <2>2
    <3> QED
      BY <3>1, <3>2, <3>3, <3>4 DEF OpenInOrder
  <2>9. SizedAreClosed'
    <3> SUFFICES ASSUME NEW p \in sized
                 PROVE  /\ p # Data /\ p < messageCursor'
                        /\ \A i \in 1 .. Len(open') : open'[i] # p
      BY <2>1 DEF SizedAreClosed
    <3>1. p \in 0 .. Capacity /\ p < messageCursor /\ p # Data
      BY DEF SizedAreClosed
    <3> QED
      BY <3>1, <2>2, <2>4 DEF SizedAreClosed
  <2> QED
    <3>1. elementSizePtr' \in 0 .. Capacity /\ elementSizePtr' # NoElement
      BY <2>1, <1>0
    <3>2. open' # << >>
      BY <2>4
    <3>3. sized' \subseteq 0 .. Capacity
      BY <2>1
    <3> QED
      BY <3>1, <3>2, <3>3, <2>4, <2>6, <2>7, <2>8, <2>9
<1> QED
  BY <1>1, <1>2

\* Closing the innermost element makes the one around it the innermost.
LEMMA EndElementKeepsElements ==
  ASSUME Elements, messageCursor \in 0 .. Capacity, messageCursor' \in 0 .. Capacity,
         elementSizePtr # NoElement,
         EndElement(messageCursor'),
         messageCursor' >= messageCursor
  PROVE  Elements'
<1> USE DEF Elements
<1>0. Capacity \in Nat /\ NoElement = -1 /\ Data = 0
  BY SizesAssumption DEF NoElement, Data
<1>positions. \A i \in 1 .. Len(open) : open[i] \in 0 .. Capacity
  BY ElementOfSeq
<1>1. open # << >> /\ elementSizePtr = open[Len(open)] /\ Len(open) \in Nat \ {0}
  BY DEF ChainVisitsOpenElements
<1>2. /\ open' = SubSeq(open, 1, Len(open) - 1)
      /\ open' \in Seq(0 .. Capacity)
      /\ Len(open') = Len(open) - 1
      /\ \A i \in 1 .. Len(open') : open'[i] = open[i]
  <2>1. open' = SubSeq(open, 1, Len(open) - 1)
    BY DEF EndElement
  <2>2. 1 \in 1 .. Len(open) + 1 /\ Len(open) - 1 \in 1 - 1 .. Len(open)
    BY <1>1
  <2>3. /\ SubSeq(open, 1, Len(open) - 1) \in Seq(0 .. Capacity)
        /\ Len(SubSeq(open, 1, Len(open) - 1)) = Len(open) - 1
        /\ \A i \in 1 .. Len(open) - 1 : SubSeq(open, 1, Len(open) - 1)[i] = open[i]
    <3>1. \A i \in 1 .. Len(open) - 1 : open[i] \in 0 .. Capacity
      BY <1>1, <1>positions
    <3>2. 1 \in Int /\ Len(open) - 1 \in Int
      BY <1>1
    <3> HIDE DEF Elements
    <3>3. /\ SubSeq(open, 1, Len(open) - 1) \in Seq(0 .. Capacity)
          /\ Len(SubSeq(open, 1, Len(open) - 1))
               = IF 1 <= Len(open) - 1 THEN Len(open) - 1 - 1 + 1 ELSE 0
          /\ \A i \in 1 .. Len(open) - 1 - 1 + 1 :
               SubSeq(open, 1, Len(open) - 1)[i] = open[1 + i - 1]
      BY <3>1, <3>2, SubSeqProperties
    <3>4. Len(open) \in Nat /\ Len(open) >= 1
      BY <1>1
    <3> DEFINE n == Len(open)
               f == SubSeq(open, 1, n - 1)
    <3>5. f \in Seq(0 .. Capacity) /\ Len(f) = n - 1
      <4>1. f \in Seq(0 .. Capacity)
        BY <3>3, Zenon
      <4>2. Len(f) = IF 1 <= n - 1 THEN n - 1 - 1 + 1 ELSE 0
        BY <3>3, Zenon
      <4>3. n \in Nat /\ n >= 1
        BY <3>4
      <4> HIDE DEF n, f
      <4>4. Len(f) = n - 1
        BY <4>2, <4>3
      <4> QED
        BY <4>1, <4>4
    <3>6. ASSUME NEW i \in 1 .. n - 1 PROVE f[i] = open[i]
      <4>1. i \in 1 .. n - 1 - 1 + 1 /\ 1 + i - 1 = i
        BY <3>4
      <4> QED
        BY <4>1, <3>3
    <3> QED
      BY <3>5, <3>6
  <2> QED
    BY <2>1, <2>3
<1>3. OpenInOrder'
  <2>1. \A i \in 1 .. Len(open') : i \in 1 .. Len(open)
    BY <1>1, <1>2
  <2>2. open' # << >> => open'[1] = Data /\ 0 < messageCursor'
    BY <1>1, <1>2 DEF OpenInOrder
  <2>3. ASSUME NEW i \in 2 .. Len(open')
        PROVE  open'[i] # Data /\ open'[i] + 4 <= messageCursor'
    <3>1. i \in 2 .. Len(open) /\ i \in 1 .. Len(open) /\ open'[i] = open[i]
      BY <1>1, <1>2
    <3>2. open[i] \in 0 .. Capacity /\ open[i] # Data /\ open[i] + 4 <= messageCursor
      BY <3>1, <1>positions DEF OpenInOrder
    <3> QED
      BY <3>1, <3>2
  <2>4. ASSUME NEW i \in 1 .. Len(open'), NEW j \in 1 .. Len(open'), i < j
        PROVE  open'[i] < open'[j]
    BY <2>1, <2>4, <1>2 DEF OpenInOrder
  <2> QED
    BY <2>2, <2>3, <2>4 DEF OpenInOrder
<1>4. CASE elementSizePtr = Data
  <2>1. elementSizePtr' = NoElement /\ slot' = slot /\ sized' = sized
    BY <1>4 DEF EndElement
  <2>2. Len(open) = 1
    <3>1. ~ (Len(open) \in 2 .. Len(open))
      BY <1>1, <1>4 DEF OpenInOrder
    <3>2. Len(open) \in Nat /\ Len(open) # 0
      BY <1>1
    <3> HIDE DEF Elements
    <3> QED
      BY <3>1, <3>2, OneOnly, Zenon
  <2>3. open' = << >>
    BY <1>2, <2>2
  <2>4. ChainVisitsOpenElements'
    BY <2>1, <2>3 DEF ChainVisitsOpenElements
  <2>5. SizedAreClosed'
    BY <2>1, <2>3 DEF SizedAreClosed
  <2> QED
    BY <1>2, <1>3, <2>1, <2>4, <2>5
<1>5. CASE elementSizePtr # Data
  <2>1. /\ elementSizePtr' = slot[elementSizePtr]
        /\ slot' = [slot EXCEPT ![elementSizePtr] = messageCursor' - elementSizePtr - 4]
        /\ sized' = sized \cup {elementSizePtr}
    BY <1>5 DEF EndElement
  <2>2. Len(open) >= 2
    BY <1>1, <1>5 DEF OpenInOrder
  <2>3. elementSizePtr \in 0 .. Capacity /\ elementSizePtr + 4 <= messageCursor
    <3>1. Len(open) \in 2 .. Len(open) /\ Len(open) \in 1 .. Len(open)
      BY <1>1, <2>2
    <3>2. open[Len(open)] \in 0 .. Capacity /\ open[Len(open)] + 4 <= messageCursor
      BY <3>1, <1>positions DEF OpenInOrder
    <3> QED
      BY <3>2, <1>1
  <2>4. messageCursor' - elementSizePtr - 4 \in 0 .. Capacity
    <3> HIDE DEF Elements
    <3> DEFINE end == messageCursor'
               at == elementSizePtr
    <3>1. end \in Int /\ end <= Capacity /\ at \in Int /\ 0 <= at /\ at + 4 <= end
      BY <2>3, <1>0
    <3> HIDE DEF end, at
    <3>2. end - at - 4 \in 0 .. Capacity
      BY <3>1, <1>0
    <3> QED
      BY <3>2 DEF end, at
  <2>5. slot' \in [0 .. Capacity -> 0 .. Capacity] /\ sized' \subseteq 0 .. Capacity
    BY <2>1, <2>3, <2>4
  <2>6. slot[open[Len(open)]] = open[Len(open) - 1]
    BY <1>1, <2>2 DEF ChainVisitsOpenElements
  <2>7. open' # << >> /\ elementSizePtr' = open'[Len(open')] /\ elementSizePtr' \in 0 .. Capacity
    <3>1. Len(open') \in 1 .. Len(open') /\ Len(open') = Len(open) - 1
      BY <1>1, <1>2, <2>2
    <3>2. elementSizePtr' = open[Len(open) - 1]
      BY <1>1, <2>1, <2>6
    <3>3. open[Len(open) - 1] = open'[Len(open')]
      BY <3>1, <1>2
    <3>4. open'[Len(open')] \in 0 .. Capacity
      BY <3>1, <1>2
    <3> QED
      BY <3>1, <3>2, <3>3, <3>4
  <2>8. \A i \in 1 .. Len(open') : open'[i] # elementSizePtr
    BY <1>1, <1>2 DEF OpenInOrder
  <2>9. ChainVisitsOpenElements'
    <3> SUFFICES ASSUME NEW i \in 2 .. Len(open') PROVE slot'[open'[i]] = open'[i - 1]
      BY <2>7 DEF ChainVisitsOpenElements
    <3>1. /\ i \in 2 .. Len(open) /\ i \in 1 .. Len(open') /\ i - 1 \in 1 .. Len(open')
      BY <1>1, <1>2
    <3>2. slot'[open'[i]] = slot[open'[i]]
      BY <3>1, <2>1, <2>8, <1>2
    <3> QED
      BY <3>1, <3>2, <1>2 DEF ChainVisitsOpenElements
  <2>10. SizedAreClosed'
    <3> SUFFICES ASSUME NEW p \in sized'
                 PROVE  /\ p # Data /\ p < messageCursor'
                        /\ \A i \in 1 .. Len(open') : open'[i] # p
      BY DEF SizedAreClosed
    <3>1. CASE p = elementSizePtr
      BY <3>1, <1>5, <2>3, <2>8
    <3>2. CASE p \in sized
      <4>1. p \in 0 .. Capacity /\ p # Data /\ p < messageCursor
            /\ \A i \in 1 .. Len(open) : open[i] # p
        BY <3>2 DEF SizedAreClosed
      <4> QED
        BY <4>1, <1>1, <1>2
    <3> QED
      BY <3>1, <3>2, <2>1
  <2> QED
    BY <1>2, <1>3, <2>5, <2>7, <2>9, <2>10
<1> QED
  BY <1>4, <1>5

----------------------------------------------------------------------------
(* The operations                                                          *)

\* The numbers behind the names.
LEMMA Numbers ==
  ASSUME Regions
  PROVE  /\ Capacity \in Nat /\ NoElement = -1 /\ Data = 0
         /\ ElementSizeSlot \in {0, 4}
         /\ ~messageIsInProgress => Size = argumentCurrent
         /\ RoundUp4(typeTags + 2) \in Nat /\ RoundUp4(typeTags + 2) >= typeTags + 2
         /\ RoundUp4(typeTags + 2) % 4 = 0
         /\ messageIsInProgress => Size = argumentCurrent + RoundUp4(typeTags + 2)
<1>1. typeTags + 2 \in Nat
  BY SizesAssumption DEF Regions
<1> QED
  BY <1>1, SizesAssumption, RoundUp4Properties
     DEF Regions, NoElement, Data, ElementSizeSlot, Size

LEMMA BeginBundleKeepsIInv ==
  ASSUME IInv, BeginBundle
  PROVE  IInv'
<1>0. Regions /\ Elements
  BY DEF IInv
<1>1. /\ ~messageIsInProgress /\ typeTags' = typeTags
      /\ messageIsInProgress' = messageIsInProgress
      /\ messageCursor' = messageCursor + ElementSizeSlot + 16
      /\ argumentCurrent' = messageCursor'
      /\ BeginElement(messageCursor)
      /\ argumentCurrent + ElementSizeSlot + 16 <= Capacity
  BY <1>0, Numbers DEF BeginBundle, BundleFits, Regions
<1>2. /\ messageCursor \in 0 .. Capacity /\ argumentCurrent \in 0 .. Capacity
      /\ messageCursor <= argumentCurrent /\ messageCursor % 4 = 0
  BY <1>0 DEF Regions, Cursors, Aligned
<1>3. messageCursor' \in 0 .. Capacity /\ messageCursor' % 4 = 0
  BY <1>0, <1>1, <1>2, Numbers
<1>4. messageCursor' >= messageCursor + ElementSizeSlot + 4
  BY <1>0, <1>1, <1>2, Numbers
<1>5. Elements'
  BY <1>0, <1>1, <1>2, <1>3, <1>4, BeginElementKeepsElements
<1>6. MessageCanBeClosed' /\ ElementIsOpenInMessage'
  BY <1>1 DEF MessageCanBeClosed, ElementIsOpenInMessage
<1>7. Aligned' /\ Cursors'
  BY <1>1, <1>3 DEF Aligned, Cursors
<1> QED
  BY <1>0, <1>1, <1>3, <1>5, <1>6, <1>7 DEF IInv, Regions

LEMMA BeginMessageKeepsIInv ==
  ASSUME IInv, NEW address \in AddressLengths, BeginMessage(address)
  PROVE  IInv'
<1>0. Regions /\ Elements
  BY DEF IInv
<1> DEFINE pattern == RoundUp4(address + 1)
<1>1. pattern \in Nat /\ pattern >= 4 /\ pattern % 4 = 0
  <2>1. address + 1 \in Nat /\ address + 1 >= 1
    BY SizesAssumption
  <2>2. pattern \in Nat /\ pattern >= 1 /\ pattern % 4 = 0
    BY <2>1, RoundUp4Properties
  <2> HIDE DEF pattern
  <2> QED
    BY <2>2
<1> HIDE DEF pattern
<1>2. /\ ~messageIsInProgress /\ messageIsInProgress' = TRUE /\ typeTags' = 0
      /\ messageCursor' = messageCursor + ElementSizeSlot + pattern
      /\ argumentCurrent' = messageCursor'
      /\ BeginElement(messageCursor)
      /\ argumentCurrent + ElementSizeSlot + pattern + 4 <= Capacity
  BY <1>0, Numbers DEF BeginMessage, MessageFits, Regions, pattern
<1>3. /\ messageCursor \in 0 .. Capacity /\ argumentCurrent \in 0 .. Capacity
      /\ messageCursor <= argumentCurrent /\ messageCursor % 4 = 0
  BY <1>0 DEF Regions, Cursors, Aligned
<1>n. Capacity \in Nat /\ ElementSizeSlot \in {0, 4}
  BY <1>0, Numbers
<1>5. messageCursor' >= messageCursor + ElementSizeSlot + 4
  BY <1>1, <1>2, <1>3, <1>n
<1>6. messageCursor' \in 0 .. Capacity /\ messageCursor' + 4 \in 0 .. Capacity
  BY <1>1, <1>2, <1>3, <1>n
<1>4. messageCursor' % 4 = 0
  BY <1>1, <1>2, <1>3, <1>n
<1>7. Elements' /\ elementSizePtr' # NoElement
  BY <1>0, <1>2, <1>3, <1>5, <1>6, BeginElementKeepsElements
<1>8. Size' = messageCursor' + 4
  BY <1>2 DEF Size, RoundUp4
<1>9. MessageCanBeClosed' /\ ElementIsOpenInMessage'
  <2>1. Size' <= Capacity
    <3>1. \A c \in 0 .. Capacity : c <= Capacity
      BY <1>n
    <3> QED
      BY <3>1, <1>6, <1>8, Zenon
  <2> QED
    BY <2>1, <1>7 DEF MessageCanBeClosed, ElementIsOpenInMessage
<1>10. Aligned' /\ Cursors'
  BY <1>2, <1>4, <1>6 DEF Aligned, Cursors
<1>11. typeTags' \in 0 .. Capacity
  BY <1>0, <1>2, Numbers
<1> QED
  BY <1>2, <1>6, <1>7, <1>9, <1>10, <1>11 DEF IInv, Regions

\* The cursor ends up where Size said it would.
LEMMA EndMessageCursor ==
  ASSUME IInv, EndMessage
  PROVE  /\ messageCursor' = Size /\ Size' = Size
         /\ messageCursor' \in 0 .. Capacity /\ messageCursor' % 4 = 0
         /\ messageCursor' >= messageCursor
<1>0. Regions
  BY DEF IInv
<1>1. /\ typeTags \in Nat /\ messageCursor \in 0 .. Capacity
      /\ argumentCurrent \in 0 .. Capacity /\ messageCursor <= argumentCurrent
      /\ typeTags = 0 => argumentCurrent = messageCursor
      /\ argumentCurrent % 4 = 0
      /\ Size <= Capacity
  BY <1>0, Numbers DEF EndMessage, Regions, Cursors, Aligned, MessageCanBeClosed
<1>2. RoundUp4(0 + 2) = 4
  BY DEF RoundUp4
<1>n. RoundUp4(typeTags + 2) \in Nat /\ Size = argumentCurrent + RoundUp4(typeTags + 2)
  BY <1>0, Numbers DEF EndMessage
<1>3. messageCursor' = Size
  <2>1. CASE typeTags > 0
    <3>1. messageCursor' = messageCursor + RoundUp4(typeTags + 2)
                             + (argumentCurrent - messageCursor)
      BY <2>1 DEF EndMessage
    <3> DEFINE tags == RoundUp4(typeTags + 2)
    <3>2. tags \in Nat /\ Size = argumentCurrent + tags
          /\ messageCursor' = messageCursor + tags + (argumentCurrent - messageCursor)
      BY <3>1, <1>n
    <3> HIDE DEF tags
    <3> QED
      BY <3>2, <1>1
  <2>2. CASE typeTags = 0
    <3>1. messageCursor' = messageCursor + 4
      BY <2>2 DEF EndMessage
    <3>2. RoundUp4(typeTags + 2) = 4 /\ argumentCurrent = messageCursor
      BY <2>2, <1>1, <1>2
    <3> QED
      BY <3>1, <3>2, <1>1, <1>n
  <2> QED
    BY <2>1, <2>2, <1>1
<1>4. Size' = messageCursor'
  BY DEF EndMessage, Size
<1> QED
  BY <1>0, <1>1, <1>3, <1>4, Numbers DEF EndMessage

LEMMA EndMessageKeepsIInv ==
  ASSUME IInv, EndMessage
  PROVE  IInv'
<1>0. Regions /\ Elements
  BY DEF IInv
<1>1. /\ messageIsInProgress /\ messageIsInProgress' = FALSE /\ typeTags' = 0
      /\ argumentCurrent' = messageCursor' /\ EndElement(messageCursor')
  BY DEF EndMessage
<1>2. elementSizePtr # NoElement
  BY <1>1 DEF IInv, ElementIsOpenInMessage
<1>3. messageCursor \in 0 .. Capacity
  BY <1>0 DEF Regions
<1>4. Elements'
  BY <1>0, <1>1, <1>2, <1>3, EndMessageCursor, EndElementKeepsElements
<1>5. Aligned' /\ Cursors'
  BY <1>1, EndMessageCursor DEF Aligned, Cursors
<1>6. MessageCanBeClosed' /\ ElementIsOpenInMessage'
  BY <1>1 DEF MessageCanBeClosed, ElementIsOpenInMessage
<1>7. typeTags' \in 0 .. Capacity
  BY <1>0, <1>1, Numbers
<1> QED
  BY <1>1, <1>4, <1>5, <1>6, <1>7, EndMessageCursor DEF IInv, Regions

LEMMA EndBundleKeepsIInv ==
  ASSUME IInv, EndBundle
  PROVE  IInv'
<1>0. Regions /\ Elements
  BY DEF IInv
<1>1. /\ ~messageIsInProgress /\ elementSizePtr # NoElement
      /\ UNCHANGED <<typeTags, messageCursor, argumentCurrent, messageIsInProgress>>
      /\ EndElement(messageCursor')
  BY DEF EndBundle
<1>2. messageCursor \in 0 .. Capacity /\ messageCursor' \in 0 .. Capacity
      /\ messageCursor' >= messageCursor
  BY <1>0, <1>1, Numbers DEF Regions
<1>3. Elements'
  BY <1>0, <1>1, <1>2, EndElementKeepsElements
<1>4. MessageCanBeClosed' /\ ElementIsOpenInMessage'
  BY <1>1 DEF MessageCanBeClosed, ElementIsOpenInMessage
<1>5. Aligned' /\ Cursors'
  BY <1>0, <1>1 DEF Regions, Aligned, Cursors
<1> QED
  BY <1>0, <1>1, <1>3, <1>4, <1>5 DEF IInv, Regions

LEMMA AddArgumentKeepsIInv ==
  ASSUME IInv, NEW bytes \in ArgumentBytes, AddArgument(bytes)
  PROVE  IInv'
<1>0. Regions /\ Elements
  BY DEF IInv
<1>1. bytes \in Nat /\ bytes % 4 = 0
  BY ArgumentBytesProperties
<1>2. /\ typeTags' = typeTags + 1 /\ argumentCurrent' = argumentCurrent + bytes
      /\ UNCHANGED <<messageCursor, elementSizePtr, messageIsInProgress, slot, open, sized>>
      /\ argumentCurrent + bytes + RoundUp4(typeTags + 3) <= Capacity
  BY DEF AddArgument, ArgumentFits
<1>3. /\ typeTags \in Nat /\ argumentCurrent \in Nat /\ messageCursor \in Nat
      /\ argumentCurrent % 4 = 0 /\ messageCursor <= argumentCurrent
      /\ Capacity \in Nat
  BY <1>0, Numbers DEF Regions, Aligned, Cursors
<1>4. RoundUp4(typeTags + 3) \in Nat /\ RoundUp4(typeTags + 3) >= typeTags + 3
  BY <1>3, RoundUp4Properties
<1>5. typeTags' \in 0 .. Capacity /\ argumentCurrent' \in 0 .. Capacity
  BY <1>1, <1>2, <1>3, <1>4
<1>6. argumentCurrent' % 4 = 0
  BY <1>1, <1>2, <1>3
<1>7. Aligned'
  BY <1>0, <1>2, <1>6 DEF Regions, Aligned
<1>8. Cursors'
  BY <1>1, <1>2, <1>3 DEF Cursors
<1>9. MessageCanBeClosed'
  <2>1. typeTags' + 2 = typeTags + 3
    BY <1>2, <1>3
  <2>2. RoundUp4(typeTags' + 2) = RoundUp4(typeTags + 3)
    BY <2>1
  <2> SUFFICES ASSUME messageIsInProgress' PROVE Size' <= Capacity
    BY DEF MessageCanBeClosed
  <2>3. Size' = argumentCurrent' + RoundUp4(typeTags' + 2)
    BY DEF Size
  <2> QED
    BY <2>2, <2>3, <1>2
<1>10. Elements' /\ ElementIsOpenInMessage'
  BY <1>0, <1>2
     DEF IInv, Elements, ElementIsOpenInMessage, ChainVisitsOpenElements, OpenInOrder,
         SizedAreClosed
<1> QED
  BY <1>0, <1>2, <1>5, <1>7, <1>8, <1>9, <1>10 DEF IInv, Regions

\* An empty stream, as Init and Clear leave it.
LEMMA EmptyIsIInv ==
  ASSUME Init
  PROVE  IInv
<1>1. Capacity \in Nat /\ NoElement = -1 /\ Data = 0
  BY SizesAssumption DEF NoElement, Data
<1>2. slot \in [0 .. Capacity -> 0 .. Capacity]
  BY <1>1 DEF Init, EmptyBuffer
<1>3. open = << >> /\ Len(open) = 0 /\ open \in Seq(0 .. Capacity)
  BY DEF Init
<1>4. Elements
  BY <1>1, <1>2, <1>3
     DEF Init, Elements, ChainVisitsOpenElements, OpenInOrder, SizedAreClosed
<1>5. Regions
  <2>1. messageCursor = 0 /\ argumentCurrent = 0 /\ typeTags = 0 /\ messageIsInProgress = FALSE
    BY <1>1 DEF Init
  <2>2. Aligned
    BY <2>1 DEF Aligned
  <2>3. MessageCanBeClosed
    BY <2>1 DEF MessageCanBeClosed
  <2>4. Cursors
    BY <2>1 DEF Cursors
  <2>5. messageIsInProgress \in BOOLEAN
    BY <2>1
  <2>6. 0 \in 0 .. Capacity
    BY <1>1
  <2> QED
    BY <2>1, <2>2, <2>3, <2>4, <2>5, <2>6, Zenon DEF Regions
<1> QED
  BY <1>4, <1>5 DEF IInv, ElementIsOpenInMessage, Init

LEMMA ClearKeepsIInv ==
  ASSUME Clear
  PROVE  IInv'
<1>1. Capacity \in Nat /\ NoElement = -1 /\ Data = 0
  BY SizesAssumption DEF NoElement, Data
<1>2. slot' \in [0 .. Capacity -> 0 .. Capacity]
  BY <1>1 DEF Clear, EmptyBuffer
<1>3. open' = << >> /\ Len(open') = 0 /\ open' \in Seq(0 .. Capacity)
  BY DEF Clear
<1>4. Elements'
  BY <1>1, <1>2, <1>3
     DEF Clear, Elements, ChainVisitsOpenElements, OpenInOrder, SizedAreClosed
<1>5. Regions'
  <2>1. /\ messageCursor' = 0 /\ argumentCurrent' = 0 /\ typeTags' = 0
        /\ messageIsInProgress' = FALSE
    BY <1>1 DEF Clear
  <2>2. Aligned'
    BY <2>1 DEF Aligned
  <2>3. MessageCanBeClosed'
    BY <2>1 DEF MessageCanBeClosed
  <2>4. Cursors'
    BY <2>1 DEF Cursors
  <2>5. messageIsInProgress' \in BOOLEAN
    BY <2>1
  <2>6. 0 \in 0 .. Capacity
    BY <1>1
  <2> QED
    BY <2>1, <2>2, <2>3, <2>4, <2>5, <2>6, Zenon DEF Regions
<1> QED
  BY <1>4, <1>5 DEF IInv, ElementIsOpenInMessage, Clear

\* Every operation preserves the invariant.
LEMMA StepKeepsIInv ==
  ASSUME IInv, [Next]_vars
  PROVE  IInv'
<1>1. CASE BeginBundle
  BY <1>1, BeginBundleKeepsIInv
<1>2. CASE EndBundle
  BY <1>2, EndBundleKeepsIInv
<1>3. ASSUME NEW address \in AddressLengths, BeginMessage(address) PROVE IInv'
  BY <1>3, BeginMessageKeepsIInv
<1>4. CASE EndMessage
  BY <1>4, EndMessageKeepsIInv
<1>5. ASSUME NEW bytes \in ArgumentBytes, AddArgument(bytes) PROVE IInv'
  BY <1>5, AddArgumentKeepsIInv
<1>6. CASE Clear
  BY <1>6, ClearKeepsIInv
<1>7. CASE UNCHANGED vars
  BY <1>7
     DEF vars, IInv, Elements, Regions, ElementIsOpenInMessage, ChainVisitsOpenElements,
         OpenInOrder, SizedAreClosed, MessageCanBeClosed, Aligned, Cursors, Size
<1> QED
  BY <1>1, <1>2, <1>3, <1>4, <1>5, <1>6, <1>7 DEF Next

LEMMA Invariant == Spec => []IInv
<1>1. Init => IInv
  BY EmptyIsIInv
<1>2. IInv /\ [Next]_vars => IInv'
  BY StepKeepsIInv
<1> QED
  BY <1>1, <1>2, PTL DEF Spec

----------------------------------------------------------------------------
\* The type invariant: no pointer ever leaves the buffer.
THEOREM OscTyping == Spec => []TypeOK
<1>1. IInv => TypeOK
  BY DEF IInv, Elements, Regions, TypeOK
<1> QED
  BY <1>1, Invariant, PTL

\* Closing a message never writes beyond the buffer.
THEOREM ClosingFits == Spec => []MessageCanBeClosed
<1>1. IInv => MessageCanBeClosed
  BY DEF IInv, Regions
<1> QED
  BY <1>1, Invariant, PTL

\* The arguments and the type tags never meet.
THEOREM RegionsApart == Spec => []TagsAndArgumentsApart
<1>1. IInv => TagsAndArgumentsApart
  <2> SUFFICES ASSUME IInv, messageIsInProgress
               PROVE  argumentCurrent <= Capacity - typeTags
    BY DEF TagsAndArgumentsApart
  <2>0. Regions
    BY DEF IInv
  <2>1. argumentCurrent \in Nat /\ typeTags \in Nat /\ Capacity \in Nat
    BY <2>0, SizesAssumption DEF Regions
  <2>2. Size <= Capacity
    BY <2>0 DEF Regions, MessageCanBeClosed
  <2>3. Size = argumentCurrent + RoundUp4(typeTags + 2)
        /\ RoundUp4(typeTags + 2) \in Nat /\ RoundUp4(typeTags + 2) >= typeTags + 2
    BY <2>0, Numbers
  <2> QED
    BY <2>1, <2>2, <2>3
<1> QED
  BY <1>1, Invariant, PTL

\* Cursors stay on multiples of four.
THEOREM Alignment == Spec => []Aligned
<1>1. IInv => Aligned
  BY DEF IInv, Regions
<1> QED
  BY <1>1, Invariant, PTL

\* The chain in the buffer is the stack of open elements.
THEOREM Chain == Spec => []ChainVisitsOpenElements
<1>1. IInv => ChainVisitsOpenElements
  BY DEF IInv, Elements
<1> QED
  BY <1>1, Invariant, PTL

\* EndElement's assertion never fails.
THEOREM AssertionHolds == Spec => []ElementIsOpenInMessage
<1>1. IInv => ElementIsOpenInMessage
  BY DEF IInv
<1> QED
  BY <1>1, Invariant, PTL

\* While a message is being built, Size says what it will be when it is closed.
THEOREM SizeForetold == Spec => SizeIsThatOfTheClosedMessage
<1>1. IInv /\ [Next]_vars => [EndMessage => Size' = Size]_vars
  BY EndMessageCursor
<1> QED
  BY <1>1, Invariant, PTL DEF Spec, SizeIsThatOfTheClosedMessage

----------------------------------------------------------------------------
(* Nesting                                                                 *)

\* Where the element with slot p ends.
ElementEnd(p) == p + 4 + slot[p]

\* A closed element ends below the cursor; the open elements around it began
\* before it and those it does not contain after it; two closed elements nest.
Nesting ==
  \A p \in sized :
    /\ ElementEnd(p) <= messageCursor
    /\ \A i \in 1 .. Len(open) : open[i] < p \/ ElementEnd(p) <= open[i]
    /\ \A q \in sized : p < q => ElementEnd(q) <= ElementEnd(p) \/ ElementEnd(p) <= q

\* Where closed elements end is a number.
LEMMA EndsAreNumbers ==
  ASSUME Elements, NEW p \in sized
  PROVE  p \in Nat /\ slot[p] \in Nat /\ ElementEnd(p) \in Nat
<1>1. p \in 0 .. Capacity /\ slot[p] \in 0 .. Capacity
  BY DEF Elements
<1> QED
  BY <1>1, SizesAssumption DEF ElementEnd

\* An element that begins lies behind every closed one.
LEMMA BeginElementNests ==
  ASSUME IInv, Nesting, BeginElement(messageCursor),
         messageCursor' \in Nat, messageCursor' >= messageCursor
  PROVE  Nesting'
<1>0. Elements /\ messageCursor \in 0 .. Capacity /\ messageCursor \in Nat
  BY SizesAssumption DEF IInv, Regions
<1>1. sized' = sized /\ \A p \in sized : ElementEnd(p)' = ElementEnd(p)
  <2>1. \A p \in sized : p # messageCursor
    BY <1>0 DEF Elements, SizedAreClosed
  <2> QED
    BY <2>1, <1>0 DEF BeginElement, ElementEnd, Elements
<1>2. ASSUME NEW i \in 1 .. Len(open')
      PROVE  open'[i] \in {Data, messageCursor} \/ (i \in 1 .. Len(open) /\ open'[i] = open[i])
  <2>1. CASE open' = <<Data>>
    BY <2>1
  <2>2. CASE open' = Append(open, messageCursor)
    BY <2>2, <1>0 DEF Elements
  <2> QED
    BY <2>1, <2>2 DEF BeginElement
<1>3. ASSUME NEW p \in sized
      PROVE  /\ ElementEnd(p) <= messageCursor'
             /\ \A i \in 1 .. Len(open') : open'[i] < p \/ ElementEnd(p) <= open'[i]
  <2>1. /\ p \in Nat /\ p # 0 /\ ElementEnd(p) \in Nat /\ ElementEnd(p) <= messageCursor
        /\ \A i \in 1 .. Len(open) : open[i] < p \/ ElementEnd(p) <= open[i]
    BY <1>0, EndsAreNumbers DEF Nesting, Elements, SizedAreClosed, Data
  <2>2. ElementEnd(p) <= messageCursor'
    BY <2>1, <1>0
  <2>3. ASSUME NEW i \in 1 .. Len(open')
        PROVE  open'[i] < p \/ ElementEnd(p) <= open'[i]
    <3>1. CASE open'[i] \in {Data, messageCursor}
      BY <3>1, <2>1 DEF Data
    <3>2. CASE i \in 1 .. Len(open) /\ open'[i] = open[i]
      BY <3>2, <2>1
    <3> QED
      BY <3>1, <3>2, <1>2
  <2> QED
    BY <2>2, <2>3
<1>4. ASSUME NEW p \in sized, NEW q \in sized, p < q
      PROVE  ElementEnd(q) <= ElementEnd(p) \/ ElementEnd(p) <= q
  BY <1>4 DEF Nesting
<1>5. ASSUME NEW p \in sized'
      PROVE  /\ ElementEnd(p)' <= messageCursor'
             /\ \A i \in 1 .. Len(open') : open'[i] < p \/ ElementEnd(p)' <= open'[i]
             /\ \A q \in sized' :
                  p < q => ElementEnd(q)' <= ElementEnd(p)' \/ ElementEnd(p)' <= q
  <2>1. p \in sized /\ ElementEnd(p)' = ElementEnd(p)
    BY <1>1
  <2>2. ASSUME NEW q \in sized', p < q
        PROVE  ElementEnd(q)' <= ElementEnd(p)' \/ ElementEnd(p)' <= q
    <3>1. q \in sized /\ ElementEnd(q)' = ElementEnd(q)
      BY <1>1
    <3> QED
      BY <2>1, <2>2, <3>1, <1>4
  <2> QED
    BY <2>1, <2>2, <1>3
<1> QED
  BY <1>5 DEF Nesting

\* The element that is closed ends at the cursor, so it contains every closed
\* element behind its slot.
LEMMA EndElementNests ==
  ASSUME IInv, Nesting, elementSizePtr # NoElement, EndElement(messageCursor'),
         messageCursor' \in Nat, messageCursor' >= messageCursor
  PROVE  Nesting'
<1>0. Elements /\ messageCursor \in Nat
  BY SizesAssumption DEF IInv, Regions
<1> DEFINE n == Len(open)
<1>closing. PICK s : s = elementSizePtr
  OBVIOUS
<1>1. /\ n \in Nat \ {0} /\ n \in 1 .. n /\ s = open[n] /\ s \in 0 .. Capacity /\ s \in Nat
      /\ open' = SubSeq(open, 1, n - 1)
  <2>1. open # << >> /\ s = open[n] /\ open \in Seq(0 .. Capacity) /\ n \in Nat \ {0}
    BY <1>0, <1>closing DEF Elements, ChainVisitsOpenElements
  <2>2. n \in 1 .. n
    BY <2>1
  <2>3. s \in 0 .. Capacity
    BY <2>1, <2>2, ElementOfSeq
  <2> QED
    BY <2>1, <2>2, <2>3, SizesAssumption DEF EndElement
<1>2. ASSUME NEW i \in 1 .. Len(open')
      PROVE  i \in 1 .. n /\ i < n /\ open'[i] = open[i] /\ open[i] \in Nat
  <2>1. n - 1 \in Nat /\ 1 .. n - 1 \subseteq 1 .. n /\ \A j \in 1 .. n - 1 : j < n
    BY <1>1
  <2>2. Len(open') = n - 1 /\ \A j \in 1 .. n - 1 : open'[j] = open[j]
    <3>1. open \in Seq(0 .. Capacity)
      BY <1>0 DEF Elements
    <3> QED
      BY <3>1, <1>1
  <2>3. open[i] \in 0 .. Capacity
    BY <2>1, <2>2, <1>0, ElementOfSeq DEF Elements
  <2> QED
    BY <2>1, <2>2, <2>3, SizesAssumption
<1> HIDE DEF n
<1>3. ASSUME NEW p \in sized
      PROVE  /\ p \in Nat /\ ElementEnd(p) \in Nat /\ p # s
             /\ ElementEnd(p) <= messageCursor /\ ElementEnd(p) <= messageCursor'
             /\ \A i \in 1 .. n : open[i] < p \/ ElementEnd(p) <= open[i]
  <2>1. p \in Nat /\ ElementEnd(p) \in Nat
    BY <1>0, EndsAreNumbers
  <2>2. ElementEnd(p) <= messageCursor
    BY DEF Nesting
  <2>3. p # s
    BY <1>0, <1>1 DEF Elements, SizedAreClosed, n
  <2>4. \A i \in 1 .. n : open[i] < p \/ ElementEnd(p) <= open[i]
    BY DEF Nesting, n
  <2> QED
    BY <2>1, <2>2, <2>3, <2>4, <1>0
<1>4. CASE s = Data
  <2>1. sized' = sized /\ \A p \in sized : ElementEnd(p)' = ElementEnd(p)
    BY <1>4, <1>closing DEF EndElement, ElementEnd
  <2>2. ASSUME NEW p \in sized
        PROVE  /\ ElementEnd(p)' <= messageCursor'
               /\ \A i \in 1 .. Len(open') : open'[i] < p \/ ElementEnd(p)' <= open'[i]
    BY <2>1, <1>2, <1>3
  <2>3. ASSUME NEW p \in sized, NEW q \in sized, p < q
        PROVE  ElementEnd(q)' <= ElementEnd(p)' \/ ElementEnd(p)' <= q
    BY <2>1, <2>3 DEF Nesting
  <2> QED
    BY <2>1, <2>2, <2>3 DEF Nesting
<1>5. CASE s # Data
  <2>1. /\ sized' = sized \cup {s}
        /\ slot' = [slot EXCEPT ![s] = messageCursor' - s - 4]
    BY <1>5, <1>closing DEF EndElement
  <2>2. \A p \in sized : ElementEnd(p)' = ElementEnd(p)
    BY <2>1, <1>3, <1>0 DEF ElementEnd, Elements
  <2>3. ElementEnd(s)' = messageCursor'
    <3>1. slot'[s] = messageCursor' - s - 4
      BY <2>1, <1>0, <1>1 DEF Elements
    <3> QED
      BY <3>1, <1>1 DEF ElementEnd
  <2>4. ASSUME NEW p \in sized'
        PROVE  /\ ElementEnd(p)' <= messageCursor'
               /\ \A i \in 1 .. Len(open') : open'[i] < p \/ ElementEnd(p)' <= open'[i]
    <3>1. CASE p \in sized
      BY <3>1, <2>2, <1>2, <1>3
    <3>2. CASE p = s
      <4>1. \A i \in 1 .. Len(open') : open'[i] < s
        BY <1>0, <1>1, <1>2 DEF Elements, OpenInOrder, n
      <4> QED
        BY <3>2, <4>1, <2>3
    <3> QED
      BY <3>1, <3>2, <2>1
  <2>5. ASSUME NEW p \in sized', NEW q \in sized', p < q
        PROVE  ElementEnd(q)' <= ElementEnd(p)' \/ ElementEnd(p)' <= q
    <3>1. CASE p \in sized /\ q \in sized
      BY <3>1, <2>2, <2>5 DEF Nesting
    <3>2. CASE p = s
      BY <3>2, <2>3, <2>4
    <3>3. CASE p \in sized /\ q = s
      <4>1. open[n] < p \/ ElementEnd(p) <= open[n]
        BY <3>3, <1>1, <1>3
      <4>2. p \in Nat
        BY <3>3, <1>3
      <4> QED
        BY <3>3, <4>1, <4>2, <2>2, <2>5, <1>1
    <3> QED
      BY <3>1, <3>2, <3>3, <2>1
  <2> QED
    BY <2>4, <2>5 DEF Nesting
<1> QED
  BY <1>4, <1>5

\* Nothing else touches an element that is closed.
LEMMA StepKeepsNesting ==
  ASSUME IInv, Nesting, [Next]_vars
  PROVE  Nesting'
<1>0. /\ Capacity \in Nat /\ messageCursor \in Nat /\ messageCursor' \in Nat
      /\ messageIsInProgress \in BOOLEAN /\ ElementSizeSlot \in {0, 4}
  BY StepKeepsIInv, SizesAssumption DEF IInv, Regions, ElementSizeSlot
<1>1. CASE BeginBundle
  <2>1. BeginElement(messageCursor) /\ messageCursor' >= messageCursor
    BY <1>0, <1>1 DEF BeginBundle
  <2> QED
    BY <1>0, <2>1, BeginElementNests
<1>2. CASE EndBundle
  <2>1. elementSizePtr # NoElement /\ EndElement(messageCursor') /\ messageCursor' >= messageCursor
    BY <1>0, <1>2 DEF EndBundle
  <2> QED
    BY <1>0, <2>1, EndElementNests
<1>3. ASSUME NEW address \in AddressLengths, BeginMessage(address) PROVE Nesting'
  <2>1. BeginElement(messageCursor)
        /\ messageCursor' = messageCursor + ElementSizeSlot + RoundUp4(address + 1)
    BY <1>3 DEF BeginMessage
  <2>2. RoundUp4(address + 1) \in Nat
    BY RoundUp4Properties, SizesAssumption
  <2>3. messageCursor' >= messageCursor
    BY <1>0, <2>1, <2>2
  <2> QED
    BY <1>0, <2>1, <2>3, BeginElementNests
<1>4. CASE EndMessage
  <2>1. elementSizePtr # NoElement /\ EndElement(messageCursor')
    BY <1>4 DEF EndMessage, IInv, ElementIsOpenInMessage
  <2>2. messageCursor' >= messageCursor
    BY <1>4, EndMessageCursor
  <2> QED
    BY <1>0, <2>1, <2>2, EndElementNests
<1>5. CASE UNCHANGED <<messageCursor, slot, open, sized>>
  BY <1>5 DEF Nesting, ElementEnd
<1>6. CASE Clear
  BY <1>6 DEF Clear, Nesting
<1> QED
  BY <1>1, <1>2, <1>3, <1>4, <1>5, <1>6 DEF Next, AddArgument, vars

\* Two closed elements nest: a reader that trusts the sizes finds the elements
\* that were written.
THEOREM Nests == Spec => []ElementsNest
<1>1. Init => Nesting
  BY DEF Init, Nesting
<1>2. IInv /\ Nesting /\ [Next]_vars => Nesting'
  BY StepKeepsNesting
<1>3. IInv /\ Nesting => ElementsNest
  <2> SUFFICES ASSUME IInv, Nesting, NEW p \in sized, NEW q \in sized
               PROVE  LET P == Packet!Bytes([at |-> p, size |-> slot[p]])
                          Q == Packet!Bytes([at |-> q, size |-> slot[q]])
                      IN P \subseteq Q \/ Q \subseteq P \/ P \cap Q = {}
    BY DEF ElementsNest
  <2> DEFINE P == Packet!Bytes([at |-> p, size |-> slot[p]])
             Q == Packet!Bytes([at |-> q, size |-> slot[q]])
  <2>1. /\ p \in Nat /\ slot[p] \in Nat /\ ElementEnd(p) \in Nat
        /\ q \in Nat /\ slot[q] \in Nat /\ ElementEnd(q) \in Nat
    BY EndsAreNumbers DEF IInv
  <2>2. P = p .. ElementEnd(p) - 1 /\ Q = q .. ElementEnd(q) - 1
    BY <2>1 DEF Packet!Bytes, Packet!SlotSize, ElementEnd
  <2>3. /\ p < q => ElementEnd(q) <= ElementEnd(p) \/ ElementEnd(p) <= q
        /\ q < p => ElementEnd(p) <= ElementEnd(q) \/ ElementEnd(q) <= p
    BY DEF Nesting
  <2> HIDE DEF P, Q
  <2>4. P \subseteq Q \/ Q \subseteq P \/ P \cap Q = {}
    <3>1. CASE p = q
      BY <3>1, <2>2
    <3>2. CASE p < q
      BY <3>2, <2>1, <2>2, <2>3
    <3>3. CASE q < p
      BY <3>3, <2>1, <2>2, <2>3
    <3> QED
      BY <3>1, <3>2, <3>3, <2>1
  <2> QED
    BY <2>4 DEF P, Q
<1> QED
  BY <1>1, <1>2, <1>3, Invariant, PTL DEF Spec

----------------------------------------------------------------------------
(* The refinement                                                          *)

packetLength == IF messageIsInProgress THEN Size ELSE messageCursor
packetClosed == {[at |-> p, size |-> slot[p]] : p \in sized}

\* What OscPacket calls opening an element.
LEMMA BeginElementOpens ==
  ASSUME IInv, ~messageIsInProgress, BeginElement(messageCursor)
  PROVE  /\ packetLength = messageCursor
         /\ packetClosed' = packetClosed
         /\ open = << >> => open' = <<Data>> /\ ElementSizeSlot = 0
         /\ open # << >> => open' = Append(open, messageCursor) /\ ElementSizeSlot = 4
<1>0. Elements /\ Regions
  BY DEF IInv
<1>1. open = << >> <=> elementSizePtr = NoElement
  <2>1. Len(open) \in Nat /\ (open # << >> => Len(open) # 0)
    BY <1>0 DEF Elements
  <2>2. CASE open = << >>
    BY <2>2, <1>0 DEF Elements, ChainVisitsOpenElements
  <2>3. CASE open # << >>
    <3>1. Len(open) \in 1 .. Len(open)
      BY <2>1, <2>3
    <3>2. open[Len(open)] \in 0 .. Capacity /\ elementSizePtr = open[Len(open)]
      BY <3>1, <2>3, <1>0, ElementOfSeq DEF Elements, ChainVisitsOpenElements
    <3> QED
      BY <3>2, <2>3 DEF NoElement
  <2> QED
    BY <2>2, <2>3
<1>2. \A p \in sized : p # messageCursor
  BY <1>0 DEF Elements, Regions, SizedAreClosed
<1>3. packetClosed' = packetClosed
  <2>1. sized' = sized /\ \A p \in sized : slot'[p] = slot[p]
    BY <1>0, <1>2 DEF BeginElement, Elements
  <2> QED
    BY <2>1 DEF packetClosed
<1>4. packetLength = messageCursor
  BY DEF packetLength
<1> QED
  BY <1>1, <1>3, <1>4 DEF BeginElement, ElementSizeSlot

\* What OscPacket calls closing one.
LEMMA EndElementCloses ==
  ASSUME IInv, elementSizePtr # NoElement, NEW end, EndElement(end)
  PROVE  /\ open # << >> /\ open' = SubSeq(open, 1, Len(open) - 1)
         /\ packetClosed' = IF open[Len(open)] = Data
                            THEN packetClosed
                            ELSE packetClosed \cup
                                 {[at |-> open[Len(open)], size |-> end - open[Len(open)] - 4]}
<1>0. Elements
  BY DEF IInv
<1>1. open # << >> /\ elementSizePtr = open[Len(open)]
  BY <1>0 DEF Elements, ChainVisitsOpenElements
<1>2. open' = SubSeq(open, 1, Len(open) - 1)
  BY DEF EndElement
<1>3. CASE elementSizePtr = Data
  BY <1>1, <1>2, <1>3 DEF EndElement, packetClosed
<1>4. CASE elementSizePtr # Data
  <2>1. /\ sized' = sized \cup {elementSizePtr}
        /\ slot' = [slot EXCEPT ![elementSizePtr] = end - elementSizePtr - 4]
    BY <1>4 DEF EndElement
  <2>2. elementSizePtr \in 0 .. Capacity /\ elementSizePtr \notin sized
    <3>1. Len(open) \in Nat \ {0}
      BY <1>0, <1>1 DEF Elements
    <3>2. Len(open) \in 1 .. Len(open)
      BY <3>1
    <3> QED
      BY <3>2, <1>0, <1>1, ElementOfSeq DEF Elements, SizedAreClosed
  <2>3. slot'[elementSizePtr] = end - elementSizePtr - 4
    BY <2>1, <2>2, <1>0 DEF Elements
  <2>4. \A p \in sized : slot'[p] = slot[p]
    BY <2>1, <2>2, <1>0 DEF Elements
  <2>5. packetClosed' = {[at |-> p, size |-> slot'[p]] : p \in sized'}
    BY DEF packetClosed
  <2>6. {[at |-> p, size |-> slot'[p]] : p \in sized'}
          = {[at |-> p, size |-> slot[p]] : p \in sized}
              \cup {[at |-> elementSizePtr, size |-> end - elementSizePtr - 4]}
    BY <2>1, <2>3, <2>4
  <2> QED
    BY <1>1, <1>2, <1>4, <2>5, <2>6 DEF packetClosed
<1> QED
  BY <1>3, <1>4

LEMMA InitImplements ==
  ASSUME Init
  PROVE  Packet!Init
  BY DEF Init, Packet!Init, Data

LEMMA BeginBundleOpens ==
  ASSUME IInv, BeginBundle
  PROVE  Packet!Open(FALSE)
<1>0. Regions /\ Regions'
  BY BeginBundleKeepsIInv DEF IInv
<1>1. /\ ~messageIsInProgress /\ messageIsInProgress' = messageIsInProgress
      /\ messageCursor' = messageCursor + ElementSizeSlot + 16
      /\ BeginElement(messageCursor)
  BY DEF BeginBundle
<1>2. messageIsInProgress' = FALSE /\ messageCursor \in Nat /\ messageCursor' % 4 = 0
  BY <1>0, <1>1, SizesAssumption DEF Regions, Aligned
<1>3. packetLength = messageCursor /\ packetLength' = messageCursor' /\ packetClosed' = packetClosed
  BY <1>1, <1>2, BeginElementOpens DEF packetLength
<1>4. IF open = << >>
      THEN open' = <<0>> /\ packetLength' >= packetLength + 8
      ELSE open' = Append(open, packetLength) /\ packetLength' >= packetLength + 4 + 8
  <2>1. CASE open = << >>
    BY <2>1, <1>1, <1>2, <1>3, BeginElementOpens DEF Data
  <2>2. CASE open # << >>
    BY <2>2, <1>1, <1>2, <1>3, BeginElementOpens
  <2> QED
    BY <2>1, <2>2
<1> QED
  BY <1>1, <1>2, <1>3, <1>4
     DEF Packet!Open, Packet!Outermost, Packet!SlotSize, packetLength, packetClosed

LEMMA BeginMessageOpens ==
  ASSUME IInv, NEW address \in AddressLengths, BeginMessage(address)
  PROVE  Packet!Open(TRUE)
<1>0. Regions /\ Regions'
  BY BeginMessageKeepsIInv DEF IInv
<1> DEFINE pattern == RoundUp4(address + 1)
<1>1. /\ ~messageIsInProgress /\ messageIsInProgress' = TRUE /\ typeTags' = 0
      /\ messageCursor' = messageCursor + ElementSizeSlot + pattern
      /\ argumentCurrent' = messageCursor'
      /\ BeginElement(messageCursor)
  BY DEF BeginMessage
<1>2. pattern \in Nat /\ pattern >= 4
  <2>1. address + 1 \in Nat /\ address + 1 >= 1
    BY SizesAssumption
  <2>2. pattern \in Nat /\ pattern >= 1 /\ pattern % 4 = 0
    BY <2>1, RoundUp4Properties
  <2> HIDE DEF pattern
  <2> QED
    BY <2>2
<1> HIDE DEF pattern
<1>3. messageCursor \in Nat /\ messageCursor' \in Nat /\ messageCursor' % 4 = 0
  <2>1. \A n \in 0 .. Capacity : n \in Nat
    BY SizesAssumption
  <2> HIDE DEF pattern
  <2> QED
    BY <2>1, <1>0, Zenon DEF Regions, Aligned
<1>4. packetLength' = messageCursor' + 4
  BY <1>1 DEF packetLength, Size, RoundUp4
<1>5. packetLength = messageCursor /\ packetClosed' = packetClosed
  BY <1>1, BeginElementOpens
<1>6. packetLength' % 4 = 0
  <2>1. ASSUME NEW n \in Nat, n % 4 = 0
        PROVE  (n + 4) % 4 = 0
    BY <2>1
  <2> QED
    BY <2>1, <1>3, <1>4, Zenon
<1>7. IF open = << >>
      THEN open' = <<0>> /\ packetLength' >= packetLength + 8
      ELSE open' = Append(open, packetLength) /\ packetLength' >= packetLength + 4 + 8
  <2>1. CASE open = << >>
    BY <2>1, <1>1, <1>2, <1>3, <1>4, <1>5, BeginElementOpens DEF Data
  <2>2. CASE open # << >>
    BY <2>2, <1>1, <1>2, <1>3, <1>4, <1>5, BeginElementOpens
  <2> QED
    BY <2>1, <2>2
<1> QED
  BY <1>1, <1>5, <1>6, <1>7
     DEF Packet!Open, Packet!Outermost, Packet!SlotSize, packetLength, packetClosed

LEMMA EndCloses ==
  ASSUME IInv, EndBundle \/ EndMessage,
         NEW isMessage \in BOOLEAN, isMessage = messageIsInProgress
  PROVE  Packet!Close(isMessage)
<1>0. Regions
  BY DEF IInv
<1>1. /\ elementSizePtr # NoElement /\ EndElement(messageCursor')
      /\ messageIsInProgress' = FALSE /\ packetLength = messageCursor'
  <2>1. CASE EndBundle
    BY <2>1, <1>0 DEF EndBundle, packetLength, Regions
  <2>2. CASE EndMessage
    BY <2>2, EndMessageCursor
       DEF EndMessage, packetLength, IInv, ElementIsOpenInMessage
  <2> QED
    BY <2>1, <2>2
<1>2. packetLength' = packetLength
  BY <1>1 DEF packetLength
<1>3. /\ open # << >> /\ open' = SubSeq(open, 1, Len(open) - 1)
      /\ packetClosed' = IF open[Len(open)] = 0
                         THEN packetClosed
                         ELSE packetClosed \cup
                              {[at |-> open[Len(open)],
                                size |-> packetLength - open[Len(open)] - 4]}
  BY <1>1, EndElementCloses DEF Data
<1> QED
  BY <1>1, <1>2, <1>3
     DEF Packet!Close, Packet!Outermost, Packet!SlotSize, packetLength, packetClosed

\* Outside of a message an argument changes nothing that is in the packet.
LEMMA ArgumentAdds ==
  ASSUME IInv, NEW bytes \in ArgumentBytes, AddArgument(bytes)
  PROVE  Packet!AddArgument \/ UNCHANGED Packet!packet
<1>0. Regions /\ Regions'
  BY AddArgumentKeepsIInv DEF IInv
<1>1. UNCHANGED <<messageCursor, elementSizePtr, messageIsInProgress, slot, open, sized>>
  BY DEF AddArgument
<1>2. packetClosed' = packetClosed
  BY <1>1 DEF packetClosed
<1>3. CASE ~messageIsInProgress
  <2>1. packetLength' = packetLength
    BY <1>1, <1>3 DEF packetLength
  <2> QED
    BY <1>1, <1>2, <2>1 DEF Packet!packet, packetLength, packetClosed
<1>4. CASE messageIsInProgress
  <2>1. /\ packetLength = argumentCurrent + RoundUp4(typeTags + 2)
        /\ packetLength' = argumentCurrent' + RoundUp4(typeTags' + 2)
    BY <1>1, <1>4 DEF packetLength, Size
  <2>2. /\ typeTags \in Nat /\ argumentCurrent \in Nat /\ argumentCurrent' \in Nat
        /\ argumentCurrent' % 4 = 0 /\ bytes \in Nat
        /\ argumentCurrent' = argumentCurrent + bytes /\ typeTags' = typeTags + 1
    BY <1>0, ArgumentBytesProperties, SizesAssumption DEF Regions, Aligned, AddArgument
  <2>3. /\ RoundUp4(typeTags' + 2) \in Nat /\ RoundUp4(typeTags' + 2) % 4 = 0
        /\ RoundUp4(typeTags + 2) \in Nat /\ RoundUp4(typeTags' + 2) >= RoundUp4(typeTags + 2)
    <3>1. typeTags' + 2 = typeTags + 3 /\ typeTags + 2 \in Nat /\ typeTags + 3 \in Nat
      BY <2>2
    <3>2. RoundUp4(typeTags + 3) >= RoundUp4(typeTags + 2)
      BY <2>2 DEF RoundUp4
    <3> QED
      BY <3>1, <3>2, RoundUp4Properties
  <2> DEFINE tags == RoundUp4(typeTags + 2)
             tagsAfter == RoundUp4(typeTags' + 2)
  <2>4. /\ tags \in Nat /\ tagsAfter \in Nat /\ tagsAfter % 4 = 0 /\ tagsAfter >= tags
        /\ packetLength = argumentCurrent + tags
        /\ packetLength' = argumentCurrent' + tagsAfter
    BY <2>1, <2>3
  <2> HIDE DEF tags, tagsAfter
  <2>5. packetLength' >= packetLength /\ packetLength' % 4 = 0
    BY <2>2, <2>4
  <2> QED
    BY <1>1, <1>2, <1>4, <2>5 DEF Packet!AddArgument, packetLength, packetClosed
<1> QED
  BY <1>3, <1>4

LEMMA ClearDiscards ==
  ASSUME Clear
  PROVE  Packet!Discard
  BY DEF Clear, Packet!Discard, Data

\* The stream implements the packet: the elements it writes nest, and the size
\* in every slot is that of the element behind it.
THEOREM StreamBuildsPacket == Spec => BuildsPacket
<1>1. Init => Packet!Init
  BY InitImplements
<1>2. IInv /\ [Next]_vars => [Packet!Next]_Packet!packet
  <2> SUFFICES ASSUME IInv, [Next]_vars
               PROVE  Packet!Next \/ UNCHANGED Packet!packet
    OBVIOUS
  <2>1. CASE BeginBundle
    BY <2>1, BeginBundleOpens DEF Packet!Next
  <2>2. CASE EndBundle \/ EndMessage
    <3>1. PICK isMessage \in BOOLEAN : isMessage = messageIsInProgress
      BY DEF IInv, Regions
    <3>2. Packet!Close(isMessage)
      BY <2>2, <3>1, EndCloses
    <3> QED
      BY <3>2 DEF Packet!Next
  <2>3. ASSUME NEW address \in AddressLengths, BeginMessage(address)
        PROVE  Packet!Next
    BY <2>3, BeginMessageOpens DEF Packet!Next
  <2>4. ASSUME NEW bytes \in ArgumentBytes, AddArgument(bytes)
        PROVE  Packet!Next \/ UNCHANGED Packet!packet
    BY <2>4, ArgumentAdds DEF Packet!Next
  <2>5. CASE Clear
    BY <2>5, ClearDiscards DEF Packet!Next
  <2>6. CASE UNCHANGED vars
    <3>1. Size' = Size
      BY <2>6 DEF vars, Size
    <3>2. packetLength' = packetLength /\ packetClosed' = packetClosed
      BY <2>6, <3>1 DEF vars, packetLength, packetClosed
    <3> QED
      BY <2>6, <3>2 DEF vars, Packet!packet, packetLength, packetClosed
  <2> QED
    BY <2>1, <2>2, <2>3, <2>4, <2>5, <2>6 DEF Next
<1> QED
  BY <1>1, <1>2, Invariant, PTL DEF Spec, BuildsPacket, Packet!Spec

=============================================================================

------------------------ MODULE OscOutboundPacketStream ------------------------
(***************************************************************************)
(* osc::OutboundPacketStream: an OSC packet is built in a caller's buffer. *)
(* Arguments grow up from the start and type tags down from the end until  *)
(* a message is closed. The chain of open elements is kept in the buffer,  *)
(* in the very slots that will hold their sizes.                           *)
(*                                                                         *)
(* Pointers are offsets from data_. An operation that throws changes       *)
(* nothing: here, it is not enabled.                                       *)
(***************************************************************************)
EXTENDS Integers, Sequences

CONSTANTS
  Capacity,        \* bytes of the buffer
  AddressLengths,  \* lengths of the address patterns used
  StringLengths,   \* lengths of the string arguments used
  BlobSizes        \* sizes of the blob arguments used

ASSUME SizesAssumption ==
  /\ Capacity \in Nat
  /\ AddressLengths \subseteq Nat
  /\ StringLengths \subseteq Nat
  /\ BlobSizes \subseteq Nat

VARIABLES
  typeTags,             \* how many type tags lie below end_
  messageCursor,
  argumentCurrent,
  elementSizePtr,
  messageIsInProgress,
  slot,                 \* the buffer's words, as far as they are size slots
  open,                 \* history: the size slots of the open elements
  sized                 \* history: the slots that hold a size

vars == <<typeTags, messageCursor, argumentCurrent, elementSizePtr, messageIsInProgress,
          slot, open, sized>>

NoElement == -1         \* the null pointer
Data == 0               \* data_: the outermost element has no slot
EmptyBuffer == [p \in 0 .. Capacity |-> 0]

RoundUp4(x) == 4 * ((x + 3) \div 4)

Size ==
  argumentCurrent + IF messageIsInProgress THEN RoundUp4(typeTags + 2) ELSE 0

ElementSizeSlot == IF elementSizePtr # NoElement THEN 4 ELSE 0

BundleFits == Size + ElementSizeSlot + 16 <= Capacity

MessageFits(address) ==
  Size + ElementSizeSlot + RoundUp4(address + 1) + 4 <= Capacity

\* Mutant: room for the tag that is about to be written is not asked for.
ArgumentFitsWithoutTag(bytes) ==
  argumentCurrent + bytes + RoundUp4(typeTags + 2) <= Capacity

ArgumentFits(bytes) ==
  argumentCurrent + bytes + RoundUp4(typeTags + 3) <= Capacity

----------------------------------------------------------------------------
Init ==
  /\ typeTags = 0
  /\ messageCursor = Data
  /\ argumentCurrent = Data
  /\ elementSizePtr = NoElement
  /\ messageIsInProgress = FALSE
  /\ slot = EmptyBuffer
  /\ open = << >>
  /\ sized = {}

\* The pointer moves to the new slot, which stores where it was.
BeginElement(begin) ==
  /\ IF elementSizePtr = NoElement
     THEN elementSizePtr' = Data /\ open' = <<Data>> /\ UNCHANGED slot
     ELSE /\ slot' = [slot EXCEPT ![begin] = elementSizePtr]
          /\ elementSizePtr' = begin
          /\ open' = Append(open, begin)
  /\ UNCHANGED sized

\* Mutant: the slot itself is counted.
EndElementSlotCounted(end) ==
  /\ IF elementSizePtr = Data
     THEN elementSizePtr' = NoElement /\ UNCHANGED <<slot, sized>>
     ELSE /\ elementSizePtr' = slot[elementSizePtr]
          /\ slot' = [slot EXCEPT ![elementSizePtr] = end - elementSizePtr]
          /\ sized' = sized \cup {elementSizePtr}
  /\ open' = SubSeq(open, 1, Len(open) - 1)

\* The pointer goes back to the slot it came from, and the size is stored.
EndElement(end) ==
  /\ IF elementSizePtr = Data
     THEN elementSizePtr' = NoElement /\ UNCHANGED <<slot, sized>>
     ELSE /\ elementSizePtr' = slot[elementSizePtr]
          /\ slot' = [slot EXCEPT ![elementSizePtr] = end - elementSizePtr - 4]
          /\ sized' = sized \cup {elementSizePtr}
  /\ open' = SubSeq(open, 1, Len(open) - 1)

BeginBundle ==
  /\ ~messageIsInProgress
  /\ BundleFits
  /\ BeginElement(messageCursor)
  /\ messageCursor' = messageCursor + ElementSizeSlot + 16
  /\ argumentCurrent' = messageCursor'
  /\ UNCHANGED <<typeTags, messageIsInProgress>>

EndBundle ==
  /\ elementSizePtr # NoElement
  /\ ~messageIsInProgress
  /\ EndElement(messageCursor)
  /\ UNCHANGED <<typeTags, messageCursor, argumentCurrent, messageIsInProgress>>

BeginMessage(address) ==
  /\ ~messageIsInProgress
  /\ MessageFits(address)
  /\ BeginElement(messageCursor)
  /\ messageCursor' = messageCursor + ElementSizeSlot + RoundUp4(address + 1)
  /\ argumentCurrent' = messageCursor'
  /\ typeTags' = 0
  /\ messageIsInProgress' = TRUE

\* Mutant: the element is closed before its arguments are moved.
EndMessageTooEarly ==
  /\ messageIsInProgress
  /\ EndElement(messageCursor)
  /\ messageCursor' = IF typeTags > 0
                      THEN messageCursor + RoundUp4(typeTags + 2)
                             + (argumentCurrent - messageCursor)
                      ELSE messageCursor + 4
  /\ argumentCurrent' = messageCursor'
  /\ typeTags' = 0
  /\ messageIsInProgress' = FALSE

\* The type tag string is moved in between the address and the arguments.
EndMessage ==
  /\ messageIsInProgress
  /\ messageCursor' = IF typeTags > 0
                      THEN messageCursor + RoundUp4(typeTags + 2)
                             + (argumentCurrent - messageCursor)
                      ELSE messageCursor + 4
  /\ argumentCurrent' = messageCursor'
  /\ EndElement(messageCursor')
  /\ typeTags' = 0
  /\ messageIsInProgress' = FALSE

\* bool, nil and infinitum; four and eight bytes; strings and symbols; blobs.
ArgumentBytes ==
  {0, 4, 8} \cup {RoundUp4(n + 1) : n \in StringLengths}
            \cup {4 + RoundUp4(n) : n \in BlobSizes}

\* Mutant: what is free is what lies between the arguments and end_.
AddArgumentOverTags(bytes) ==
  /\ argumentCurrent + bytes <= Capacity
  /\ typeTags' = typeTags + 1
  /\ argumentCurrent' = argumentCurrent + bytes
  /\ UNCHANGED <<messageCursor, elementSizePtr, messageIsInProgress, slot, open, sized>>

\* No operator for an argument asks whether a message is in progress.
AddArgument(bytes) ==
  /\ ArgumentFits(bytes)
  /\ typeTags' = typeTags + 1
  /\ argumentCurrent' = argumentCurrent + bytes
  /\ UNCHANGED <<messageCursor, elementSizePtr, messageIsInProgress, slot, open, sized>>

\* What the buffer still holds is not read again, and forgotten here.
Clear ==
  /\ typeTags' = 0
  /\ messageCursor' = Data
  /\ argumentCurrent' = Data
  /\ elementSizePtr' = NoElement
  /\ messageIsInProgress' = FALSE
  /\ open' = << >>
  /\ slot' = EmptyBuffer
  /\ sized' = {}

Next ==
  \/ BeginBundle
  \/ EndBundle
  \/ \E address \in AddressLengths : BeginMessage(address)
  \/ EndMessage
  \/ \E bytes \in ArgumentBytes : AddArgument(bytes)
  \/ Clear

Spec == Init /\ [][Next]_vars

----------------------------------------------------------------------------
(* Properties                                                              *)

\* Every pointer points into the buffer or to its end.
TypeOK ==
  /\ typeTags \in 0 .. Capacity
  /\ messageCursor \in 0 .. Capacity
  /\ argumentCurrent \in 0 .. Capacity
  /\ elementSizePtr \in {NoElement} \cup 0 .. Capacity
  /\ messageIsInProgress \in BOOLEAN
  /\ slot \in [0 .. Capacity -> 0 .. Capacity]
  /\ open \in Seq(0 .. Capacity)
  /\ sized \subseteq 0 .. Capacity

\* The argument that was just accepted never makes closing the message, which
\* checks nothing (355-405), write beyond the buffer: there is always room for
\* the tags that lie at its end, their comma and their padding.
MessageCanBeClosed == messageIsInProgress => Size <= Capacity

\* The arguments and the type tags that grow towards each other do not meet.
TagsAndArgumentsApart ==
  messageIsInProgress => argumentCurrent <= Capacity - typeTags

\* OSC aligns everything to four bytes, and the size slots are written through
\* a uint32 pointer.
Aligned == \A p \in {messageCursor, argumentCurrent} : p % 4 = 0

\* The chain of offsets stored in the slots (158-201) visits the open elements
\* from the innermost to the outermost, whatever was closed in between.
ChainVisitsOpenElements ==
  /\ elementSizePtr = IF open = << >> THEN NoElement ELSE open[Len(open)]
  /\ \A i \in 2 .. Len(open) : slot[open[i]] = open[i - 1]

\* EndElement's assertion (181): whoever closes an element has one open.
ElementIsOpenInMessage == messageIsInProgress => elementSizePtr # NoElement

\* "size() is valid even while building a message" (.h:76): it is the size the
\* packet has once the message is closed.
SizeIsThatOfTheClosedMessage == [][EndMessage => Size' = Size]_vars

Packet == INSTANCE OscPacket WITH
  length    <- IF messageIsInProgress THEN Size ELSE messageCursor,
  inMessage <- messageIsInProgress,
  closed    <- {[at |-> p, size |-> slot[p]] : p \in sized}

\* The stream builds a packet as OscPacket describes it.
BuildsPacket == Packet!Spec

\* Two elements whose sizes are known lie one inside the other or apart: a
\* reader that trusts the sizes finds the elements that were written.
ElementsNest ==
  \A p, q \in sized :
    LET P == Packet!Bytes([at |-> p, size |-> slot[p]])
        Q == Packet!Bytes([at |-> q, size |-> slot[q]])
    IN P \subseteq Q \/ Q \subseteq P \/ P \cap Q = {}

=============================================================================

------------------------------- MODULE OscPacket -------------------------------
(***************************************************************************)
(* What osc::OutboundPacketStream promises: a packet made of properly      *)
(* nested elements, bundles around messages, each of them but the          *)
(* outermost preceded by a slot that holds its size once it is closed.     *)
(***************************************************************************)
EXTENDS Naturals, Sequences

VARIABLES
  length,     \* bytes of the packet so far
  open,       \* where the open elements' size slots are, innermost last
  inMessage,  \* the innermost open element is a message
  closed      \* the closed elements that have a size slot

packet == <<length, open, inMessage, closed>>

Outermost == 0   \* in open: the element has no size slot
SlotSize == 4

Init ==
  /\ length = 0
  /\ open = << >>
  /\ inMessage = FALSE
  /\ closed = {}

\* An element has at least eight bytes: "#bundle", or two padded strings.
Open(isMessage) ==
  /\ ~inMessage
  /\ inMessage' = isMessage
  /\ IF open = << >>
     THEN open' = <<Outermost>> /\ length' >= length + 8
     ELSE open' = Append(open, length) /\ length' >= length + SlotSize + 8
  /\ length' % 4 = 0
  /\ UNCHANGED closed

AddArgument ==
  /\ inMessage
  /\ length' >= length /\ length' % 4 = 0
  /\ UNCHANGED <<open, inMessage, closed>>

\* The size that is announced is the distance from the slot to the end.
Close(isMessage) ==
  /\ open # << >>
  /\ inMessage = isMessage
  /\ inMessage' = FALSE
  /\ open' = SubSeq(open, 1, Len(open) - 1)
  /\ LET at == open[Len(open)] IN
       closed' = IF at = Outermost
                 THEN closed
                 ELSE closed \cup {[at |-> at, size |-> length - at - SlotSize]}
  /\ UNCHANGED length

Discard ==
  /\ length' = 0
  /\ open' = << >>
  /\ inMessage' = FALSE
  /\ closed' = {}

Next ==
  \/ \E isMessage \in BOOLEAN : Open(isMessage) \/ Close(isMessage)
  \/ AddArgument
  \/ Discard

Spec == Init /\ [][Next]_packet

----------------------------------------------------------------------------
\* The bytes of a closed element, its slot included.
Bytes(e) == e.at .. (e.at + SlotSize + e.size - 1)

=============================================================================

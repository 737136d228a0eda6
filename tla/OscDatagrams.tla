----------------------------- MODULE OscDatagrams -----------------------------
(***************************************************************************)
(* The datagrams between the program and VRChat: osc::Transmitter, which   *)
(* lays some of them out by hand and some with OutboundPacketStream, and   *)
(* osc::Receiver::Run, which takes them apart in a buffer that still holds *)
(* what earlier ones have left there. UDP may lose, repeat and reorder     *)
(* them, and other programs send some too: anything may come next.         *)
(*                                                                         *)
(* A string is a name with a length; a cell of a datagram says which byte  *)
(* of which string or value it is.                                         *)
(***************************************************************************)
EXTENDS Integers, Sequences

CONSTANTS
  Address,      \* the address patterns
  Text,         \* the string arguments
  Value,        \* the 32 bit arguments
  StringLength, \* the length of each address and text
  Capacity,     \* the bytes of tmp in Transmitter
  BufferSize,   \* the bytes of buffer in Run
  Foreign,      \* datagrams that are no OSC messages with one argument
  Garbage,      \* what a buffer may hold that nothing was written to
  Nothing       \* no datagram, no value

Nul == [kind |-> "nul", of |-> Nothing, at |-> 0]
Comma == [kind |-> "comma", of |-> Nothing, at |-> 0]
Tag(t) == [kind |-> t, of |-> Nothing, at |-> 0]
Char(s, i) == [kind |-> "char", of |-> s, at |-> i]
Byte(v, i) == [kind |-> "byte", of |-> v, at |-> i]

TagKind == {"T", "F", "i", "f", "s"}

Cell == [kind : TagKind \cup {"nul", "comma", "char", "byte"},
         of : Address \cup Text \cup Value \cup {Nothing}, at : Nat]

ASSUME DatagramAssumption ==
  /\ StringLength \in [Address \cup Text -> Nat]
  /\ Capacity \in Nat
  /\ BufferSize \in Nat /\ BufferSize > 0 /\ BufferSize % 4 = 0
  /\ Foreign \subseteq Seq(Cell)
  /\ Garbage \subseteq [0 .. BufferSize - 1 -> Cell] /\ Garbage # {}

VARIABLES
  sent,       \* the last datagram sent to VRChat and what it was to say
  overrun,    \* a datagram was longer than tmp
  buffer,
  heard       \* what was received last, and the value the listener was given

vars == <<sent, overrun, buffer, heard>>

----------------------------------------------------------------------------
(* OSC 1.0                                                                 *)

RoundUp4(x) == 4 * ((x + 3) \div 4)

Zeros(n) == [i \in 1 .. n |-> Nul]
Chars(s) == [i \in 1 .. StringLength[s] |-> Char(s, i)]
Bytes(v) == [i \in 1 .. 4 |-> Byte(v, i)]

Padded(s) == Chars(s) \o Zeros(RoundUp4(StringLength[s] + 1) - StringLength[s])

\* A message says an address, its type tags and at most one argument that takes
\* bytes: "T" and "F" take none.
Message ==
  [address : Address, tags : {<<"T">>, <<"F">>}, argument : {Nothing}]
    \cup [address : Address, tags : {<<"i">>, <<"f">>}, argument : Value]
    \cup [address : Address, tags : {<<"s">>, <<"s", "T", "T">>}, argument : Text]

Argument(m) ==
  IF m.tags[1] = "s" THEN Padded(m.argument)
  ELSE IF m.tags[1] \in {"i", "f"} THEN Bytes(m.argument)
  ELSE << >>

\* The type tag string: a comma, the tags, a terminator and padding.
TypeTags(m) ==
  <<Comma>> \o [i \in 1 .. Len(m.tags) |-> Tag(m.tags[i])]
    \o Zeros(RoundUp4(Len(m.tags) + 2) - Len(m.tags) - 1)

Osc(m) == Padded(m.address) \o TypeTags(m) \o Argument(m)

(* Transmitter                                                             *)

\* SendBool's and SendInt's loop: at most three zeros after the terminator.
MorePadding(n) == IF (n + 1) % 4 = 0 THEN 0 ELSE 4 - ((n + 1) % 4)

ByHand(m) ==
  Chars(m.address) \o <<Nul>> \o Zeros(MorePadding(StringLength[m.address]))
    \o <<Comma, Tag(m.tags[1]), Nul, Nul>> \o Argument(m)

\* OutboundPacketStream writes a tag below the one before, and EndMessage takes
\* the last one first.
StoredTags(m) == [i \in 1 .. Len(m.tags) |-> Tag(m.tags[Len(m.tags) + 1 - i])]

\* Mutant: the tags are copied as they lie.
CopiedTagsBackwards(m) == StoredTags(m)

CopiedTags(m) == [i \in 1 .. Len(m.tags) |-> StoredTags(m)[Len(m.tags) + 1 - i]]

ByStream(m) ==
  Chars(m.address) \o Zeros(RoundUp4(StringLength[m.address] + 1) - StringLength[m.address])
    \o <<Comma>> \o CopiedTags(m) \o Zeros(RoundUp4(Len(m.tags) + 2) - (Len(m.tags) + 1))
    \o Argument(m)

\* SendBool and SendInt do not compare what they write with the size of tmp.
\* What follows if it is too long is undefined, and no property speaks of it.
SendByHand(m) ==
  /\ m.tags \in {<<"T">>, <<"F">>, <<"i">>}
  /\ sent' = [says |-> m, datagram |-> ByHand(m)]
  /\ overrun' = (overrun \/ Len(ByHand(m)) > Capacity)
  /\ UNCHANGED <<buffer, heard>>

\* SendFloat, SendString and SendChatboxMessage: OutboundPacketStream throws
\* when it lacks space, and then nothing is sent.
SendByStream(m) ==
  /\ m.tags \in {<<"f">>, <<"s">>, <<"s", "T", "T">>}
  /\ Len(ByStream(m)) <= Capacity
  /\ sent' = [says |-> m, datagram |-> ByStream(m)]
  /\ UNCHANGED <<overrun, buffer, heard>>

(* Receiver::Run                                                           *)

\* Mutant: what is received is terminated.
FilledTerminated(d, left) ==
  [i \in 0 .. (IF Len(d) < BufferSize THEN BufferSize - 1 ELSE BufferSize) |->
     IF i < Len(d) THEN d[i + 1] ELSE IF i = Len(d) THEN Nul ELSE left[i]]

\* recv writes the start of the buffer.
Filled(d, left) == [i \in 0 .. BufferSize - 1 |-> IF i < Len(d) THEN d[i + 1] ELSE left[i]]

\* The first zero byte from a position on, or the end of the buffer.
End(buf, from) ==
  CHOOSE e \in from .. BufferSize :
    /\ e = BufferSize \/ buf[e] = Nul
    /\ \A i \in from .. e - 1 : buf[i] # Nul

Part(buf, from, to) == [i \in 1 .. to - from |-> buf[from + i - 1]]

\* Mutant: an address whose length is a multiple of four has no padding.
TagsAtNoPadding(buf) == RoundUp4(End(buf, 0))

TagsAt(buf) == (End(buf, 0) + 4) - ((End(buf, 0) + 4) % 4)

HasTag(buf) == TagsAt(buf) + 2 < BufferSize /\ buf[TagsAt(buf)] = Comma

\* The argument is taken to begin four bytes after the comma. An unknown tag
\* leaves the value void; a number beyond the buffer leaves it undefined.
Decoded(buf) ==
  LET tag == buf[TagsAt(buf) + 1].kind
      argument == TagsAt(buf) + 4
  IN [address |-> Part(buf, 0, End(buf, 0)),
      tag |-> tag,
      argument |-> IF tag = "s" THEN Part(buf, argument, End(buf, argument))
                   ELSE IF tag \in {"i", "f"} /\ argument + 4 <= BufferSize
                   THEN Part(buf, argument, argument + 4)
                   ELSE << >>]

\* The buffer is declared in the loop, so what is left in it may be anything. A
\* datagram that is larger fills it, but recv fails.
Receive(says, d) ==
  /\ \E left \in Garbage \cup {buffer} : buffer' = Filled(d, left)
  /\ IF Len(d) \in 1 .. BufferSize
     THEN heard' = [says |-> says,
                    value |-> IF HasTag(buffer') THEN Decoded(buffer') ELSE Nothing]
     ELSE UNCHANGED heard
  /\ UNCHANGED <<sent, overrun>>

\* VRChat's messages have one argument.
ReceiveMessage == \E m \in Message : Len(m.tags) = 1 /\ Receive(m, Osc(m))

ReceiveForeign == \E d \in Foreign : Receive(Nothing, d)

----------------------------------------------------------------------------
Init ==
  /\ sent = Nothing
  /\ overrun = FALSE
  /\ buffer \in Garbage
  /\ heard = Nothing

Next ==
  \/ \E m \in Message : SendByHand(m) \/ SendByStream(m)
  \/ ReceiveMessage \/ ReceiveForeign

Spec == Init /\ [][Next]_vars

----------------------------------------------------------------------------
(* Properties                                                              *)

\* Every variable keeps to its range: the buffer is never written beyond.
TypeOK ==
  /\ sent # Nothing => sent.says \in Message /\ sent.datagram \in Seq(Cell)
  /\ overrun \in BOOLEAN
  /\ buffer \in [0 .. BufferSize - 1 -> Cell]
  /\ heard # Nothing => heard.says \in Message \cup {Nothing}

\* What is sent, laid out by hand or by the stream, is the OSC message it is
\* meant to be, for addresses and texts of every length.
SentIsOsc == sent # Nothing /\ ~overrun => sent.datagram = Osc(sent.says)

\* tmp is only written beyond for an address that nearly fills it: what comes
\* after an address takes twelve bytes at most.
OverrunNeedsLongAddress ==
  overrun' /\ ~overrun => StringLength[sent'.says.address] + 12 > Capacity

\* What Transmitter sends is OSC for as long as it keeps to tmp, and it keeps to
\* it for every address that leaves twelve bytes (osc.cpp:95-158).
SendsOscFromTmp == [][SentIsOsc' /\ OverrunNeedsLongAddress]_vars

\* For every message that fits the buffer the listener is given a value, the one
\* the message says, whatever longer or malformed datagrams have left there.
HeardIsSaid ==
  heard # Nothing /\ heard.says # Nothing /\ ~overrun =>
    heard.value =
      [address |-> Chars(heard.says.address),
       tag |-> heard.says.tags[1],
       argument |-> IF heard.says.tags[1] = "s" THEN Chars(heard.says.argument)
                    ELSE Argument(heard.says)]

=============================================================================

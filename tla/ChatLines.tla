------------------------------ MODULE ChatLines ------------------------------
(***************************************************************************)
(* What the server says, and what ParseMessage makes of what one recv      *)
(* returns. The server's lines follow each other without a mark but their  *)
(* end; recv may stop anywhere. A text is the part of the stream that one  *)
(* recv returned, and every search of ParseMessage goes over all of it.    *)
(*                                                                         *)
(* A line is a sequence of pieces, each in two halves, so that a text may  *)
(* hold a piece, a part of it, or none. A word that is searched for is cut *)
(* between the halves:                                                     *)
(*    "info"        @badge-info=...;badges=...;  the first half with the @ *)
(*    "mod"         ...;mod=...;                                           *)
(*    "subscriber"  ...;subscriber=...;user-type=                          *)
(*    "user"        :user!user@user              the first half with the @ *)
(*    "host"        .tmi.twitch.tv                                         *)
(*    "word"        PRIVMSG (or JOIN, PART ...)                            *)
(*    "server"      :tmi.twitch.tv NOTICE (or USERSTATE, USERNOTICE ...)   *)
(*    "channel"     #channel :                   the first half the name   *)
(*    "said"        what follows the colon, and the end of the line        *)
(*    "ping"        PING :tmi.twitch.tv          the first half the word   *)
(* What a user wrote is taken to hold none of the words searched for, and  *)
(* no semicolon.                                                           *)
(***************************************************************************)
EXTENDS Integers, Sequences

CONSTANTS
  Line,      \* the lines of the server, numbered
  ChatLine,  \* those that are a user's PRIVMSG
  Channel,   \* the channel of a line, where it names one
  Tags,      \* subscriber says 1; badge-info counts the months
  Stream     \* the halves of the pieces of the lines, in order

ChatPieces == {"info", "mod", "subscriber", "user", "host", "word", "channel", "said"}

Piece == ChatPieces \cup {"server", "ping"}

\* Where a half stands in its line.
Place == [info |-> 1, mod |-> 2, subscriber |-> 3, user |-> 4, host |-> 5, word |-> 6,
          server |-> 7, channel |-> 8, said |-> 9, ping |-> 10]
Rank(at) == 2 * Place[at.piece] + at.half

ASSUME StreamAssumption ==
  /\ Line \subseteq Nat \ {0}
  /\ ChatLine \subseteq Line
  /\ DOMAIN Channel = Line
  /\ Tags \in [Line -> [subscriber : BOOLEAN, months : BOOLEAN]]
  /\ Stream \in Seq([line : Line, piece : Piece, half : {1, 2}])
  /\ \A i, j \in DOMAIN Stream :
       i < j => \/ Stream[i].line < Stream[j].line
                \/ /\ Stream[i].line = Stream[j].line
                   /\ Rank(Stream[i]) < Rank(Stream[j])
  /\ \A l \in ChatLine : \A p \in ChatPieces : \A h \in {1, 2} :
       \E i \in DOMAIN Stream : Stream[i] = [line |-> l, piece |-> p, half |-> h]

\* What one recv may return: a part of the stream.
Text ==
  {t \in {[from |-> i, to |-> j] : i, j \in DOMAIN Stream} : t.from <= t.to}

----------------------------------------------------------------------------
(* Finding a word in a text                                                *)

Held(t) == {Stream[i] : i \in t.from .. t.to}

Holds(halves, l, p, h) == [line |-> l, piece |-> p, half |-> h] \in halves

Begun(halves, l, p) == Holds(halves, l, p, 1)

\* A word is found when no end of the text cuts it.
Whole(halves, l, p) == Holds(halves, l, p, 1) /\ Holds(halves, l, p, 2)

NoLine == 0

\* Mutant: a search finds the last occurrence.
LastOf(lines) ==
  IF lines = {} THEN NoLine ELSE CHOOSE l \in lines : \A m \in lines : m <= l

\* getSubstring finds the first occurrence.
FirstOf(lines) ==
  IF lines = {} THEN NoLine ELSE CHOOSE l \in lines : \A m \in lines : l <= m

\* The line whose ".tmi.twitch.tv " is found.
Speaker(halves) == FirstOf({l \in Line : Whole(halves, l, "host")})

\* The word after it is PRIVMSG.
IsChat(halves) ==
  /\ Speaker(halves) \in ChatLine
  /\ Whole(halves, Speaker(halves), "word")

\* The line of the first "PRIVMSG ", which names the channel.
ChannelLine(halves) == FirstOf({l \in ChatLine : Whole(halves, l, "word")})

\* The line of the first "#channel :", whosever it is, after which the message
\* begins.
SaidLine(halves) ==
  FirstOf({l \in Line : Whole(halves, l, "channel") /\ Channel[l] = Channel[ChannelLine(halves)]})

\* The line of the first "mod=", and that of the first "subscriber=": two
\* searches, which need not end in the same line.
ModLine(halves) == FirstOf({l \in Line : Whole(halves, l, "mod")})
SubscriberLine(halves) == FirstOf({l \in Line : Whole(halves, l, "subscriber")})

\* The tags are split from the first "@" on, so a line's badge-info is seen
\* as such only if that "@" is its own, and not the one after a user's name.
MonthsLine(halves) ==
  FirstOf({l \in Line :
    /\ Begun(halves, l, "info")
    /\ \A m \in Line : Begun(halves, m, "info") \/ Begun(halves, m, "user") => l <= m})

\* std::stoi of the months of a subscriber whose badge-info was not seen, or
\* counts none (a founder's).
Throws(halves) ==
  /\ IsChat(halves)
  /\ SubscriberLine(halves) # NoLine /\ Tags[SubscriberLine(halves)].subscriber
  /\ MonthsLine(halves) # NoLine => ~Tags[MonthsLine(halves)].months

\* The text ends in the tags of a later line: what Split returns may be shorter
\* than the index that is read from it.
ReadsPastSplit(t) == IsChat(Held(t)) /\ Stream[t.to].piece \in {"info", "mod", "subscriber"}

----------------------------------------------------------------------------
(* The message                                                             *)

\* The channel's name is cut off: nothing is found after it. Where it is
\* missing altogether " :" is searched for, and found before the host.
IsGarbled(halves) == IsChat(halves) /\ ~Begun(halves, ChannelLine(halves), "channel")

\* ProcessInput hands on a message that is not empty; here only what stands
\* behind a "#channel :" counts as one.
IsHeard(halves) ==
  /\ IsChat(halves) /\ ~IsGarbled(halves)
  /\ SaidLine(halves) # NoLine /\ Begun(halves, SaidLine(halves), "said")

\* Whose words it holds, and whose flags.
Message(t) ==
  LET halves == Held(t)
  IN  [said |-> SaidLine(halves), mod |-> ModLine(halves),
       subscriber |-> SubscriberLine(halves), text |-> t]

Messages == [t \in Text |-> IF IsHeard(Held(t)) THEN <<Message(t)>> ELSE << >>]

\* What ParseMessage throws on, and what makes it read past the end of a vector.
Throwing == {t \in Text : Throws(Held(t))}
Undefined == {t \in Text : ReadsPastSplit(t)}

\* The beginning of a PING: it may be the four letters and nothing else.
CutPing == {t \in Text : t.from = t.to /\ Stream[t.from].piece = "ping"
                                      /\ Stream[t.from].half = 1}

----------------------------------------------------------------------------
\* A text begins with a part of line l.
CutsInto(t, l) ==
  \E i \in DOMAIN Stream : /\ i < t.from
                           /\ Stream[i].line = l /\ Stream[t.from].line = l

\* In front of line l a text has that tag of a line that is no chat line: the
\* program's own, of the USERSTATE that Twitch sends after what the program said,
\* or those of a USERNOTICE.
OtherTagBefore(t, l, tag) == \E k \in Line \ ChatLine : k < l /\ Whole(Held(t), k, tag)

\* A text is line l and nothing else.
IsLine(t, l) == \A i \in DOMAIN Stream : i \in t.from .. t.to <=> Stream[i].line = l
=============================================================================

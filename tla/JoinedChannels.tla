---------------------------- MODULE JoinedChannels ----------------------------
(***************************************************************************)
(* The channels that are listed in the settings window and those that      *)
(* Twitch was told to join: the join list of Settings/Settings.json, the   *)
(* Join button and the Part buttons. All of it is the main thread's.       *)
(*                                                                         *)
(* A Part button hands TwitchApi::Part a reference into the vector that    *)
(* Part erases from: after each erase, aChannel is whatever has moved into *)
(* that slot. When the slot itself is gone, comparing with it is undefined:*)
(* the comparison comes out either way, or the program crashes.            *)
(***************************************************************************)
EXTENDS Naturals, SequencesExt

CONSTANTS
  Channel,
  JoinList,   \* the channels of the settings file
  MaxListed   \* bound: channels in the list

ASSUME JoinListAssumption ==
  /\ JoinList \in Seq(Channel) /\ Len(JoinList) <= MaxListed
  /\ MaxListed \in Nat

VARIABLES
  connected,        \* Connect has succeeded
  myJoinedChannels,
  told,             \* the channels Twitch has us in
  main,             \* "window", in "part", or "crashed"
  slot,             \* the element that aChannel refers to, from 1
  at,               \* Part's index, from 1
  behind,           \* history: channels that were listed behind one that was
                    \* parted, and not joined since
  doubled,          \* history: channels parted by a button below another for the
                    \* same channel, and not joined since
  undefined         \* history: a comparison with an element that is gone

joinedVars == <<connected, myJoinedChannels, told, main, slot, at, behind, doubled, undefined>>

JoinedInit ==
  /\ connected \in BOOLEAN
  /\ myJoinedChannels = IF connected THEN JoinList ELSE << >>
  /\ told = ToSet(myJoinedChannels)
  /\ main = "window"
  /\ slot = 1 /\ at = 1
  /\ behind = {} /\ doubled = {}
  /\ undefined = FALSE

\* The Join button. Without a connection JOIN is sent nowhere.
Join(c) ==
  /\ main = "window"
  /\ Len(myJoinedChannels) < MaxListed
  /\ myJoinedChannels' = Append(myJoinedChannels, c)
  /\ told' = IF connected THEN told \union {c} ELSE told
  /\ behind' = behind \ {c}
  /\ doubled' = doubled \ {c}
  /\ UNCHANGED <<connected, main, slot, at, undefined>>

\* Mutant: PART is not sent.
BeginPartSilently(i) ==
  /\ main = "window"
  /\ main' = "part"
  /\ slot' = i /\ at' = 1
  /\ behind' = behind \union {myJoinedChannels[k] : k \in i + 1 .. Len(myJoinedChannels)}
  /\ UNCHANGED <<connected, myJoinedChannels, told, doubled, undefined>>

\* The Part button of the i-th channel: PART is sent, and the loop begins.
BeginPart(i) ==
  LET c == myJoinedChannels[i]
  IN  /\ main = "window"
      /\ main' = "part"
      /\ told' = told \ {c}
      /\ slot' = i /\ at' = 1
      /\ behind' = behind \union {myJoinedChannels[k] : k \in i + 1 .. Len(myJoinedChannels)}
      /\ doubled' = IF \E k \in 1 .. i - 1 : myJoinedChannels[k] = c
                    THEN doubled \union {c} ELSE doubled
      /\ UNCHANGED <<connected, myJoinedChannels, undefined>>

SlotIsGone == slot > Len(myJoinedChannels)

\* How myJoinedChannels[i] == aChannel may come out.
Equal == IF SlotIsGone THEN BOOLEAN ELSE {myJoinedChannels[at] = myJoinedChannels[slot]}

\* Mutants: i is not decremented after an erase; it is decremented twice.
EraseAndSkip ==
  /\ TRUE \in Equal
  /\ myJoinedChannels' = RemoveAt(myJoinedChannels, at)
  /\ at' = at + 1

EraseAndGoBack ==
  /\ TRUE \in Equal
  /\ myJoinedChannels' = RemoveAt(myJoinedChannels, at)
  /\ at' = at - 1

Erase ==
  /\ TRUE \in Equal
  /\ myJoinedChannels' = RemoveAt(myJoinedChannels, at)
  /\ UNCHANGED at

Pass ==
  /\ FALSE \in Equal
  /\ at' = at + 1
  /\ UNCHANGED myJoinedChannels

\* One turn of Part's loop.
PartTurn ==
  /\ main = "part" /\ at <= Len(myJoinedChannels)
  /\ Erase \/ Pass
  /\ undefined' = (undefined \/ SlotIsGone)
  /\ UNCHANGED <<connected, told, main, slot, behind, doubled>>

PartCrashes ==
  /\ main = "part" /\ at <= Len(myJoinedChannels) /\ SlotIsGone
  /\ main' = "crashed"
  /\ undefined' = TRUE
  /\ UNCHANGED <<connected, myJoinedChannels, told, slot, at, behind, doubled>>

EndPart ==
  /\ main = "part" /\ at > Len(myJoinedChannels)
  /\ main' = "window"
  /\ UNCHANGED <<connected, myJoinedChannels, told, slot, at, behind, doubled, undefined>>

JoinedNext ==
  \/ \E c \in Channel : Join(c)
  \/ \E i \in DOMAIN myJoinedChannels : BeginPart(i)
  \/ PartTurn \/ PartCrashes \/ EndPart

JoinedSpec == JoinedInit /\ [][JoinedNext]_joinedVars

----------------------------------------------------------------------------
Listed == ToSet(myJoinedChannels)

\* Every variable is in its range: Part's index never falls below the list's
\* first, in spite of "i--" on an index that may be 0.
JoinedTypeOK ==
  /\ connected \in BOOLEAN
  /\ myJoinedChannels \in Seq(Channel) /\ Len(myJoinedChannels) <= MaxListed
  /\ told \subseteq Channel
  /\ main \in {"window", "part", "crashed"}
  /\ slot \in 1 .. MaxListed + 1
  /\ at \in 1 .. MaxListed + 1
  /\ behind \subseteq Channel /\ doubled \subseteq Channel
  /\ undefined \in BOOLEAN

\* With a connection, a channel that the settings window lists is one that
\* Twitch has us in, unless it was listed twice and parted by its second
\* button: TwitchApi::Part then goes on with another channel's name.
ListedIsJoined ==
  main = "window" /\ connected => Listed \ told \subseteq doubled

\* A channel that Twitch has us in, so that its messages are handled, is listed
\* and can be parted, unless it stood behind one that was: Part erases these
\* too, and tells Twitch nothing of them.
JoinedIsListed ==
  main = "window" /\ ~undefined => told \ Listed \subseteq behind
=============================================================================

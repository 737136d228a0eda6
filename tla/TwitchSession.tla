---------------------------- MODULE TwitchSession ----------------------------
(***************************************************************************)
(* TwitchClient on the stream of lines of ChatLines: recv returns the next *)
(* part of the stream, whatever has arrived of it, and PopMessage makes a  *)
(* message of it.                                                          *)
(***************************************************************************)
EXTENDS TwitchClient

VARIABLES
  next,   \* where in the stream the next recv begins
  heard   \* history: the messages handed to the bots, in order, until raced

sessionVars == <<vars, next, heard>>

SessionInit == Init /\ next = 1 /\ heard = << >>

SessionReceive ==
  /\ \E to \in DOMAIN Stream :
       /\ next <= to
       /\ ReceiveText([from |-> next, to |-> to])
       /\ next' = to + 1
  /\ UNCHANGED heard

\* The program ends on what recv returned.
SessionCutPing ==
  /\ next \in DOMAIN Stream
  /\ ReceiveCutPing([from |-> next, to |-> next])
  /\ UNCHANGED <<next, heard>>

\* Mutant: the chunk is handed on, but stays in the queue.
SessionPopNothing ==
  /\ main = "pop" /\ myChatMessages # << >>
  /\ main' = "handle"
  /\ heard' = IF raced THEN heard ELSE heard \o Messages[Head(myChatMessages).text]
  /\ UNCHANGED <<net, threadVars, queueVars, next>>

\* PopMessage returns, and ProcessInput hands the message on.
SessionPop ==
  /\ Pop
  /\ heard' = IF raced THEN heard ELSE heard \o Messages[Head(myChatMessages).text]
  /\ UNCHANGED next

SessionMain ==
  \/ SessionPop
  \/ /\ \/ Connect \/ StartFrame \/ Check \/ Parse \/ Handle
        \/ Disconnect \/ Join \/ Exit
     /\ UNCHANGED <<next, heard>>

SessionNet == NetStep /\ UNCHANGED <<next, heard>>

SessionNext ==
  \/ SessionMain
  \/ SessionReceive
  \/ SessionCutPing
  \/ (Quit \/ Crash \/ ThreadStarts \/ Pushed \/ LoopEnds) /\ UNCHANGED <<next, heard>>

\* Both threads are scheduled; nothing is assumed of the server or the user.
SessionFairness == WF_sessionVars(SessionMain) /\ WF_sessionVars(SessionNet)

SessionSpec == SessionInit /\ [][SessionNext]_sessionVars

FairSessionSpec == SessionSpec /\ SessionFairness

----------------------------------------------------------------------------
(* Properties                                                              *)

\* Every variable stays in its range.
SessionTypeOK ==
  /\ TypeOK
  /\ next \in 1 .. Len(Stream) + 1
  /\ heard \in Seq([said : Line, mod : Line \cup {NoLine}, subscriber : Line \cup {NoLine},
                    text : Text])

\* What a user wrote goes with the flags (moderator, subscriber) of the line
\* in which it was written, whatever else is in the chunk, unless recv had cut
\* that very line and the beginning of it was in the chunk before, or that very
\* tag of the program's own USERSTATE comes first (ParseMessage, NetworkLoop).
FlagsAreTheAuthors ==
  \A i \in DOMAIN heard : \A tag \in {"mod", "subscriber"} :
    heard[i].said \in ChatLine =>
      \/ heard[i][tag] = heard[i].said
      \/ CutsInto(heard[i].text, heard[i].said)
      \/ OtherTagBefore(heard[i].text, heard[i].said, tag)

\* The lines of the messages that were handed on.
HandledLines == [i \in DOMAIN heard |-> heard[i].said]

Feed == INSTANCE ChatFeed WITH handled <- HandledLines

\* The bots are handed what is said in a channel, by users or in the server's
\* notices, in the order in which the server sent it and nothing twice, whatever
\* recv cuts or joins and although a chunk stays in the queue while it is parsed
\* (PopMessage, ParseMessage).
ImplementsFeed == Feed!Spec

\* A chat line that arrives in a chunk of its own is handed on with its own
\* flags, and every chunk is popped, unless the program ends, the queue was run
\* into, or the chunk or one before it makes ParseMessage fail: that one is
\* never popped and holds up all behind it.
ChunksAreHeard ==
  \A n \in 1 .. MaxChunks :
    (Len(received) >= n)
      ~> \/ /\ Len(popped) >= n
            /\ \A l \in ChatLine :
                 IsLine(received[n].text, l)
                   => \E i \in DOMAIN heard :
                        heard[i] = [said |-> l, mod |-> l, subscriber |-> l,
                                    text |-> received[n].text]
         \/ raced
         \/ main \in {"disconnect", "join", "exit", "exited", "terminated", "crashed"}
         \/ \E i \in 1 .. n : /\ i <= Len(received)
                               /\ received[i].text \in Throwing \cup Undefined
=============================================================================

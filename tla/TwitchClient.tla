----------------------------- MODULE TwitchClient -----------------------------
(***************************************************************************)
(* TwitchApi: the network thread receives chunks of chat lines and pushes  *)
(* them on a queue that the main thread drains once per frame, with no     *)
(* lock between them; and the start and the end of that thread.            *)
(*                                                                         *)
(* A std::queue operation is an interval. When a push overlaps front() or  *)
(* pop() the queue is no longer what either thread thinks (raced): from    *)
(* then on a push may get lost, a pop may leave a destroyed chunk behind,  *)
(* and the program may crash.                                              *)
(***************************************************************************)
EXTENDS ChatLines

CONSTANTS
  NoText,      \* an empty string
  MaxChunks    \* bound: chunks the server sends

ASSUME ChunkAssumption == NoText \notin Text /\ MaxChunks \in Nat

VARIABLES
  main,                \* where the main thread is
  net,                 \* where the network thread is
  myNetworkIsWalking,
  joinable,            \* myNetworkThread stands for a thread nobody has joined
  myChatMessages,
  arriving,            \* the chunk that is being pushed
  raced,
  received,            \* history: the chunks received and pushed, in order
  popped,              \* history: the chunks popped, in order, until raced
  begunBeforeExit      \* history: the thread ran before Disconnect looked

vars == <<main, net, myNetworkIsWalking, joinable, myChatMessages, arriving, raced,
          received, popped, begunBeforeExit>>

queueVars == <<myChatMessages, arriving, raced, received, popped>>
threadVars == <<myNetworkIsWalking, joinable, begunBeforeExit>>

\* What a pop that was run into leaves at the head: an empty string.
Destroyed == [id |-> 0, text |-> NoText]

Chunk == [id : 1 .. MaxChunks, text : Text]
QueuedChunk == Chunk \cup {Destroyed}

----------------------------------------------------------------------------
Init ==
  /\ main = "connect"
  /\ net = "none"
  /\ myNetworkIsWalking = FALSE
  /\ joinable = FALSE
  /\ myChatMessages = << >>
  /\ arriving = Destroyed
  /\ raced = FALSE
  /\ received = << >>
  /\ popped = << >>
  /\ begunBeforeExit = FALSE

(* The main thread                                                         *)

Connect ==
  /\ main = "connect"
  /\ main' = "frame"
  /\ \/ net' = "spawned" /\ joinable' = TRUE
     \/ UNCHANGED <<net, joinable>>                 \* no connection
  /\ UNCHANGED <<myNetworkIsWalking, begunBeforeExit, queueVars>>

\* Application::Update, and then ProcessInput.
StartFrame ==
  /\ main = "frame"
  /\ main' = "check"
  /\ UNCHANGED <<net, threadVars, queueVars>>

\* Mutant: the last chunk is left in the queue.
CheckMoreThanOne ==
  /\ main = "check"
  /\ IF Len(myChatMessages) <= 1
     THEN main' = "frame" /\ UNCHANGED raced
     ELSE main' = "parse" /\ raced' = (raced \/ net = "pushing")
  /\ UNCHANGED <<net, threadVars, myChatMessages, arriving, received, popped>>

\* IsMessageQueueEmpty, and PopMessage's front(), whose chunk is then parsed.
Check ==
  /\ main = "check"
  /\ IF myChatMessages = << >>
     THEN main' = "frame" /\ UNCHANGED raced
     ELSE main' = "parse" /\ raced' = (raced \/ net = "pushing")
  /\ UNCHANGED <<net, threadVars, myChatMessages, arriving, received, popped>>

\* ParseMessage throws past pop(), to the catch around the loop. What it reads
\* past the end of a vector may be anything.
Parse ==
  /\ main = "parse" /\ myChatMessages # << >>
  /\ LET text == Head(myChatMessages).text
     IN  \/ /\ text \notin Throwing
            /\ main' = "pop" /\ raced' = (raced \/ net = "pushing")
         \/ /\ text \in Throwing \cup Undefined
            /\ main' = "frame" /\ UNCHANGED raced
  /\ UNCHANGED <<net, threadVars, myChatMessages, arriving, received, popped>>

\* Mutant: the whole queue is dropped.
PopAll ==
  /\ main = "pop" /\ myChatMessages # << >>
  /\ main' = "handle"
  /\ popped' = Append(popped, Head(myChatMessages))
  /\ myChatMessages' = << >>
  /\ UNCHANGED <<net, threadVars, arriving, raced, received>>

Pop ==
  /\ main = "pop" /\ myChatMessages # << >>
  /\ main' = "handle"
  /\ popped' = IF raced THEN popped ELSE Append(popped, Head(myChatMessages))
  /\ \/ myChatMessages' = Tail(myChatMessages)
     \/ raced /\ myChatMessages' = [myChatMessages EXCEPT ![1] = Destroyed]
  /\ UNCHANGED <<net, threadVars, arriving, raced, received>>

\* The bots see the message; one of them may throw.
Handle ==
  /\ main = "handle"
  /\ main' \in {"check", "frame"}
  /\ UNCHANGED <<net, threadVars, queueVars>>

\* Application::Run returned.
Quit ==
  /\ main = "frame"
  /\ main' = "disconnect"
  /\ UNCHANGED <<net, threadVars, queueVars>>

\* Mutants: the thread is not joined; its flag is not taken down.
DisconnectNoJoin ==
  /\ main = "disconnect"
  /\ begunBeforeExit' = (begunBeforeExit \/ net \notin {"none", "spawned"})
  /\ main' = "exit" /\ myNetworkIsWalking' = FALSE
  /\ UNCHANGED <<net, joinable, queueVars>>

DisconnectFlagUp ==
  /\ main = "disconnect"
  /\ main' = IF myNetworkIsWalking THEN "join" ELSE "exit"
  /\ UNCHANGED <<net, threadVars, queueVars>>

\* Disconnect: only a thread that has set its flag is joined.
Disconnect ==
  /\ main = "disconnect"
  /\ begunBeforeExit' = (begunBeforeExit \/ net \notin {"none", "spawned"})
  /\ IF myNetworkIsWalking
     THEN main' = "join" /\ myNetworkIsWalking' = FALSE
     ELSE main' = "exit" /\ UNCHANGED myNetworkIsWalking
  /\ UNCHANGED <<net, joinable, queueVars>>

Join ==
  /\ main = "join" /\ net = "ended"
  /\ main' = "disconnect"
  /\ joinable' = FALSE
  /\ UNCHANGED <<net, myNetworkIsWalking, begunBeforeExit, queueVars>>

\* The client is destroyed: ~thread of a joinable thread is std::terminate.
Exit ==
  /\ main = "exit"
  /\ main' = IF joinable THEN "terminated" ELSE "exited"
  /\ UNCHANGED <<net, threadVars, queueVars>>

\* The main thread uses a queue that was run into, or reads past a vector.
Crash ==
  /\ \/ main \in {"check", "parse", "pop"} /\ raced
     \/ main = "parse" /\ myChatMessages # << >> /\ Head(myChatMessages).text \in Undefined
  /\ main' = "crashed"
  /\ UNCHANGED <<net, threadVars, queueVars>>

(* The network thread, which lives while the process does                  *)

ProcessLives == main \notin {"exited", "terminated", "crashed"}

ThreadStarts ==
  /\ ProcessLives /\ net = "spawned"
  /\ myNetworkIsWalking' = TRUE
  /\ net' \in {"loop", "ended"}                  \* ioctlsocket may fail
  /\ UNCHANGED <<main, joinable, begunBeforeExit, queueVars>>

\* Mutant: recv's 0, the end of the connection, is taken for data.
ReceiveNothing(text) ==
  /\ ProcessLives /\ net = "loop" /\ myNetworkIsWalking
  /\ Len(received) < MaxChunks
  /\ net' = "pushing"
  /\ arriving' = [id |-> Len(received) + 1, text |-> NoText]
  /\ received' = Append(received, arriving')
  /\ raced' = (raced \/ main = "pop")
  /\ UNCHANGED <<main, threadVars, myChatMessages, popped>>

\* recv returned data; a leading PING is answered; push() begins.
ReceiveText(text) ==
  /\ ProcessLives /\ net = "loop" /\ myNetworkIsWalking
  /\ Len(received) < MaxChunks
  /\ net' = "pushing"
  /\ arriving' = [id |-> Len(received) + 1, text |-> text]
  /\ received' = Append(received, arriving')
  /\ raced' = (raced \/ main = "pop")
  /\ UNCHANGED <<main, threadVars, myChatMessages, popped>>

Receive == \E text \in Text : ReceiveText(text)

\* recv returned PING and no more: substr(5) throws, and nothing catches it on
\* this thread, so it is std::terminate.
ReceiveCutPing(text) ==
  /\ ProcessLives /\ net = "loop" /\ myNetworkIsWalking
  /\ Len(received) < MaxChunks
  /\ text \in CutPing
  /\ main' = "crashed"
  /\ UNCHANGED <<net, threadVars, queueVars>>

CutPingThrows == \E text \in CutPing : ReceiveCutPing(text)

\* push() ends.
Pushed ==
  /\ ProcessLives /\ net = "pushing"
  /\ net' = "loop"
  /\ \/ myChatMessages' = Append(myChatMessages, arriving)
     \/ raced /\ UNCHANGED myChatMessages
  /\ UNCHANGED <<main, threadVars, arriving, raced, received, popped>>

\* The flag is down, or the connection is closed, reset or broken.
LoopEnds ==
  /\ ProcessLives /\ net = "loop"
  /\ net' = "ended"
  /\ UNCHANGED <<main, threadVars, queueVars>>

MainStep == \/ Connect \/ StartFrame \/ Check \/ Parse \/ Pop \/ Handle
            \/ Disconnect \/ Join \/ Exit
NetStep == ThreadStarts \/ Pushed \/ (~myNetworkIsWalking /\ LoopEnds)

Next == MainStep \/ Quit \/ Crash \/ ThreadStarts \/ Receive \/ CutPingThrows
        \/ Pushed \/ LoopEnds

\* Both threads are scheduled; nothing is assumed of the server or the user.
Fairness == WF_vars(MainStep) /\ WF_vars(NetStep)

Spec == Init /\ [][Next]_vars

FairSpec == Spec /\ Fairness

----------------------------------------------------------------------------
(* Properties                                                              *)

MainState == {"connect", "frame", "check", "parse", "pop", "handle", "disconnect",
              "join", "exit", "exited", "terminated", "crashed"}

\* Every variable stays in its range.
TypeOK ==
  /\ main \in MainState
  /\ net \in {"none", "spawned", "loop", "pushing", "ended"}
  /\ myNetworkIsWalking \in BOOLEAN /\ joinable \in BOOLEAN
  /\ begunBeforeExit \in BOOLEAN /\ raced \in BOOLEAN
  /\ myChatMessages \in Seq(QueuedChunk)
  /\ arriving \in QueuedChunk
  /\ received \in Seq(Chunk)
  /\ popped \in Seq(QueuedChunk)

InFlight == IF net = "pushing" THEN <<arriving>> ELSE << >>

\* The chunks received are, in order, those popped, those queued, and the one
\* being pushed: nothing is lost, repeated or reordered between the threads as
\* long as no push ran into the main thread (NetworkLoop, PopMessage).
FifoUnlessRaced ==
  ~raced => received = (popped \o myChatMessages) \o InFlight

\* Disconnect leaves a thread behind, and so ends in std::terminate, only when
\* it looked at myNetworkIsWalking before the thread's first statement.
OnlyEarlyExitTerminates == main = "terminated" => ~begunBeforeExit

\* A clean exit leaves no network thread running.
ExitedAlone == main = "exited" => net \in {"none", "ended"}

\* Disconnect comes back: the thread it waits for sees the flag, or ends the
\* program on a PING that is cut short (Disconnect, NetworkLoop).
DisconnectReturns == main = "disconnect" ~> main \in {"exited", "terminated", "crashed"}
=============================================================================

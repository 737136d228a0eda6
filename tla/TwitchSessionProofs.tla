------------------------- MODULE TwitchSessionProofs -------------------------
(***************************************************************************)
(* Proofs about TwitchClient and TwitchSession, for every stream of lines  *)
(* and every bound: what is received, and how far each thread is from      *)
(* handing it on or from its end.                                          *)
(***************************************************************************)
EXTENDS TwitchSession, SequenceTheorems, WellFoundedInduction, TLAPS

\* Appending to the second of two sequences appends to both.
LEMMA AppendRight ==
  ASSUME NEW S, NEW s \in Seq(S), NEW t \in Seq(S), NEW e \in S
  PROVE  s \o Append(t, e) = Append(s \o t, e)
<1>1. <<e>> \in Seq(S) /\ s \o t \in Seq(S)
  BY ConcatProperties
<1>2. Append(t, e) = t \o <<e>> /\ Append(s \o t, e) = (s \o t) \o <<e>>
  BY <1>1, AppendIsConcat
<1> QED
  BY <1>1, <1>2, ConcatAssociative

\* Moving the head of the second to the end of the first changes nothing.
LEMMA MoveHead ==
  ASSUME NEW S, NEW s \in Seq(S), NEW t \in Seq(S), t # << >>
  PROVE  Append(s, Head(t)) \o Tail(t) = s \o t
<1>1. Head(t) \in S /\ Tail(t) \in Seq(S) /\ <<Head(t)>> \in Seq(S)
  BY HeadTailProperties
<1>2. Append(s, Head(t)) = s \o <<Head(t)>>
  BY <1>1, AppendIsConcat
<1>3. <<Head(t)>> \o Tail(t) = t
  OBVIOUS
<1> QED
  BY <1>1, <1>2, <1>3, ConcatAssociative

----------------------------------------------------------------------------
\* No step leaves the types.
LEMMA TypeStep == TypeOK /\ [Next]_vars => TypeOK'
<1> SUFFICES ASSUME TypeOK, [Next]_vars PROVE TypeOK'
  OBVIOUS
<1> USE DEF TypeOK, queueVars, threadVars
<1>1. CASE Connect
  BY <1>1 DEF Connect, MainState
<1>2. CASE StartFrame
  BY <1>2 DEF StartFrame, MainState
<1>3. CASE Check
  BY <1>3 DEF Check, MainState
<1>4. CASE Parse
  BY <1>4 DEF Parse, MainState
<1>5. CASE Pop
  <2>1. popped' \in Seq(QueuedChunk)
    BY <1>5, HeadTailProperties DEF Pop
  <2>2. Tail(myChatMessages) \in Seq(QueuedChunk)
    BY <1>5, HeadTailProperties DEF Pop
  <2>3. [myChatMessages EXCEPT ![1] = Destroyed] \in Seq(QueuedChunk)
    BY <1>5, ExceptSeq DEF Pop, QueuedChunk
  <2> QED
    BY <1>5, <2>1, <2>2, <2>3 DEF Pop, MainState
<1>6. CASE Handle
  BY <1>6 DEF Handle, MainState
<1>7. CASE Quit \/ Disconnect
  BY <1>7 DEF Quit, Disconnect, MainState
<1>8. CASE Join \/ Exit
  BY <1>8 DEF Join, Exit, MainState
<1>9. CASE Crash
  BY <1>9 DEF Crash, MainState
<1>10. CASE ThreadStarts
  BY <1>10 DEF ThreadStarts
<1>11. CASE Receive
  <2>1. arriving' \in Chunk
    BY <1>11, ChunkAssumption DEF Receive, ReceiveText, Chunk
  <2>2. received' \in Seq(Chunk)
    BY <1>11, <2>1 DEF Receive, ReceiveText
  <2> QED
    BY <1>11, <2>1, <2>2 DEF Receive, ReceiveText, QueuedChunk
<1>12. CASE Pushed
  BY <1>12 DEF Pushed
<1>13. CASE LoopEnds
  BY <1>13 DEF LoopEnds
<1>14. CASE CutPingThrows
  BY <1>14 DEF CutPingThrows, ReceiveCutPing, MainState
<1>15. CASE UNCHANGED vars
  BY <1>15 DEF vars
<1> QED
  BY <1>1, <1>2, <1>3, <1>4, <1>5, <1>6, <1>7, <1>8, <1>9, <1>10, <1>11, <1>12,
     <1>13, <1>14, <1>15 DEF Next, MainStep

\* The variables have their types to begin with.
LEMMA TypeInit == Init => TypeOK
<1> SUFFICES ASSUME Init PROVE TypeOK
  OBVIOUS
<1>1. \A S : << >> \in Seq(S)
  OBVIOUS
<1>2. arriving \in QueuedChunk
  BY DEF Init, QueuedChunk
<1> QED
  BY <1>1, <1>2 DEF Init, TypeOK, MainState

\* The type invariant.
THEOREM TwitchTyping == Spec => []TypeOK
  BY TypeInit, TypeStep, PTL DEF Spec

----------------------------------------------------------------------------
\* How the flag, the std::thread object and the thread go together: a thread
\* that runs and is not joined has the flag up until Disconnect takes it down,
\* and Disconnect then joins it.
ThreadInv ==
  /\ main = "connect" => net = "none" /\ ~begunBeforeExit
  /\ ~joinable => net \in {"none", "ended"}
  /\ joinable /\ net \notin {"none", "spawned"}
       => myNetworkIsWalking \/ main \in {"join", "exit", "exited", "terminated"}
  /\ begunBeforeExit => main \in {"join", "crashed"} \/ ~joinable
  /\ main = "terminated" => joinable
  /\ main = "exited" => ~joinable

\* ThreadInv is an invariant.
LEMMA ThreadInvariant == Spec => []ThreadInv
<1>1. Init => ThreadInv
  BY DEF Init, ThreadInv
<1>2. TypeOK /\ ThreadInv /\ [Next]_vars => ThreadInv'
  <2> SUFFICES ASSUME TypeOK, ThreadInv, [Next]_vars PROVE ThreadInv'
    OBVIOUS
  <2> USE DEF ThreadInv, queueVars, threadVars
  <2>1. CASE Connect
    BY <2>1 DEF Connect
  <2>2. CASE StartFrame \/ Check \/ Parse \/ Pop \/ Handle \/ Quit \/ Crash
    BY <2>2 DEF StartFrame, Check, Parse, Pop, Handle, Quit, Crash
  <2>3. CASE Disconnect
    BY <2>3 DEF Disconnect
  <2>4. CASE Join
    BY <2>4 DEF Join
  <2>5. CASE Exit
    BY <2>5 DEF Exit
  <2>6. CASE ThreadStarts
    BY <2>6 DEF ThreadStarts, ProcessLives
  <2>7. CASE Receive \/ Pushed \/ LoopEnds
    BY <2>7 DEF Receive, ReceiveText, Pushed, LoopEnds, ProcessLives
  <2>8. CASE CutPingThrows
    BY <2>8 DEF CutPingThrows, ReceiveCutPing, ProcessLives
  <2>9. CASE UNCHANGED vars
    BY <2>9 DEF vars
  <2> QED
    BY <2>1, <2>2, <2>3, <2>4, <2>5, <2>6, <2>7, <2>8, <2>9 DEF Next, MainStep
<1> QED
  BY <1>1, <1>2, TwitchTyping, PTL DEF Spec

\* std::terminate at exit means that Disconnect looked before the thread began.
THEOREM OnlyEarly == Spec => []OnlyEarlyExitTerminates
<1>1. ThreadInv => OnlyEarlyExitTerminates
  BY DEF ThreadInv, OnlyEarlyExitTerminates
<1> QED
  BY <1>1, ThreadInvariant, PTL

\* A clean exit leaves no thread running.
THEOREM Alone == Spec => []ExitedAlone
<1>1. ThreadInv => ExitedAlone
  BY DEF ThreadInv, ExitedAlone
<1> QED
  BY <1>1, ThreadInvariant, PTL

----------------------------------------------------------------------------
(* What DisconnectReturns rests on                                         *)

\* Only a thread that has begun has its flag up; and Disconnect waits for such
\* a thread, with the flag down.
JoinInv ==
  /\ myNetworkIsWalking => net \notin {"none", "spawned"}
  /\ main = "join" => ~myNetworkIsWalking /\ net \notin {"none", "spawned"}

LEMMA JoinInvariant == Spec => []JoinInv
<1>1. Init => JoinInv
  BY DEF Init, JoinInv
<1>2. TypeOK /\ ThreadInv /\ JoinInv /\ [Next]_vars => JoinInv'
  <2> SUFFICES ASSUME TypeOK, ThreadInv, JoinInv, [Next]_vars PROVE JoinInv'
    OBVIOUS
  <2> USE DEF JoinInv, queueVars, threadVars
  <2>1. CASE Connect
    BY <2>1 DEF Connect, ThreadInv
  <2>2. CASE Disconnect \/ Join
    BY <2>2 DEF Disconnect, Join
  <2>3. CASE StartFrame \/ Check \/ Parse \/ Pop \/ Handle \/ Exit \/ Quit \/ Crash
    BY <2>3 DEF StartFrame, Check, Parse, Pop, Handle, Exit, Quit, Crash
  <2>4. CASE ThreadStarts \/ Receive \/ CutPingThrows \/ Pushed \/ LoopEnds
    BY <2>4 DEF ThreadStarts, Receive, ReceiveText, CutPingThrows, ReceiveCutPing, Pushed,
                LoopEnds
  <2>5. CASE UNCHANGED vars
    BY <2>5 DEF vars
  <2> QED
    BY <2>1, <2>2, <2>3, <2>4, <2>5 DEF Next, MainStep
<1> QED
  BY <1>1, <1>2, TwitchTyping, ThreadInvariant, PTL DEF Spec

Leaving == main \in {"disconnect", "join", "exit"}

NetworkStep == ThreadStarts \/ Receive \/ CutPingThrows \/ Pushed \/ LoopEnds

\* The main thread's steps until it has left: a thread that has not begun may
\* still do so, and is then joined.
MainLeft ==
  CASE main = "disconnect" -> IF myNetworkIsWalking \/ net = "spawned" THEN 4 ELSE 2
    [] main = "join"       -> 3
    [] main = "exit"       -> 1
    [] OTHER               -> 0

\* The network thread's, once its flag is down.
NetLeft == CASE net = "pushing" -> 2 [] net = "loop" -> 1 [] OTHER -> 0

\* Whatever Twitch sends, Disconnect comes back after few steps: each step of
\* the main thread leaves it fewer, none of the network thread's gives it more,
\* and while it waits for that thread, each step of that leaves it fewer, as
\* another recv is not begun with the flag down (Disconnect, NetworkLoop).
THEOREM DisconnectRunsOut ==
  Spec => [][Leaving => /\ MainLeft' <= MainLeft
                        /\ MainStep => MainLeft' < MainLeft
                        /\ main = "join" /\ NetworkStep => NetLeft' < NetLeft]_vars
<1> DEFINE Fewer == /\ MainLeft' <= MainLeft
                    /\ MainStep => MainLeft' < MainLeft
                    /\ main = "join" /\ NetworkStep => NetLeft' < NetLeft
<1>1. ASSUME JoinInv, Next, Leaving  PROVE Fewer
  <2>1. CASE MainStep
    <3>1. MainLeft' < MainLeft /\ MainLeft' <= MainLeft
      BY <1>1, <2>1
      DEF MainStep, Leaving, JoinInv, MainLeft, Connect, StartFrame, Check, Parse, Pop, Handle,
          Disconnect, Join, Exit
    <3>2. ~(main = "join" /\ NetworkStep)
      BY <1>1, <2>1
      DEF MainStep, NetworkStep, Leaving, Connect, StartFrame, Check, Parse, Pop, Handle,
          Disconnect, Join, Exit, ThreadStarts, Receive, ReceiveText, CutPingThrows,
          ReceiveCutPing, Pushed, LoopEnds
    <3> QED
      BY <3>1, <3>2
  <2>2. CASE CutPingThrows
    <3>1. main' = "crashed" /\ UNCHANGED net /\ myNetworkIsWalking /\ net = "loop"
      BY <2>2 DEF CutPingThrows, ReceiveCutPing
    <3>2. MainLeft' < MainLeft /\ MainLeft' <= MainLeft /\ main # "join"
      BY <1>1, <3>1 DEF MainLeft, Leaving, JoinInv
    <3> QED
      BY <3>2
  <2>3. CASE NetworkStep /\ ~CutPingThrows
    <3>1. UNCHANGED main
      BY <2>3 DEF NetworkStep, ThreadStarts, Receive, ReceiveText, Pushed, LoopEnds
    <3>2. ~MainStep
      BY <1>1, <3>1 DEF MainStep, Leaving, Connect, StartFrame, Check, Parse, Pop, Handle,
                        Disconnect, Join, Exit
    <3>3. MainLeft' <= MainLeft
      BY <1>1, <2>3, <3>1
      DEF NetworkStep, MainLeft, Leaving, JoinInv, ThreadStarts, Receive, ReceiveText, Pushed,
          LoopEnds, threadVars
    <3>4. main = "join" => NetLeft' < NetLeft
      BY <1>1, <2>3
      DEF NetworkStep, NetLeft, JoinInv, ThreadStarts, Receive, ReceiveText, Pushed, LoopEnds
    <3> QED
      BY <3>2, <3>3, <3>4
  <2> QED
    BY <1>1, <2>1, <2>2, <2>3 DEF Next, NetworkStep, Leaving, Quit, Crash
<1>2. JoinInv /\ [Next]_vars => [Leaving => Fewer]_vars
  BY <1>1
<1> QED
  BY <1>2, JoinInvariant, PTL DEF Spec

----------------------------------------------------------------------------
\* Nothing is lost or reordered between the threads until a push runs into the
\* main thread.
THEOREM Fifo == Spec => []FifoUnlessRaced
<1>1. Init => FifoUnlessRaced
  BY DEF Init, FifoUnlessRaced, InFlight
<1>2. TypeOK /\ ThreadInv /\ FifoUnlessRaced /\ [Next]_vars => FifoUnlessRaced'
  <2> SUFFICES ASSUME TypeOK, ThreadInv, FifoUnlessRaced, [Next]_vars, ~raced'
               PROVE  received' = (popped' \o myChatMessages') \o InFlight'
    BY DEF FifoUnlessRaced
  <2>1. CASE Pop
    <3>1. ~raced /\ popped' = Append(popped, Head(myChatMessages))
                 /\ myChatMessages' = Tail(myChatMessages) /\ myChatMessages # << >>
      BY <2>1 DEF Pop
    <3>2. popped' \o myChatMessages' = popped \o myChatMessages
      BY <3>1, MoveHead DEF TypeOK
    <3> QED
      BY <2>1, <3>1, <3>2 DEF Pop, FifoUnlessRaced, InFlight
  <2>2. CASE Receive
    <3>1. /\ ~raced /\ UNCHANGED <<popped, myChatMessages>>
          /\ received' = Append(received, arriving')
          /\ InFlight = << >> /\ InFlight' = <<arriving'>>
      BY <2>2 DEF Receive, ReceiveText, InFlight
    <3>2. popped \o myChatMessages \in Seq(QueuedChunk)
      BY ConcatProperties DEF TypeOK
    <3>3. received = popped \o myChatMessages
      BY <3>1, <3>2, ConcatEmptySeq DEF FifoUnlessRaced
    <3>4. arriving' \in QueuedChunk
      BY <2>2, ChunkAssumption DEF Receive, ReceiveText, QueuedChunk, Chunk, TypeOK
    <3> QED
      BY <3>1, <3>2, <3>3, <3>4, AppendIsConcat
  <2>3. CASE Pushed
    <3>1. /\ ~raced /\ UNCHANGED <<popped, received, arriving>>
          /\ myChatMessages' = Append(myChatMessages, arriving)
          /\ InFlight = <<arriving>> /\ InFlight' = << >>
      BY <2>3 DEF Pushed, InFlight
    <3>2. popped \o myChatMessages \in Seq(QueuedChunk)
      BY ConcatProperties DEF TypeOK
    <3>3. received = Append(popped \o myChatMessages, arriving)
      BY <3>1, <3>2, AppendIsConcat DEF FifoUnlessRaced, TypeOK
    <3>4. popped' \o myChatMessages' = Append(popped \o myChatMessages, arriving)
      BY <3>1, AppendRight DEF TypeOK
    <3>5. Append(popped \o myChatMessages, arriving) \in Seq(QueuedChunk)
      BY <3>2 DEF TypeOK
    <3> QED
      BY <3>1, <3>3, <3>4, <3>5, ConcatEmptySeq
  <2>4. CASE ThreadStarts
    BY <2>4 DEF ThreadStarts, FifoUnlessRaced, InFlight, queueVars
  <2>5. CASE LoopEnds
    BY <2>5 DEF LoopEnds, FifoUnlessRaced, InFlight, queueVars
  <2>6. CASE Connect
    <3>1. InFlight' = InFlight
      BY <2>6 DEF Connect, InFlight, queueVars, ThreadInv
    <3> QED
      BY <2>6, <3>1 DEF Connect, FifoUnlessRaced, InFlight, queueVars
  <2>7. CASE \/ StartFrame \/ Check \/ Parse \/ Handle \/ Disconnect \/ Join \/ Exit
             \/ Quit \/ Crash \/ CutPingThrows \/ UNCHANGED vars
    <3>1. UNCHANGED <<net, myChatMessages, arriving, received, popped>>
      BY <2>7 DEF StartFrame, Check, Parse, Handle, Disconnect, Join, Exit, Quit, Crash,
                  CutPingThrows, ReceiveCutPing, vars, queueVars, threadVars
    <3>2. ~raced
      BY <2>7, Zenon DEF StartFrame, Check, Parse, Handle, Disconnect, Join, Exit, Quit,
                  Crash, CutPingThrows, ReceiveCutPing, vars, queueVars, threadVars
    <3> QED
      BY <3>1, <3>2 DEF FifoUnlessRaced, InFlight
  <2> QED
    BY <2>1, <2>2, <2>3, <2>4, <2>5, <2>6, <2>7 DEF Next, MainStep
<1> QED
  BY <1>1, <1>2, TwitchTyping, ThreadInvariant, PTL DEF Spec

----------------------------------------------------------------------------
(* What ChunksAreHeard rests on                                            *)

\* What is popped was parsed without an exception.
PopInv ==
  main = "pop" /\ ~raced => myChatMessages # << >> /\ Head(myChatMessages).text \notin Throwing

LEMMA PopInvariant == Spec => []PopInv
<1>1. Init => PopInv
  BY DEF Init, PopInv
<1>2. TypeOK /\ PopInv /\ [Next]_vars => PopInv'
  <2> SUFFICES ASSUME TypeOK, PopInv, [Next]_vars PROVE PopInv'
    OBVIOUS
  <2> USE DEF PopInv, queueVars, threadVars
  <2>1. CASE Parse
    BY <2>1 DEF Parse
  <2>2. CASE Pushed
    <3>1. UNCHANGED <<main, raced>>
      BY <2>2 DEF Pushed
    <3>2. CASE UNCHANGED myChatMessages
      BY <3>1, <3>2
    <3>3. CASE myChatMessages' = Append(myChatMessages, arriving)
      <4>1. myChatMessages # << >> =>
              myChatMessages' # << >> /\ Head(myChatMessages') = Head(myChatMessages)
        BY <3>3 DEF TypeOK
      <4> QED
        BY <3>1, <4>1
    <3> QED
      BY <2>2, <3>2, <3>3 DEF Pushed
  <2>3. CASE Receive
    BY <2>3 DEF Receive, ReceiveText
  <2>4. CASE ThreadStarts \/ LoopEnds \/ UNCHANGED vars
    BY <2>4 DEF ThreadStarts, LoopEnds, vars
  <2>5. CASE \/ Connect \/ StartFrame \/ Check \/ Pop \/ Handle \/ Disconnect \/ Join \/ Exit
             \/ Quit \/ Crash \/ CutPingThrows
    BY <2>5 DEF Connect, StartFrame, Check, Pop, Handle, Disconnect, Join, Exit, Quit, Crash,
                CutPingThrows, ReceiveCutPing
  <2> QED
    BY <2>1, <2>2, <2>3, <2>4, <2>5 DEF Next, MainStep
<1> QED
  BY <1>1, <1>2, TwitchTyping, PTL DEF Spec

\* A chunk that makes ParseMessage throw stays at the head of the queue for as
\* long as the program runs: pop() is behind the exception (PopMessage), so no
\* chunk behind it is ever handed to the bots.
THEOREM ThrowingHoldsUp ==
  Spec => [][~raced' /\ myChatMessages # << >> /\ Head(myChatMessages).text \in Throwing =>
               /\ myChatMessages' # << >> /\ Head(myChatMessages') = Head(myChatMessages)
               /\ UNCHANGED popped]_vars
<1> DEFINE Kept == /\ myChatMessages' # << >>
                   /\ Head(myChatMessages') = Head(myChatMessages)
                   /\ UNCHANGED popped
<1>1. ASSUME TypeOK, PopInv, Next, ~raced', myChatMessages # << >>,
             Head(myChatMessages).text \in Throwing
      PROVE  Kept
  <2> USE DEF queueVars, threadVars
  <2>1. ~Pop
    BY <1>1 DEF Pop, PopInv
  <2>2. CASE Pushed
    <3>1. UNCHANGED popped
      BY <2>2 DEF Pushed
    <3>2. CASE myChatMessages' = Append(myChatMessages, arriving)
      BY <1>1, <3>1, <3>2 DEF TypeOK
    <3>3. CASE UNCHANGED myChatMessages
      BY <1>1, <3>1, <3>3
    <3> QED
      BY <2>2, <3>2, <3>3 DEF Pushed
  <2>3. CASE ~Pushed
    <3>1. UNCHANGED <<myChatMessages, popped>>
      BY <1>1, <2>1, <2>3
      DEF Next, MainStep, Connect, StartFrame, Check, Parse, Handle, Quit, Disconnect, Join,
          Exit, Crash, ThreadStarts, Receive, ReceiveText, CutPingThrows, ReceiveCutPing,
          LoopEnds
    <3> QED
      BY <1>1, <3>1
  <2> QED
    BY <2>2, <2>3
<1>2. TypeOK /\ PopInv /\ [Next]_vars =>
        [~raced' /\ myChatMessages # << >> /\ Head(myChatMessages).text \in Throwing => Kept]_vars
  BY <1>1
<1> QED
  BY <1>2, TwitchTyping, PopInvariant, PTL DEF Spec

\* How far the main thread is from popping the chunk at the head.
ToPop ==
  CASE main = "handle" -> 6
    [] main = "frame"  -> 5
    [] main = "check"  -> 4
    [] main = "parse"  -> 3
    [] main = "pop"    -> 2
    [] OTHER           -> 0

\* Any other chunk is popped, and it alone: each step of the main thread brings
\* it nearer to that, a bot that throws included (ProcessInput, PopMessage).
THEOREM HeadIsPopped ==
  Spec => [][/\ MainStep /\ ~raced' /\ ToPop > 0
             /\ myChatMessages # << >>
             /\ Head(myChatMessages).text \notin Throwing \cup Undefined
             => \/ /\ popped' = Append(popped, Head(myChatMessages))
                   /\ myChatMessages' = Tail(myChatMessages)
                \/ UNCHANGED <<popped, myChatMessages>> /\ ToPop' < ToPop /\ ToPop' > 0]_vars
<1> DEFINE Waiting == /\ MainStep /\ ~raced' /\ ToPop > 0
                      /\ myChatMessages # << >>
                      /\ Head(myChatMessages).text \notin Throwing \cup Undefined
           Nearer == \/ /\ popped' = Append(popped, Head(myChatMessages))
                        /\ myChatMessages' = Tail(myChatMessages)
                     \/ UNCHANGED <<popped, myChatMessages>> /\ ToPop' < ToPop /\ ToPop' > 0
<1>1. ASSUME Waiting  PROVE Nearer
  <2> USE DEF queueVars, threadVars
  <2>1. main \in {"handle", "frame", "check", "parse", "pop"}
    BY <1>1 DEF ToPop
  <2>2. CASE Pop
    BY <1>1, <2>2 DEF Pop
  <2>3. CASE StartFrame \/ Check \/ Handle
    BY <1>1, <2>3 DEF StartFrame, Check, Handle, ToPop
  <2>4. CASE Parse
    BY <1>1, <2>4 DEF Parse, ToPop
  <2> QED
    BY <1>1, <2>1, <2>2, <2>3, <2>4 DEF MainStep, Connect, Disconnect, Join, Exit
<1>2. [Next]_vars => [Waiting => Nearer]_vars
  BY <1>1
<1> QED
  BY <1>2, PTL DEF Spec

----------------------------------------------------------------------------
(* Searching a text                                                        *)

\* A non-empty set of lines has a first one.
LEMMA FirstLine ==
  ASSUME NEW lines, lines \subseteq Line, lines # {}
  PROVE  /\ FirstOf(lines) \in lines
         /\ \A l \in lines : FirstOf(lines) <= l
<1>1. lines \subseteq Nat
  BY StreamAssumption
<1>2. PICK l \in lines : \A m \in lines : ~(<<m, l>> \in OpToRel(<, Nat))
  BY <1>1, NatLessThanWellFounded, WFMin
<1>3. \A m \in lines : l <= m
  <2> TAKE m \in lines
  <2>1. m \in Nat /\ l \in Nat
    BY <1>1
  <2>2. m < l => <<m, l>> \in OpToRel(<, Nat)
    BY <2>1 DEF OpToRel
  <2>3. ~(m < l)
    BY <1>2, <2>2
  <2> QED
    BY <2>1, <2>3
<1> QED
  BY <1>3 DEF FirstOf

\* What a search finds is a line, or NoLine.
LEMMA FirstIsLine ==
  ASSUME NEW lines, lines \subseteq Line
  PROVE  FirstOf(lines) \in Line \cup {NoLine}
<1>1. CASE lines = {}
  BY <1>1 DEF FirstOf
<1>2. CASE lines # {}
  BY <1>2, FirstLine
<1> QED
  BY <1>1, <1>2

\* NoLine is no line.
LEMMA NoLineIsNone == NoLine \notin Line /\ Line \subseteq Nat
  BY StreamAssumption DEF NoLine

\* The ends of a text are places of the stream, and so is all between them.
LEMMA TextEnds ==
  ASSUME NEW t \in Text
  PROVE  /\ t.from \in DOMAIN Stream /\ t.to \in DOMAIN Stream
         /\ t.from \in Nat \ {0} /\ t.to \in Nat /\ t.from <= t.to
         /\ t.from .. t.to \subseteq DOMAIN Stream
  BY StreamAssumption DEF Text

\* The order of the stream is strict, so what stands before or at the same place
\* of a line cannot come later.
LEMMA StreamOrder ==
  ASSUME NEW i \in DOMAIN Stream, NEW j \in DOMAIN Stream
  PROVE  /\ Stream[i].line \in Nat /\ Rank(Stream[i]) \in Nat
         /\ Stream[i].line < Stream[j].line => i < j
         /\ Stream[i].line = Stream[j].line /\ Rank(Stream[i]) < Rank(Stream[j]) => i < j
         /\ Stream[i].line = Stream[j].line /\ Rank(Stream[i]) = Rank(Stream[j]) => i = j
<1>1. \A k \in DOMAIN Stream : /\ Stream[k].line \in Nat
                               /\ Stream[k].piece \in Piece
                               /\ Stream[k].half \in {1, 2}
                               /\ k \in Nat
  <2> TAKE k \in DOMAIN Stream
  <2> DEFINE At == [line : Line, piece : Piece, half : {1, 2}]
  <2>1. Stream \in Seq(At) /\ Line \subseteq Nat
    BY StreamAssumption
  <2>2. k \in 1 .. Len(Stream)
    <3> HIDE DEF At
    <3> QED
      BY <2>1
  <2>3. Stream[k] \in At
    <3> HIDE DEF At
    <3> QED
      BY <2>1, <2>2, ElementOfSeq
  <2>4. k \in Nat
    <3> HIDE DEF At
    <3> QED
      BY <2>1, <2>2
  <2>5. Stream[k].line \in Line /\ Stream[k].piece \in Piece /\ Stream[k].half \in {1, 2}
    BY <2>3
  <2> QED
    BY <2>1, <2>4, <2>5
<1>2. \A k \in DOMAIN Stream : Rank(Stream[k]) \in Nat
  BY <1>1 DEF Rank, Place, Piece, ChatPieces
<1>3. i \in Nat /\ j \in Nat /\ Stream[i].line \in Nat /\ Stream[j].line \in Nat
      /\ Rank(Stream[i]) \in Nat /\ Rank(Stream[j]) \in Nat
  BY <1>1, <1>2
<1>4. i < j => \/ Stream[i].line < Stream[j].line
               \/ /\ Stream[i].line = Stream[j].line
                  /\ Rank(Stream[i]) < Rank(Stream[j])
  BY StreamAssumption
<1>5. j < i => \/ Stream[j].line < Stream[i].line
               \/ /\ Stream[j].line = Stream[i].line
                  /\ Rank(Stream[j]) < Rank(Stream[i])
  BY StreamAssumption
<1>6. i = j => Stream[i].line = Stream[j].line /\ Rank(Stream[i]) = Rank(Stream[j])
  OBVIOUS
<1> QED
  BY <1>3, <1>4, <1>5, <1>6

\* A text holds a half exactly if it stands between the text's ends.
LEMMA HoldsIsIn ==
  ASSUME NEW t \in Text, NEW l \in Line, NEW p \in Piece, NEW h \in {1, 2}
  PROVE  Holds(Held(t), l, p, h) <=>
           \E i \in t.from .. t.to :
             /\ i \in DOMAIN Stream
             /\ Stream[i].line = l /\ Stream[i].piece = p /\ Stream[i].half = h
<1> DEFINE At == [line : Line, piece : Piece, half : {1, 2}]
           at == [line |-> l, piece |-> p, half |-> h]
<1>1. \A i \in DOMAIN Stream : Stream[i] \in At
  <2>1. Stream \in Seq(At)
    BY StreamAssumption
  <2> HIDE DEF At
  <2> QED
    BY <2>1
<1>2. \A i \in DOMAIN Stream :
        Stream[i] = at <=> Stream[i].line = l /\ Stream[i].piece = p /\ Stream[i].half = h
  BY <1>1
<1>3. Holds(Held(t), l, p, h) <=> \E i \in t.from .. t.to : Stream[i] = at
  BY DEF Holds, Held
<1>4. t.from .. t.to \subseteq DOMAIN Stream
  BY TextEnds
<1> HIDE DEF At, at
<1> QED
  BY <1>2, <1>3, <1>4

\* What stands in a chat line between two places of a text stands in the text.
LEMMA HalfBetween ==
  ASSUME NEW t \in Text, NEW l \in ChatLine,
         NEW p \in ChatPieces, NEW h \in {1, 2},
         NEW i \in t.from .. t.to, NEW k \in t.from .. t.to,
         Stream[i].line <= l, Stream[i].line = l => Rank(Stream[i]) <= 2 * Place[p] + h,
         l <= Stream[k].line, Stream[k].line = l => 2 * Place[p] + h <= Rank(Stream[k])
  PROVE  Holds(Held(t), l, p, h)
<1>1. PICK j \in DOMAIN Stream : Stream[j] = [line |-> l, piece |-> p, half |-> h]
  BY StreamAssumption
<1>2. Stream[j].line = l /\ Stream[j].piece = p /\ Stream[j].half = h
  BY <1>1
<1>3. Rank(Stream[j]) = 2 * Place[p] + h
  BY <1>2 DEF Rank
<1>4. /\ i \in DOMAIN Stream /\ k \in DOMAIN Stream
      /\ i \in Nat /\ j \in Nat /\ k \in Nat /\ t.from \in Nat /\ t.to \in Nat
      /\ t.from <= i /\ k <= t.to /\ l \in Nat
  <2>1. ChatLine \subseteq Line /\ Line \subseteq Nat
    BY StreamAssumption
  <2>2. i \in t.from .. t.to /\ k \in t.from .. t.to /\ j \in Nat
    BY StreamAssumption
  <2> QED
    BY <2>1, <2>2, TextEnds
<1>5. i <= j
  <2>1. Stream[i].line < l \/ Stream[i].line = l
    BY <1>4, StreamOrder
  <2>2. CASE Stream[i].line < l
    <3>1. i < j
      BY <1>2, <1>4, <2>2, StreamOrder
    <3> QED
      BY <1>4, <3>1
  <2>3. CASE Stream[i].line = l
    <3>1. Rank(Stream[i]) <= Rank(Stream[j])
      BY <1>3, <2>3
    <3>2. Rank(Stream[i]) < Rank(Stream[j]) \/ Rank(Stream[i]) = Rank(Stream[j])
      BY <1>4, <3>1, StreamOrder
    <3>3. i < j \/ i = j
      BY <1>2, <1>4, <2>3, <3>2, StreamOrder
    <3> QED
      BY <1>4, <3>3
  <2> QED
    BY <2>1, <2>2, <2>3
<1>6. j <= k
  <2>1. l < Stream[k].line \/ Stream[k].line = l
    BY <1>4, StreamOrder
  <2>2. CASE l < Stream[k].line
    <3>1. j < k
      BY <1>2, <1>4, <2>2, StreamOrder
    <3> QED
      BY <1>4, <3>1
  <2>3. CASE Stream[k].line = l
    <3>1. Rank(Stream[j]) <= Rank(Stream[k])
      BY <1>3, <2>3
    <3>2. Rank(Stream[j]) < Rank(Stream[k]) \/ Rank(Stream[j]) = Rank(Stream[k])
      BY <1>4, <3>1, StreamOrder
    <3>3. j < k \/ j = k
      BY <1>2, <1>4, <2>3, <3>2, StreamOrder
    <3> QED
      BY <1>4, <3>3
  <2> QED
    BY <2>1, <2>2, <2>3
<1>7. j \in t.from .. t.to
  BY <1>4, <1>5, <1>6
<1>8. l \in Line /\ p \in Piece
  BY StreamAssumption DEF Piece
<1> QED
  BY <1>2, <1>7, <1>8, HoldsIsIn

\* A message is of the first line whose "#channel :" is whole in the text.
LEMMA SaidIsWhole ==
  ASSUME NEW t \in Text, SaidLine(Held(t)) # NoLine
  PROVE  /\ SaidLine(Held(t)) \in Line /\ Whole(Held(t), SaidLine(Held(t)), "channel")
         /\ \A l \in Line : Whole(Held(t), l, "channel") /\ Channel[l] = Channel[ChannelLine(Held(t))]
                            => SaidLine(Held(t)) <= l
<1> DEFINE lines == {l \in Line : /\ Whole(Held(t), l, "channel")
                                  /\ Channel[l] = Channel[ChannelLine(Held(t))]}
<1>1. lines # {}
  BY DEF SaidLine, FirstOf
<1>2. SaidLine(Held(t)) = FirstOf(lines) /\ lines \subseteq Line
  BY DEF SaidLine
<1>3. FirstOf(lines) \in lines /\ \A l \in lines : FirstOf(lines) <= l
  <2> HIDE DEF lines
  <2> QED
    BY <1>1, <1>2, FirstLine
<1> QED
  BY <1>2, <1>3

\* Where it is whole.
LEMMA WholeIsIn ==
  ASSUME NEW t \in Text, NEW l \in Line, NEW p \in Piece, Whole(Held(t), l, p)
  PROVE  \E i \in t.from .. t.to :
           /\ i \in DOMAIN Stream
           /\ Stream[i].line = l /\ Stream[i].piece = p /\ Stream[i].half = 2
  BY HoldsIsIn DEF Whole

\* The tags that tell a moderator and a subscriber.
FlagTag == {"mod", "subscriber"}

\* What is before a line's "#channel :" is whole in the text that holds that,
\* unless the text begins within the line.
LEMMA FlagsAreWhole ==
  ASSUME NEW t \in Text, NEW d \in ChatLine, Whole(Held(t), d, "channel"),
         ~CutsInto(t, d), NEW tag \in FlagTag
  PROVE  Whole(Held(t), d, tag)
<1>0. d \in Line /\ "channel" \in Piece /\ tag \in Piece /\ tag \in ChatPieces
  BY StreamAssumption DEF Piece, ChatPieces, FlagTag
<1> SUFFICES ASSUME NEW h \in {1, 2} PROVE Holds(Held(t), d, tag, h)
  BY DEF Whole
<1>1. PICK k \in t.from .. t.to :
        Stream[k].line = d /\ Stream[k].piece = "channel" /\ Stream[k].half = 2
  BY <1>0, WholeIsIn
<1>2. PICK j \in DOMAIN Stream : Stream[j] = [line |-> d, piece |-> tag, half |-> h]
  BY <1>0, StreamAssumption
<1>3. Stream[j].line = d /\ Stream[j].piece = tag /\ Stream[j].half = h
  BY <1>2
<1>4. Rank(Stream[j]) < Rank(Stream[k])
  BY <1>1, <1>3 DEF Rank, Place, FlagTag
<1>5. /\ k \in DOMAIN Stream /\ t.from \in DOMAIN Stream
      /\ j \in Nat /\ k \in Nat /\ t.from \in Nat /\ t.to \in Nat
      /\ t.from <= k /\ k <= t.to /\ d \in Nat
  BY <1>0, TextEnds, StreamAssumption
<1>6. j < k
  BY <1>1, <1>3, <1>4, <1>5, StreamOrder
<1>7. t.from <= j
  <2> SUFFICES ASSUME j < t.from PROVE FALSE
    BY <1>5
  <2>1. Stream[t.from].line \in Nat
    BY <1>5, StreamOrder
  <2>2. ~(Stream[t.from].line < d)
    BY <1>3, <1>5, StreamOrder
  <2>3. ~(d < Stream[t.from].line)
    BY <1>1, <1>5, StreamOrder
  <2>4. Stream[t.from].line = d
    BY <1>5, <2>1, <2>2, <2>3
  <2> QED
    BY <1>3, <2>4 DEF CutsInto
<1>8. j \in t.from .. t.to
  BY <1>5, <1>6, <1>7
<1> QED
  BY <1>0, <1>3, <1>8, HoldsIsIn

\* The line in which a tag is found first.
TagLine(halves, tag) == FirstOf({l \in Line : Whole(halves, l, tag)})

\* Each flag of what a user is heard to say is that of the user's line.
LEMMA AuthorsFlags ==
  ASSUME NEW t \in Text, IsHeard(Held(t)), SaidLine(Held(t)) \in ChatLine, NEW tag \in FlagTag,
         ~CutsInto(t, SaidLine(Held(t))), ~OtherTagBefore(t, SaidLine(Held(t)), tag)
  PROVE  TagLine(Held(t), tag) = SaidLine(Held(t))
<1> DEFINE d == SaidLine(Held(t))
           f == TagLine(Held(t), tag)
           c == ChannelLine(Held(t))
           flagged == {l \in Line : Whole(Held(t), l, tag)}
           worded == {l \in ChatLine : Whole(Held(t), l, "word")}
<1>0. /\ ChatLine \subseteq Line
      /\ "word" \in Piece /\ "channel" \in Piece /\ tag \in Piece
  BY StreamAssumption DEF Piece, ChatPieces, FlagTag
<1>1. /\ d \in ChatLine /\ Whole(Held(t), d, "channel")
      /\ \A l \in Line : Whole(Held(t), l, "channel") /\ Channel[l] = Channel[c] => d <= l
  BY SaidIsWhole DEF IsHeard
<1>2. d \in flagged
  BY <1>0, <1>1, FlagsAreWhole
<1>3. f = FirstOf(flagged) /\ c = FirstOf(worded)
  BY DEF TagLine, ChannelLine
<1>4. f \in flagged /\ f <= d
  <2>1. flagged \subseteq Line
    OBVIOUS
  <2> HIDE DEF flagged, f, d
  <2> QED
    BY <1>2, <1>3, <2>1, FirstLine
<1>5. f \in Nat /\ d \in Nat
  BY <1>0, <1>1, <1>4, StreamAssumption
<1>6. SUFFICES ASSUME f < d PROVE FALSE
  BY <1>4, <1>5
<1>7. f \in Line /\ f \in ChatLine /\ Whole(Held(t), f, tag)
  BY <1>4, <1>6 DEF OtherTagBefore
<1>8. PICK kf \in t.from .. t.to :
        Stream[kf].line = f /\ Stream[kf].piece = tag /\ Stream[kf].half = 2
  <2> HIDE DEF f
  <2> QED
    BY <1>0, <1>7, WholeIsIn
<1>9. PICK kd \in t.from .. t.to :
        Stream[kd].line = d /\ Stream[kd].piece = "channel" /\ Stream[kd].half = 2
  <2> HIDE DEF d
  <2> QED
    BY <1>0, <1>1, WholeIsIn
<1>10. Rank(Stream[kf]) \in 1 .. 8
  BY <1>8 DEF Rank, Place, FlagTag
<1>11. \A p \in {"word", "channel"} : \A h \in {1, 2} : Holds(Held(t), f, p, h)
  <2> TAKE p \in {"word", "channel"}
  <2> TAKE h \in {1, 2}
  <2>1. p \in ChatPieces /\ Rank(Stream[kf]) <= 2 * Place[p] + h
    BY <1>10 DEF ChatPieces, Place
  <2>2. Stream[kf].line <= f /\ f <= Stream[kd].line /\ Stream[kd].line # f
    BY <1>5, <1>6, <1>8, <1>9
  <2> HIDE DEF f, d
  <2> QED
    BY <1>7, <2>1, <2>2, HalfBetween
<1>12. f \in worded /\ Whole(Held(t), f, "channel")
  BY <1>7, <1>11 DEF Whole
<1>13. c \in worded /\ c <= f
  <2>1. worded \subseteq Line
    BY <1>0
  <2> HIDE DEF worded, f, c
  <2> QED
    BY <1>3, <1>12, <2>1, FirstLine
<1>14. c \in Nat /\ c \in Line /\ c \in ChatLine /\ Whole(Held(t), c, "word")
  BY <1>0, <1>13, StreamAssumption
<1>15. CASE c = f
  BY <1>1, <1>5, <1>6, <1>7, <1>12, <1>15
<1>16. CASE c < f
  <2>1. PICK kc \in t.from .. t.to :
          Stream[kc].line = c /\ Stream[kc].piece = "word" /\ Stream[kc].half = 2
    <3> HIDE DEF c
    <3> QED
      BY <1>0, <1>14, WholeIsIn
  <2>2. Rank(Stream[kc]) = 14
    BY <2>1 DEF Rank, Place
  <2>3. \A h \in {1, 2} : Holds(Held(t), c, "channel", h)
    <3> TAKE h \in {1, 2}
    <3>1. "channel" \in ChatPieces /\ Rank(Stream[kc]) <= 2 * Place["channel"] + h
      BY <2>2 DEF ChatPieces, Place
    <3>2. Stream[kc].line <= c /\ c <= Stream[kf].line /\ Stream[kf].line # c
      BY <1>5, <1>8, <1>14, <1>16, <2>1
    <3> HIDE DEF c, f
    <3> QED
      BY <1>14, <3>1, <3>2, HalfBetween
  <2>4. Whole(Held(t), c, "channel")
    BY <2>3 DEF Whole
  <2>5. d <= c
    BY <1>1, <1>14, <2>4
  <2> QED
    BY <1>5, <1>6, <1>14, <1>16, <2>5
<1> QED
  BY <1>5, <1>13, <1>14, <1>15, <1>16

\* Of two texts the later is of a later line.
LEMMA LaterTextLaterLine ==
  ASSUME NEW t \in Text, NEW u \in Text, t.to < u.from,
         SaidLine(Held(t)) # NoLine, SaidLine(Held(u)) # NoLine
  PROVE  SaidLine(Held(t)) < SaidLine(Held(u))
<1>0. SaidLine(Held(t)) \in Line /\ SaidLine(Held(u)) \in Line /\ "channel" \in Piece
      /\ Whole(Held(t), SaidLine(Held(t)), "channel") /\ Whole(Held(u), SaidLine(Held(u)), "channel")
  BY SaidIsWhole DEF Piece, ChatPieces
<1>1. PICK i \in t.from .. t.to :
        /\ Stream[i].line = SaidLine(Held(t))
        /\ Stream[i].piece = "channel" /\ Stream[i].half = 2
  BY <1>0, WholeIsIn
<1>2. PICK j \in u.from .. u.to :
        /\ Stream[j].line = SaidLine(Held(u))
        /\ Stream[j].piece = "channel" /\ Stream[j].half = 2
  BY <1>0, WholeIsIn
<1>3. i \in DOMAIN Stream /\ j \in DOMAIN Stream /\ i \in Nat /\ j \in Nat /\ i < j
  BY TextEnds
<1>4. Rank(Stream[i]) = Rank(Stream[j])
  BY <1>1, <1>2 DEF Rank
<1>5. SaidLine(Held(t)) \in Nat /\ SaidLine(Held(u)) \in Nat
  BY <1>0, StreamAssumption
<1>6. SaidLine(Held(t)) # SaidLine(Held(u))
  BY <1>1, <1>2, <1>3, <1>4, StreamOrder
<1>7. ~(SaidLine(Held(u)) < SaidLine(Held(t)))
  BY <1>1, <1>2, <1>3, StreamOrder
<1> QED
  BY <1>5, <1>6, <1>7

----------------------------------------------------------------------------
(* The session                                                             *)

SaidMessage ==
  [said : Line, mod : Line \cup {NoLine}, subscriber : Line \cup {NoLine}, text : Text]

\* What was heard are messages of texts that follow each other in the stream.
HeardInv ==
  /\ next \in 1 .. Len(Stream) + 1
  /\ heard \in Seq(SaidMessage)
  /\ \A i \in DOMAIN heard :
       /\ IsHeard(Held(heard[i].text)) /\ heard[i] = Message(heard[i].text)
       /\ heard[i].text.to < next
  /\ \A i, j \in DOMAIN heard : i < j => heard[i].text.to < heard[j].text.from

\* So do the texts still to be heard, until a push runs into the main thread.
QueueInv ==
  /\ myChatMessages \in Seq(Chunk)
  /\ \A i \in DOMAIN myChatMessages : myChatMessages[i].text.to < next
  /\ \A i, j \in DOMAIN myChatMessages :
       i < j => myChatMessages[i].text.to < myChatMessages[j].text.from
  /\ \A i \in DOMAIN heard : \A j \in DOMAIN myChatMessages :
       heard[i].text.to < myChatMessages[j].text.from

ArrivingInv ==
  /\ arriving \in Chunk /\ arriving.text.to < next
  /\ ~raced => /\ \A i \in DOMAIN myChatMessages :
                    myChatMessages[i].text.to < arriving.text.from
               /\ \A i \in DOMAIN heard : heard[i].text.to < arriving.text.from

SessionInv ==
  /\ TypeOK
  /\ HeardInv
  /\ ~raced => QueueInv
  /\ net = "pushing" => ArrivingInv

\* A step of the session is one of the client.
LEMMA SessionStep ==
  next \in 1 .. Len(Stream) + 1 /\ [SessionNext]_sessionVars => [Next]_vars
<1> SUFFICES ASSUME next \in 1 .. Len(Stream) + 1, [SessionNext]_sessionVars
             PROVE  [Next]_vars
  OBVIOUS
<1>1. CASE SessionReceive
  <2>1. PICK to \in DOMAIN Stream : next <= to /\ ReceiveText([from |-> next, to |-> to])
    BY <1>1 DEF SessionReceive
  <2>2. next \in DOMAIN Stream
    BY <2>1, StreamAssumption
  <2>3. [from |-> next, to |-> to] \in Text
    BY <2>1, <2>2 DEF Text
  <2> QED
    BY <2>1, <2>3 DEF Next, Receive
<1>2. CASE SessionMain
  BY <1>2 DEF SessionMain, SessionPop, Next, MainStep
<1>3. CASE (Quit \/ Crash \/ ThreadStarts \/ Pushed \/ LoopEnds) /\ UNCHANGED <<next, heard>>
  BY <1>3 DEF Next
<1>4. CASE SessionCutPing
  BY <1>4 DEF SessionCutPing, ReceiveCutPing, CutPingThrows, Next
<1>5. CASE UNCHANGED sessionVars
  BY <1>5 DEF sessionVars
<1> QED
  BY <1>1, <1>2, <1>3, <1>4, <1>5 DEF SessionNext

\* What a text says, if anything is heard in it.
LEMMA MessageOfText ==
  ASSUME NEW t \in Text
  PROVE  \/ Messages[t] = << >>
         \/ /\ IsHeard(Held(t))
            /\ Messages[t] = <<Message(t)>> /\ Message(t) \in SaidMessage
<1>1. Messages[t] = IF IsHeard(Held(t)) THEN <<Message(t)>> ELSE << >>
  BY DEF Messages
<1>2. ASSUME IsHeard(Held(t)) PROVE Message(t) \in SaidMessage
  <2>1. SaidLine(Held(t)) \in Line
    BY <1>2, SaidIsWhole DEF IsHeard
  <2>2. \A tag \in FlagTag : TagLine(Held(t), tag) \in Line \cup {NoLine}
    <3> TAKE tag \in FlagTag
    <3> DEFINE flagged == {l \in Line : Whole(Held(t), l, tag)}
    <3>1. flagged \subseteq Line /\ TagLine(Held(t), tag) = FirstOf(flagged)
      BY DEF TagLine
    <3> HIDE DEF flagged
    <3> QED
      BY <3>1, FirstIsLine
  <2>3. ModLine(Held(t)) \in Line \cup {NoLine} /\ SubscriberLine(Held(t)) \in Line \cup {NoLine}
    BY <2>2 DEF ModLine, SubscriberLine, TagLine, FlagTag
  <2> QED
    BY <2>1, <2>3 DEF Message, SaidMessage
<1> QED
  BY <1>1, <1>2

\* PopMessage hands on the head of the queue, and all that is left is later.
LEMMA PopKeepsOrder ==
  SessionInv /\ SessionPop => HeardInv' /\ (~raced' => QueueInv')
                                       /\ (net' = "pushing" => ArrivingInv')
<1> SUFFICES ASSUME SessionInv, SessionPop
             PROVE  HeardInv' /\ (~raced' => QueueInv') /\ (net' = "pushing" => ArrivingInv')
  OBVIOUS
<1>1. UNCHANGED <<next, net, arriving, raced>> /\ myChatMessages # << >>
  BY DEF SessionPop, Pop, threadVars
<1>2. CASE raced
  <2>1. heard' = heard
    BY <1>2 DEF SessionPop
  <2> QED
    BY <1>1, <1>2, <2>1 DEF SessionInv, HeardInv, ArrivingInv
<1>3. CASE ~raced
  <2> DEFINE q == myChatMessages
             t == Head(q).text
  <2>1. QueueInv /\ HeardInv
    BY <1>3 DEF SessionInv
  <2>2. q' = Tail(q) /\ heard' = heard \o Messages[t]
    BY <1>3 DEF SessionPop, Pop
  <2>3. /\ q \in Seq(Chunk) /\ q # << >> /\ Head(q) = q[1] /\ 1 \in DOMAIN q
        /\ Tail(q) \in Seq(Chunk)
        /\ \A i \in DOMAIN Tail(q) : Tail(q)[i] = q[i + 1] /\ i + 1 \in DOMAIN q /\ 1 < i + 1
    <3>1. q \in Seq(Chunk) /\ q # << >>
      BY <1>1, <2>1 DEF QueueInv
    <3> HIDE DEF q
    <3> QED
      BY <3>1, HeadTailProperties
  <2>4. t \in Text /\ t.to < next /\ (\A i \in DOMAIN heard : heard[i].text.to < t.from)
    <3>1. q[1] \in Chunk /\ t = q[1].text
      <4>1. q \in Seq(Chunk) /\ 1 \in DOMAIN q /\ Head(q) = q[1]
        BY <2>3
      <4> HIDE DEF q
      <4> QED
        BY <4>1
    <3>2. t \in Text
      BY <3>1 DEF Chunk
    <3> QED
      BY <2>1, <2>3, <3>1, <3>2 DEF QueueInv
  <2>5. \A i \in DOMAIN Tail(q) : t.to < Tail(q)[i].text.from
    BY <2>1, <2>3 DEF QueueInv
  <2>6. heard \in Seq(SaidMessage)
    BY <2>1 DEF HeardInv
  <2>7. /\ myChatMessages' \in Seq(Chunk)
        /\ \A i \in DOMAIN Tail(q) : Tail(q)[i].text.to < next
        /\ \A i, j \in DOMAIN Tail(q) : i < j => Tail(q)[i].text.to < Tail(q)[j].text.from
    <3>1. myChatMessages' \in Seq(Chunk)
      BY <2>2, <2>3
    <3>2. \A i \in DOMAIN Tail(q) : Tail(q)[i].text.to < next
      BY <2>1, <2>3 DEF QueueInv
    <3>3. \A i, j \in DOMAIN Tail(q) : i < j => Tail(q)[i].text.to < Tail(q)[j].text.from
      <4> TAKE i, j \in DOMAIN Tail(q)
      <4>1. i < j => i + 1 < j + 1
        BY <2>3
      <4> QED
        BY <2>1, <2>3, <4>1 DEF QueueInv
    <3> QED
      BY <3>1, <3>2, <3>3
  <2>8. CASE Messages[t] = << >>
    <3>1. heard' = heard
      BY <2>2, <2>6, <2>8, ConcatEmptySeq
    <3>2. HeardInv'
      BY <1>1, <2>1, <3>1 DEF HeardInv
    <3>3. QueueInv'
      <4>1. \A i \in DOMAIN heard : \A j \in DOMAIN Tail(q) :
              heard[i].text.to < Tail(q)[j].text.from
        BY <2>1, <2>3 DEF QueueInv
      <4> QED
        BY <1>1, <2>2, <2>7, <3>1, <4>1 DEF QueueInv
    <3>4. net' = "pushing" => ArrivingInv'
      <4> SUFFICES ASSUME net' = "pushing" PROVE ArrivingInv'
        OBVIOUS
      <4>1. ArrivingInv
        BY <1>1 DEF SessionInv
      <4>2. \A i \in DOMAIN Tail(q) : Tail(q)[i].text.to < arriving.text.from
        BY <1>3, <2>3, <4>1 DEF ArrivingInv
      <4> QED
        BY <1>1, <2>2, <3>1, <4>1, <4>2 DEF ArrivingInv
    <3> QED
      BY <3>2, <3>3, <3>4
  <2>9. CASE IsHeard(Held(t)) /\ Messages[t] = <<Message(t)>> /\ Message(t) \in SaidMessage
    <3> DEFINE m == Message(t)
               n == Len(heard)
    <3>1. /\ heard' = Append(heard, m) /\ heard' \in Seq(SaidMessage)
          /\ n \in Nat /\ DOMAIN heard = 1 .. n /\ DOMAIN heard' = 1 .. n + 1
          /\ heard'[n + 1] = m /\ (\A i \in 1 .. n : heard'[i] = heard[i])
      <4>1. heard' = heard \o <<m>> /\ m \in SaidMessage
        BY <2>2, <2>9
      <4> HIDE DEF m
      <4>2. heard' = Append(heard, m)
        BY <2>6, <4>1, AppendIsConcat
      <4> QED
        BY <2>6, <4>1, <4>2, AppendProperties
    <3>2. m.text = t
      BY DEF Message
    <3>3. HeardInv'
      <4>1. \A i \in DOMAIN heard' : /\ IsHeard(Held(heard'[i].text))
                                     /\ heard'[i] = Message(heard'[i].text)
                                     /\ heard'[i].text.to < next
        <5> TAKE i \in DOMAIN heard'
        <5>1. CASE i \in 1 .. n
          BY <2>1, <3>1, <5>1 DEF HeardInv
        <5>2. CASE i = n + 1
          BY <2>4, <2>9, <3>1, <3>2, <5>2
        <5> QED
          BY <3>1, <5>1, <5>2
      <4>2. \A i, j \in DOMAIN heard' : i < j => heard'[i].text.to < heard'[j].text.from
        <5> TAKE i, j \in DOMAIN heard'
        <5> SUFFICES ASSUME i < j PROVE heard'[i].text.to < heard'[j].text.from
          OBVIOUS
        <5>1. i \in 1 .. n /\ heard'[i] = heard[i]
          BY <3>1
        <5>2. CASE j \in 1 .. n
          BY <2>1, <3>1, <5>1, <5>2 DEF HeardInv
        <5>3. CASE j = n + 1
          BY <2>4, <3>1, <3>2, <5>1, <5>3
        <5> QED
          BY <3>1, <5>2, <5>3
      <4> QED
        BY <1>1, <2>1, <3>1, <4>1, <4>2 DEF HeardInv
    <3>4. QueueInv'
      <4>1. \A i \in DOMAIN heard' : \A j \in DOMAIN Tail(q) :
              heard'[i].text.to < Tail(q)[j].text.from
        <5> TAKE i \in DOMAIN heard'
        <5> TAKE j \in DOMAIN Tail(q)
        <5>1. CASE i \in 1 .. n
          BY <2>1, <2>3, <3>1, <5>1 DEF QueueInv
        <5>2. CASE i = n + 1
          BY <2>5, <3>1, <3>2, <5>2
        <5> QED
          BY <3>1, <5>1, <5>2
      <4> HIDE DEF m, n
      <4> QED
        BY <1>1, <2>2, <2>7, <4>1 DEF QueueInv
    <3>5. net' = "pushing" => ArrivingInv'
      <4> SUFFICES ASSUME net' = "pushing" PROVE ArrivingInv'
        OBVIOUS
      <4>1. ArrivingInv
        BY <1>1 DEF SessionInv
      <4>2. \A i \in DOMAIN Tail(q) : Tail(q)[i].text.to < arriving.text.from
        BY <1>3, <2>3, <4>1 DEF ArrivingInv
      <4>3. t.to < arriving.text.from
        BY <1>3, <2>3, <4>1 DEF ArrivingInv
      <4>4. \A i \in DOMAIN heard' : heard'[i].text.to < arriving.text.from
        <5> TAKE i \in DOMAIN heard'
        <5>1. CASE i \in 1 .. n
          BY <1>3, <3>1, <4>1, <5>1 DEF ArrivingInv
        <5>2. CASE i = n + 1
          BY <3>1, <3>2, <4>3, <5>2
        <5> QED
          BY <3>1, <5>1, <5>2
      <4> HIDE DEF m, n
      <4> QED
        BY <1>1, <2>2, <4>1, <4>2, <4>4 DEF ArrivingInv
    <3> QED
      BY <3>3, <3>4, <3>5
  <2> QED
    BY <2>4, <2>8, <2>9, MessageOfText
<1> QED
  BY <1>2, <1>3

\* What recv returns is later than all before it.
LEMMA ReceiveKeepsOrder ==
  SessionInv /\ SessionReceive => HeardInv' /\ (~raced' => QueueInv') /\ ArrivingInv'
<1> SUFFICES ASSUME SessionInv, SessionReceive
             PROVE  HeardInv' /\ (~raced' => QueueInv') /\ ArrivingInv'
  OBVIOUS
<1>1. PICK to \in DOMAIN Stream :
        /\ next <= to
        /\ ReceiveText([from |-> next, to |-> to])
        /\ next' = to + 1
  BY DEF SessionReceive
<1>2. /\ UNCHANGED <<heard, myChatMessages>> /\ (~raced' => ~raced)
      /\ arriving' = [id |-> Len(received) + 1, text |-> [from |-> next, to |-> to]]
      /\ Len(received) < MaxChunks
  <2>1. UNCHANGED <<heard, myChatMessages>>
    BY <1>1 DEF SessionReceive, ReceiveText
  <2>2. ~raced' => ~raced
    <3>1. raced' = (raced \/ main = "pop")
      BY <1>1 DEF ReceiveText
    <3> QED
      BY <3>1, Zenon
  <2> QED
    BY <1>1, <2>1, <2>2 DEF ReceiveText
<1>3. HeardInv /\ next \in Nat \ {0} /\ to \in Nat /\ next < next' /\ to < next'
  BY <1>1, StreamAssumption DEF SessionInv, HeardInv
<1>4. next' \in 1 .. Len(Stream) + 1
  BY <1>1, StreamAssumption
<1>5. \A t \in Text : t.to < next => t.to < next'
  <2> TAKE t \in Text
  <2>1. t.to \in Nat
    BY TextEnds
  <2>2. next' \in Nat
    BY <1>1, <1>3
  <2> QED
    BY <1>3, <2>1, <2>2
<1>6. \A i \in DOMAIN heard : heard[i].text \in Text /\ heard[i].text.to < next
  <2>1. \A i \in DOMAIN heard : heard[i] \in SaidMessage
    BY <1>3 DEF HeardInv
  <2> QED
    BY <1>3, <2>1 DEF HeardInv, SaidMessage
<1>7. HeardInv'
  BY <1>2, <1>3, <1>4, <1>5, <1>6 DEF HeardInv
<1>8. ~raced => \A i \in DOMAIN myChatMessages :
                  myChatMessages[i].text \in Text /\ myChatMessages[i].text.to < next
  <2>1. ~raced => \A i \in DOMAIN myChatMessages : myChatMessages[i] \in Chunk
    BY DEF SessionInv, QueueInv
  <2> QED
    BY <2>1 DEF SessionInv, QueueInv, Chunk
<1>9. ~raced' => QueueInv'
  <2> SUFFICES ASSUME ~raced' PROVE QueueInv'
    OBVIOUS
  <2>1. QueueInv
    BY <1>2 DEF SessionInv
  <2>2. \A i \in DOMAIN myChatMessages : myChatMessages[i].text.to < next'
    BY <1>2, <1>5, <1>8
  <2> QED
    BY <1>2, <2>1, <2>2 DEF QueueInv
<1>10. ArrivingInv'
  <2>1. next \in DOMAIN Stream
    BY <1>1, <1>3, StreamAssumption
  <2>2. arriving'.text \in Text /\ arriving'.text.from = next /\ arriving'.text.to = to
    BY <1>1, <1>2, <2>1 DEF Text
  <2>3. received \in Seq(Chunk) /\ MaxChunks \in Nat
    BY ChunkAssumption DEF SessionInv, TypeOK
  <2>4. arriving' \in Chunk
    BY <1>2, <2>2, <2>3 DEF Chunk
  <2> QED
    BY <1>2, <1>3, <1>6, <1>8, <2>2, <2>4 DEF ArrivingInv
<1> QED
  BY <1>7, <1>9, <1>10

\* push puts the latest chunk last.
LEMMA PushKeepsOrder ==
  SessionInv /\ Pushed /\ UNCHANGED <<next, heard>>
    => HeardInv' /\ (~raced' => QueueInv') /\ net' # "pushing"
<1> SUFFICES ASSUME SessionInv, Pushed, UNCHANGED <<next, heard>>
             PROVE  HeardInv' /\ (~raced' => QueueInv') /\ net' # "pushing"
  OBVIOUS
<1>1. HeardInv'
  BY DEF SessionInv, HeardInv
<1>2. net' # "pushing" /\ UNCHANGED <<raced, arriving>> /\ ArrivingInv
  BY DEF SessionInv, Pushed
<1>3. ASSUME ~raced' PROVE QueueInv'
  <2> DEFINE q == myChatMessages
             n == Len(q)
  <2>1. QueueInv /\ ~raced
    BY <1>2, <1>3 DEF SessionInv
  <2>2. q' = Append(q, arriving) /\ q \in Seq(Chunk) /\ arriving \in Chunk
    BY <1>2, <2>1 DEF Pushed, QueueInv, ArrivingInv
  <2>3. /\ q' \in Seq(Chunk) /\ n \in Nat
        /\ DOMAIN q = 1 .. n /\ DOMAIN q' = 1 .. n + 1
        /\ q'[n + 1] = arriving /\ (\A i \in 1 .. n : q'[i] = q[i])
    <3>1. Append(q, arriving) \in Seq(Chunk) /\ n \in Nat
          /\ DOMAIN q = 1 .. n /\ DOMAIN Append(q, arriving) = 1 .. n + 1
          /\ Append(q, arriving)[n + 1] = arriving
          /\ (\A i \in 1 .. n : Append(q, arriving)[i] = q[i])
      <4>1. q \in Seq(Chunk) /\ arriving \in Chunk
        BY <2>2
      <4> HIDE DEF q
      <4> QED
        BY <4>1, AppendProperties
    <3> QED
      BY <2>2, <3>1
  <2>4. \A i \in DOMAIN q' : q'[i].text.to < next
    <3> TAKE i \in DOMAIN q'
    <3>1. CASE i \in 1 .. n
      BY <2>1, <2>3, <3>1 DEF QueueInv
    <3>2. CASE i = n + 1
      BY <1>2, <2>3, <3>2 DEF ArrivingInv
    <3> QED
      BY <2>3, <3>1, <3>2
  <2>5. \A i, j \in DOMAIN q' : i < j => q'[i].text.to < q'[j].text.from
    <3> TAKE i, j \in DOMAIN q'
    <3> SUFFICES ASSUME i < j PROVE q'[i].text.to < q'[j].text.from
      OBVIOUS
    <3>1. i \in 1 .. n /\ q'[i] = q[i]
      BY <2>3
    <3>2. CASE j \in 1 .. n
      BY <2>1, <2>3, <3>1, <3>2 DEF QueueInv
    <3>3. CASE j = n + 1
      BY <1>2, <2>1, <2>3, <3>1, <3>3 DEF ArrivingInv
    <3> QED
      BY <2>3, <3>2, <3>3
  <2>6. \A i \in DOMAIN heard : \A j \in DOMAIN q' : heard[i].text.to < q'[j].text.from
    <3> TAKE i \in DOMAIN heard
    <3> TAKE j \in DOMAIN q'
    <3>1. CASE j \in 1 .. n
      BY <2>1, <2>3, <3>1 DEF QueueInv
    <3>2. CASE j = n + 1
      BY <1>2, <2>1, <2>3, <3>2 DEF ArrivingInv
    <3> QED
      BY <2>3, <3>1, <3>2
  <2> QED
    BY <2>3, <2>4, <2>5, <2>6 DEF QueueInv
<1> QED
  BY <1>1, <1>2, <1>3

\* The other steps leave the stream and the queue alone.
LEMMA OthersKeepOrder ==
  ASSUME SessionInv, UNCHANGED <<next, heard, myChatMessages, arriving>>,
         ~raced' => ~raced, net' = "pushing" => net = "pushing"
  PROVE  HeardInv' /\ (~raced' => QueueInv') /\ (net' = "pushing" => ArrivingInv')
<1>1. HeardInv'
  BY DEF SessionInv, HeardInv
<1>2. ~raced' => QueueInv'
  BY DEF SessionInv, QueueInv
<1>3. net' = "pushing" => ArrivingInv'
  <2> SUFFICES ASSUME net' = "pushing" PROVE ArrivingInv'
    OBVIOUS
  <2>1. ArrivingInv
    BY DEF SessionInv
  <2> QED
    BY <2>1 DEF ArrivingInv
<1> QED
  BY <1>1, <1>2, <1>3

\* SessionInv is inductive.
LEMMA SessionInvStep == SessionInv /\ [SessionNext]_sessionVars => SessionInv'
<1> SUFFICES ASSUME SessionInv, [SessionNext]_sessionVars PROVE SessionInv'
  OBVIOUS
<1>1. TypeOK'
  BY SessionStep, TypeStep DEF SessionInv, HeardInv
<1>2. CASE SessionPop
  BY <1>1, <1>2, PopKeepsOrder DEF SessionInv
<1>3. CASE SessionReceive
  BY <1>1, <1>3, ReceiveKeepsOrder DEF SessionInv
<1>4. CASE Pushed /\ UNCHANGED <<next, heard>>
  BY <1>1, <1>4, PushKeepsOrder DEF SessionInv
<1>5. CASE \/ /\ \/ Connect \/ StartFrame \/ Check \/ Parse \/ Handle
                 \/ Disconnect \/ Join \/ Exit \/ Quit \/ Crash \/ ThreadStarts \/ LoopEnds
              /\ UNCHANGED <<next, heard>>
           \/ SessionCutPing \/ UNCHANGED sessionVars
  <2>1. UNCHANGED <<next, heard, myChatMessages, arriving>>
    BY <1>5 DEF sessionVars, vars, queueVars, threadVars, Connect, StartFrame, Check, Parse,
                Handle, Disconnect, Join, Exit, Quit, Crash, ThreadStarts, LoopEnds,
                SessionCutPing, ReceiveCutPing
  <2>2. ~raced' => ~raced
    BY <1>5, Zenon DEF sessionVars, vars, queueVars, threadVars, Connect, StartFrame, Check,
                Parse, Handle, Disconnect, Join, Exit, Quit, Crash, ThreadStarts, LoopEnds,
                SessionCutPing, ReceiveCutPing
  <2>3. net' = "pushing" => net = "pushing"
    BY <1>5 DEF sessionVars, vars, queueVars, threadVars, Connect, StartFrame, Check, Parse,
                Handle, Disconnect, Join, Exit, Quit, Crash, ThreadStarts, LoopEnds,
                SessionCutPing, ReceiveCutPing
  <2> QED
    BY <1>1, <2>1, <2>2, <2>3, OthersKeepOrder DEF SessionInv
<1> QED
  BY <1>2, <1>3, <1>4, <1>5 DEF SessionNext, SessionMain

\* SessionInv holds to begin with.
LEMMA SessionInvInit == SessionInit => SessionInv
<1> SUFFICES ASSUME SessionInit PROVE SessionInv
  OBVIOUS
<1>1. Len(Stream) \in Nat
  BY StreamAssumption
<1>2. \A S : << >> \in Seq(S)
  OBVIOUS
<1>3. DOMAIN heard = {} /\ DOMAIN myChatMessages = {}
  BY DEF SessionInit, Init
<1> QED
  BY <1>1, <1>2, <1>3, TypeInit DEF SessionInit, SessionInv, HeardInv, QueueInv, Init

LEMMA SessionInvariant == SessionSpec => []SessionInv
  BY SessionInvInit, SessionInvStep, PTL DEF SessionSpec

\* Every variable of the session stays in its range.
THEOREM SessionTyping == SessionSpec => []SessionTypeOK
<1>1. SessionInv => SessionTypeOK
  BY DEF SessionInv, HeardInv, SessionTypeOK, SaidMessage
<1> QED
  BY <1>1, SessionInvariant, PTL

\* The session is a run of the client: what holds of every run of TwitchClient
\* holds of it.
THEOREM SessionIsClient == SessionSpec => Spec
<1>1. SessionInit => Init
  BY DEF SessionInit
<1>2. SessionInv /\ [SessionNext]_sessionVars => [Next]_vars
  BY SessionStep DEF SessionInv, HeardInv
<1> QED
  BY <1>1, <1>2, SessionInvariant, PTL DEF SessionSpec, Spec

\* Chunks are neither lost nor reordered between the threads until raced, and
\* Disconnect ends in std::terminate only if it looked too early.
COROLLARY SessionThreads ==
  SessionSpec => [](FifoUnlessRaced /\ OnlyEarlyExitTerminates /\ ExitedAlone)
  BY SessionIsClient, Fifo, OnlyEarly, Alone, PTL

\* What a user wrote goes with each flag of the line it is from, unless recv cut
\* that line, or that very tag of a line that is no chat line comes first.
THEOREM Flags == SessionSpec => []FlagsAreTheAuthors
<1>1. SessionInv => FlagsAreTheAuthors
  <2> SUFFICES ASSUME SessionInv, NEW i \in DOMAIN heard, NEW tag \in FlagTag,
                      heard[i].said \in ChatLine
               PROVE  \/ heard[i][tag] = heard[i].said
                      \/ CutsInto(heard[i].text, heard[i].said)
                      \/ OtherTagBefore(heard[i].text, heard[i].said, tag)
    BY DEF FlagsAreTheAuthors, FlagTag
  <2> DEFINE t == heard[i].text
  <2>1. heard[i] \in SaidMessage
    BY DEF SessionInv, HeardInv
  <2>2. t \in Text /\ IsHeard(Held(t)) /\ heard[i] = Message(t)
    BY <2>1 DEF SessionInv, HeardInv, SaidMessage
  <2>3. heard[i].said = SaidLine(Held(t))
    BY <2>2 DEF Message
  <2>4. heard[i][tag] = TagLine(Held(t), tag)
    BY <2>2 DEF Message, FlagTag, ModLine, SubscriberLine, TagLine
  <2> QED
    BY <2>2, <2>3, <2>4, AuthorsFlags
<1> QED
  BY <1>1, SessionInvariant, PTL

\* The lines of a sequence of messages are a sequence.
LEMMA LinesAreSeq ==
  ASSUME NEW s \in Seq(SaidMessage)
  PROVE  [i \in DOMAIN s |-> s[i].said] \in Seq(Line)
<1> DEFINE n == Len(s)
<1>1. n \in Nat /\ DOMAIN s = 1 .. n /\ \A i \in 1 .. n : s[i] \in SaidMessage
  OBVIOUS
<1>2. \A i \in 1 .. n : s[i].said \in Line
  BY <1>1 DEF SaidMessage
<1>3. [i \in DOMAIN s |-> s[i].said] \in [1 .. n -> Line]
  BY <1>1, <1>2
<1> HIDE DEF n
<1>4. [1 .. n -> Line] \subseteq Seq(Line)
  BY <1>1
<1> QED
  BY <1>3, <1>4

\* The client implements the feed: what is said in the order of the server, and
\* nothing twice.
THEOREM FeedImplemented == SessionSpec => ImplementsFeed
<1>1. SessionInit => Feed!Init
  <2> SUFFICES ASSUME SessionInit PROVE HandledLines = << >>
    BY DEF Feed!Init
  <2> QED
    BY DEF SessionInit, HandledLines
<1>2. SessionInv /\ SessionInv' /\ [SessionNext]_sessionVars => [Feed!Next]_HandledLines
  <2> SUFFICES ASSUME SessionInv, SessionInv', [SessionNext]_sessionVars
               PROVE  [Feed!Next]_HandledLines
    OBVIOUS
  <2>1. CASE heard' = heard
    BY <2>1 DEF HandledLines
  <2>2. CASE SessionPop /\ ~raced
    <3> DEFINE t == Head(myChatMessages).text
               m == Message(t)
               n == Len(heard)
    <3>1. heard' = heard \o Messages[t]
      BY <2>2 DEF SessionPop
    <3>2. t \in Text
      <4>1. myChatMessages \in Seq(Chunk) /\ myChatMessages # << >>
        BY <2>2 DEF SessionInv, QueueInv, SessionPop, Pop
      <4>2. Head(myChatMessages) \in Chunk
        BY <4>1, HeadTailProperties
      <4> QED
        BY <4>2 DEF Chunk
    <3>3. heard \in Seq(SaidMessage) /\ heard' \in Seq(SaidMessage)
      BY DEF SessionInv, HeardInv
    <3>4. CASE Messages[t] = << >>
      BY <2>1, <3>1, <3>3, <3>4, ConcatEmptySeq
    <3>5. CASE Messages[t] = <<m>> /\ m \in SaidMessage
      <4>1. heard' = Append(heard, m)
        <5> HIDE DEF m, t
        <5> QED
          BY <3>1, <3>3, <3>5, AppendIsConcat
      <4>2. /\ n \in Nat /\ DOMAIN heard = 1 .. n /\ DOMAIN heard' = 1 .. n + 1
            /\ heard'[n + 1] = m /\ (\A i \in 1 .. n : heard'[i] = heard[i])
        <5> HIDE DEF m, t
        <5> QED
          BY <3>3, <3>5, <4>1, AppendProperties
      <4>3. m.said \in Line
        BY <3>5 DEF SaidMessage
      <4>4. \A i \in DOMAIN HandledLines : HandledLines[i] < m.said
        <5> SUFFICES ASSUME NEW i \in 1 .. n PROVE heard[i].said < m.said
          BY <4>2 DEF HandledLines
        <5>1. i < n + 1 /\ i \in DOMAIN heard' /\ n + 1 \in DOMAIN heard'
          BY <4>2
        <5>2. heard'[i].text.to < heard'[n + 1].text.from
          BY <5>1 DEF SessionInv, HeardInv
        <5>3. \A j \in DOMAIN heard' :
                /\ heard'[j].text \in Text /\ IsHeard(Held(heard'[j].text))
                /\ heard'[j].said = SaidLine(Held(heard'[j].text))
          <6> TAKE j \in DOMAIN heard'
          <6>1. heard'[j] \in SaidMessage
            BY <3>3
          <6>2. /\ IsHeard(Held(heard'[j].text)) /\ heard'[j] = Message(heard'[j].text)
            BY DEF SessionInv, HeardInv
          <6> QED
            BY <6>1, <6>2 DEF SaidMessage, Message
        <5>4. heard'[i].said < heard'[n + 1].said
          BY <5>1, <5>2, <5>3, LaterTextLaterLine DEF IsHeard
        <5> QED
          BY <4>2, <5>4
      <4>5. HandledLines' = Append(HandledLines, m.said)
        <5>1. \A i \in 1 .. n : HandledLines'[i] = HandledLines[i]
          BY <4>2 DEF HandledLines
        <5>2. HandledLines'[n + 1] = m.said
          BY <4>2 DEF HandledLines
        <5>3. DOMAIN HandledLines' = 1 .. n + 1 /\ DOMAIN HandledLines = 1 .. n
          BY <4>2 DEF HandledLines
        <5>4. HandledLines \in Seq(Line) /\ HandledLines' \in Seq(Line)
          BY <3>3, LinesAreSeq DEF HandledLines
        <5> HIDE DEF m, n
        <5> QED
          BY <4>2, <4>3, <5>1, <5>2, <5>3, <5>4
      <4>6. Feed!Handle(m.said)
        BY <4>4, <4>5 DEF Feed!Handle
      <4> QED
        BY <4>3, <4>6 DEF Feed!Next
    <3> QED
      BY <3>2, <3>4, <3>5, MessageOfText
  <2>3. heard' = heard \/ (SessionPop /\ ~raced)
    BY DEF SessionNext, SessionMain, SessionPop, SessionReceive, SessionCutPing, sessionVars
  <2> QED
    BY <2>1, <2>2, <2>3
<1> QED
  BY <1>1, <1>2, SessionInvariant, PTL DEF SessionSpec, ImplementsFeed, Feed!Spec
=============================================================================

--------------------------- MODULE MainWindowProofs ---------------------------
(***************************************************************************)
(* What the runs of MainWindow check holds for any set of window sizes.    *)
(* Neither invariant about frames is inductive: between two frames the     *)
(* buffers may be of another size, but then the flag says so, and whatever *)
(* is drawn has been prepared for a window that is open (FollowsWindow).   *)
(* The last part counts the steps of a loop that has been told to end.     *)
(***************************************************************************)
EXTENDS MainWindow, Naturals, TLAPS

\* As long as the device does what it is asked, the views are live, and the
\* buffers have the window's size unless a resize is still to be done.
FollowsWindow ==
  /\ ~refused => views = "live" /\ (buffers = size \/ myWantToResizeBuffers)
  /\ loop \in {"prepare", "frame"} => ~myIsMinimized
  /\ loop = "frame" => ~myWantToResizeBuffers

\* A destroyed window has told the loop to end.
QuitOnItsWay ==
  window = "destroyed" =>
    loop \in {"pump", "returned", "crashed"} /\ (quitPosted \/ ~myIsRunning)

USE SizeAssumption

----------------------------------------------------------------------------
LEMMA InitTypeOK == Init => TypeOK
BY DEF Init, TypeOK

LEMMA NextTypeOK == TypeOK /\ MinimizedAgrees /\ FollowsWindow /\ [Next]_vars => TypeOK'
<1> SUFFICES ASSUME TypeOK, MinimizedAgrees, FollowsWindow, [Next]_vars
             PROVE  TypeOK'
  OBVIOUS
<1> USE DEF TypeOK, runVars, flagVars, windowVars, deviceVars
<1>1. CASE ResizeWindow
  BY <1>1 DEF ResizeWindow, SizeChanged
<1>2. CASE MinimizeWindow
  BY <1>2 DEF MinimizeWindow
<1>3. CASE ExitSizeMove
  BY <1>3 DEF ExitSizeMove
<1>4. CASE TrayOpen
  BY <1>4 DEF TrayOpen, SizeChanged
<1>5. CASE TrayExit
  BY <1>5 DEF TrayExit
<1>6. CASE CloseWindow
  BY <1>6 DEF CloseWindow
<1>7. CASE ReceiveQuit
  BY <1>7 DEF ReceiveQuit
<1>8. CASE NoMessage
  BY <1>8 DEF NoMessage
<1>9. CASE Update
  BY <1>9 DEF Update, IsAdmin
<1>10. CASE Prepare
  <2>1. loop' \in {"frame", "crashed"} /\ myWantToResizeBuffers' = FALSE
        /\ UNCHANGED <<runVars, windowVars, MinimizeToSystemTray, myIsMinimized, askedToQuit>>
    BY <1>10 DEF Prepare
  <2>2. CASE Resize
    <3>1. holders' \subseteq {"BackBufferTex", "BackBuffer", "Context"}
      BY <2>2 DEF Resize, ReleasedHolders
    <3>2. views' \in {"live", "released"} /\ refused' \in BOOLEAN
      BY <2>2 DEF Resize
    <3>3. buffers' \in Size
      <4>1. ClientSize \in Size
        \* A minimised window is not drawn.
        BY <1>10 DEF Prepare, FollowsWindow, MinimizedAgrees, ClientSize
      <4>2. QED
        BY <2>2, <4>1 DEF Resize
    <3>4. QED
      BY <2>1, <3>1, <3>2, <3>3
  <2>3. CASE UNCHANGED deviceVars
    BY <2>1, <2>3
  <2>4. QED
    BY <1>10, <2>2, <2>3 DEF Prepare
<1>11. CASE Frame
  BY <1>11 DEF Frame
<1>12. CASE UNCHANGED vars
  BY <1>12 DEF vars
<1>13. QED
  BY <1>1, <1>2, <1>3, <1>4, <1>5, <1>6, <1>7, <1>8, <1>9, <1>10, <1>11, <1>12
  DEF Next, WindowMessage, LoopStep

----------------------------------------------------------------------------
LEMMA InitAgrees == Init => MinimizedAgrees /\ QuitOnItsWay /\ FollowsWindow
BY DEF Init, MinimizedAgrees, QuitOnItsWay, FollowsWindow

LEMMA NextAgrees == TypeOK /\ MinimizedAgrees /\ [Next]_vars => MinimizedAgrees'
<1> SUFFICES ASSUME TypeOK, MinimizedAgrees, [Next]_vars
             PROVE  MinimizedAgrees'
  OBVIOUS
<1> USE DEF MinimizedAgrees, TypeOK, flagVars, windowVars
<1>1. CASE ResizeWindow \/ TrayOpen
  BY <1>1 DEF ResizeWindow, TrayOpen, SizeChanged
<1>2. CASE MinimizeWindow \/ ExitSizeMove \/ TrayExit \/ CloseWindow
  BY <1>2 DEF MinimizeWindow, ExitSizeMove, TrayExit, CloseWindow
<1>3. CASE LoopStep
  BY <1>3 DEF LoopStep, ReceiveQuit, NoMessage, Update, Prepare, Frame
<1>4. CASE UNCHANGED vars
  BY <1>4 DEF vars
<1>5. QED
  BY <1>1, <1>2, <1>3, <1>4 DEF Next, WindowMessage

LEMMA NextQuitOnItsWay == TypeOK /\ QuitOnItsWay /\ [Next]_vars => QuitOnItsWay'
<1> SUFFICES ASSUME TypeOK, QuitOnItsWay, [Next]_vars
             PROVE  QuitOnItsWay'
  OBVIOUS
<1> USE DEF QuitOnItsWay, TypeOK, runVars, windowVars
<1>1. CASE ResizeWindow \/ TrayOpen
  BY <1>1 DEF ResizeWindow, TrayOpen, SizeChanged
<1>2. CASE MinimizeWindow \/ ExitSizeMove \/ TrayExit \/ CloseWindow
  BY <1>2 DEF MinimizeWindow, ExitSizeMove, TrayExit, CloseWindow
<1>3. CASE ReceiveQuit \/ NoMessage
  BY <1>3 DEF ReceiveQuit, NoMessage
<1>4. CASE Update \/ Prepare \/ Frame
  BY <1>4 DEF Update, Prepare, Frame
<1>5. CASE UNCHANGED vars
  BY <1>5 DEF vars
<1>6. QED
  BY <1>1, <1>2, <1>3, <1>4, <1>5 DEF Next, WindowMessage, LoopStep

LEMMA NextFollows ==
  TypeOK /\ MinimizedAgrees /\ QuitOnItsWay /\ FollowsWindow /\ [Next]_vars => FollowsWindow'
<1> SUFFICES ASSUME TypeOK, MinimizedAgrees, QuitOnItsWay, FollowsWindow, [Next]_vars
             PROVE  FollowsWindow'
  OBVIOUS
<1> USE DEF FollowsWindow, TypeOK, flagVars, windowVars, deviceVars
<1>1. CASE ResizeWindow \/ TrayOpen
  BY <1>1 DEF ResizeWindow, TrayOpen, SizeChanged
<1>2. CASE MinimizeWindow \/ ExitSizeMove \/ TrayExit \/ CloseWindow
  BY <1>2 DEF MinimizeWindow, ExitSizeMove, TrayExit, CloseWindow
<1>3. CASE ReceiveQuit \/ NoMessage \/ Frame
  BY <1>3 DEF ReceiveQuit, NoMessage, Frame
<1>4. CASE Update
  BY <1>4 DEF Update
<1>5. CASE Prepare
  <2>1. loop = "prepare" /\ ClientSize = size
    BY <1>5 DEF Prepare, MinimizedAgrees, QuitOnItsWay, ClientSize
  <2>2. ReleasedHolders = {}
    BY DEF ReleasedHolders
  <2>3. CASE myWantToResizeBuffers /\ Resize
    \* Either the device refused, or the buffers are new and the views live.
    BY <1>5, <2>1, <2>2, <2>3 DEF Prepare, Resize
  <2>4. CASE ~myWantToResizeBuffers /\ UNCHANGED deviceVars
    BY <1>5, <2>1, <2>4 DEF Prepare
  <2>5. QED
    BY <1>5, <2>3, <2>4 DEF Prepare
<1>6. CASE UNCHANGED vars
  BY <1>6 DEF vars
<1>7. QED
  BY <1>1, <1>2, <1>3, <1>4, <1>5, <1>6 DEF Next, WindowMessage, LoopStep

\* The conjunction is inductive.
IInv == TypeOK /\ MinimizedAgrees /\ QuitOnItsWay /\ FollowsWindow

LEMMA IInvHolds == Spec => []IInv
<1>1. Init => IInv
  BY InitTypeOK, InitAgrees DEF IInv
<1>2. IInv /\ [Next]_vars => IInv'
  BY NextTypeOK, NextAgrees, NextQuitOnItsWay, NextFollows DEF IInv
<1>3. QED
  BY <1>1, <1>2, PTL DEF Spec

\* Every message and every step of the loop keeps the variables in range, and
\* the buffers never take the size of a minimised window.
THEOREM WindowTyping == Spec => []TypeOK
<1>1. IInv => TypeOK
  BY DEF IInv
<1>2. QED
  BY <1>1, IInvHolds, PTL

\* A frame is drawn in a window that exists, into buffers of its size.
THEOREM FramesFit == Spec => []FrameFitsWindow
<1>1. IInv => FrameFitsWindow
  BY DEF IInv, TypeOK, FollowsWindow, FrameFitsWindow, MinimizedAgrees, QuitOnItsWay, ClientSize
<1>2. QED
  BY <1>1, IInvHolds, PTL

\* A frame is drawn to live views as long as the device does what it is asked.
THEOREM LiveViews == Spec => []DrawsToLiveViews
<1>1. IInv => DrawsToLiveViews
  BY DEF IInv, FollowsWindow, DrawsToLiveViews
<1>2. QED
  BY <1>1, IInvHolds, PTL

\* Nothing happens to a window that is destroyed.
THEOREM DestroyedIsLast == Spec => []NothingAfterDestroy
<1>1. IInv => NothingAfterDestroy
  BY DEF IInv, QuitOnItsWay, NothingAfterDestroy
<1>2. QED
  BY <1>1, IInvHolds, PTL

----------------------------------------------------------------------------
(* What stands behind QuitReturns.                                         *)

\* WM_QUIT is on its way, or has been received.
ToldToEnd == quitPosted \/ ~myIsRunning

\* The steps Run has still to take, once it is told to end.
LoopLeft ==
  CASE loop = "update"  -> 5
    [] loop = "prepare" -> 4
    [] loop = "frame"   -> 3
    [] loop = "pump"    -> IF quitPosted THEN 2 ELSE 1
    [] OTHER            -> 0

\* Once the window is closed, or "Exit" chosen, Run draws what it has begun and
\* no second frame: it stays told, each of its steps leaves it fewer, and when
\* the messages run dry it returns. Only being told to end once more, before it
\* has received that, gives it another message to take.
THEOREM QuitIsHeeded ==
  Spec => [][ToldToEnd => /\ ToldToEnd'
                          /\ LoopStep => LoopLeft' < LoopLeft
                          /\ NoMessage => loop' = "returned"
                          /\ LoopLeft' > LoopLeft => TrayExit \/ CloseWindow]_vars
<1> DEFINE Heeded == /\ ToldToEnd'
                     /\ LoopStep => LoopLeft' < LoopLeft
                     /\ NoMessage => loop' = "returned"
                     /\ LoopLeft' > LoopLeft => TrayExit \/ CloseWindow
<1>1. ASSUME TypeOK, Next, ToldToEnd  PROVE Heeded
  <2>1. CASE WindowMessage
    <3>1. /\ loop = "pump" /\ loop' = "pump" /\ ~LoopStep
          /\ quitPosted => quitPosted'
          /\ myIsRunning' => myIsRunning
          /\ quitPosted' => quitPosted \/ TrayExit \/ CloseWindow
      BY <1>1, <2>1
      DEF WindowMessage, ResizeWindow, MinimizeWindow, ExitSizeMove, TrayOpen, TrayExit,
          CloseWindow, SizeChanged, runVars, LoopStep, ReceiveQuit, NoMessage, Update, Prepare,
          Frame
    <3> QED  BY <1>1, <3>1 DEF ToldToEnd, LoopLeft, LoopStep
  <2>2. CASE ReceiveQuit
    <3>1. /\ loop = "pump" /\ loop' = "pump" /\ quitPosted /\ ~quitPosted' /\ ~myIsRunning'
          /\ ~NoMessage
      BY <2>2 DEF ReceiveQuit, NoMessage
    <3> QED  BY <3>1 DEF ToldToEnd, LoopLeft
  <2>3. CASE NoMessage
    BY <1>1, <2>3 DEF NoMessage, ToldToEnd, LoopLeft, runVars
  <2>4. CASE Update
    <3>1. /\ loop = "update" /\ loop' \in {"prepare", "pump", "returned"} /\ ~NoMessage
          /\ quitPosted' = quitPosted /\ (myIsRunning' => myIsRunning)
      BY <1>1, <2>4 DEF Update, TypeOK, NoMessage
    <3> QED  BY <1>1, <3>1 DEF ToldToEnd, LoopLeft
  <2>5. CASE Prepare
    BY <1>1, <2>5 DEF Prepare, NoMessage, ToldToEnd, LoopLeft, runVars
  <2>6. CASE Frame
    BY <1>1, <2>6 DEF Frame, NoMessage, ToldToEnd, LoopLeft, runVars
  <2> QED
    BY <1>1, <2>1, <2>2, <2>3, <2>4, <2>5, <2>6 DEF Next, LoopStep
<1>2. TypeOK /\ [Next]_vars => [ToldToEnd => Heeded]_vars
  BY <1>1
<1> QED
  BY <1>2, WindowTyping, PTL DEF Spec

=============================================================================

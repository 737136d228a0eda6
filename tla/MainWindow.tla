------------------------------ MODULE MainWindow ------------------------------
(***************************************************************************)
(* Application::Run and Application::WinProc: the loop that dispatches     *)
(* window messages, updates, and draws a frame, with what the user does to *)
(* the window and the tray icon, and the swap chain's buffers in DX11,     *)
(* which follow the window's size with a flag in between.                  *)
(*                                                                         *)
(* The loop is one thread; a message is dispatched between two frames, so  *)
(* whatever happens to the window happens while the loop is at "pump".     *)
(***************************************************************************)
CONSTANTS
  Size,     \* client sizes the window may have
  NoSize    \* that of a minimised window

ASSUME SizeAssumption == NoSize \notin Size /\ Size # {}

VARIABLES
  loop,                   \* "pump", "update", "prepare", "frame", "returned", "crashed"
  quitPosted,             \* WM_QUIT is waiting
  myIsRunning,
  window,                 \* "restored", "maximized", "minimized", "destroyed"
  size,                   \* the client size, when the window is not minimised
  taskBarButton,
  MinimizeToSystemTray,
  myIsMinimized,
  myWantToResizeBuffers,
  buffers,                \* the size of the swap chain's buffers
  holders,                \* what refers to those buffers
  views,                  \* what BackBuffer and DepthBuffer name: "live" or "released"
  refused,                \* history: the device refused a call
  askedToQuit             \* history: a user of twitch.json's "admins" said !quit

vars == <<loop, quitPosted, myIsRunning, window, size, taskBarButton, MinimizeToSystemTray,
          myIsMinimized, myWantToResizeBuffers, buffers, holders, views, refused, askedToQuit>>

runVars == <<quitPosted, myIsRunning>>
flagVars == <<myIsMinimized, myWantToResizeBuffers>>
windowVars == <<window, size, taskBarButton>>
deviceVars == <<buffers, holders, views, refused>>

ClientSize == IF window = "minimized" THEN NoSize ELSE size

----------------------------------------------------------------------------
\* The constructor's window, and what DX11::Init made for it.
Init ==
  /\ loop = "pump"
  /\ quitPosted = FALSE
  /\ myIsRunning = TRUE
  /\ window = "restored"
  /\ size \in Size
  /\ taskBarButton = TRUE
  /\ MinimizeToSystemTray \in BOOLEAN
  /\ myIsMinimized = FALSE
  /\ myWantToResizeBuffers = FALSE
  /\ buffers = size
  /\ holders = {"BackBufferTex", "BackBuffer"}
  /\ views = "live"
  /\ refused = FALSE
  /\ askedToQuit = FALSE

(* WinProc                                                                 *)

\* Mutant: a window that is restored keeps its buffers.
SizeChangedKeepsBuffers(newWindow, newSize) ==
  /\ window' = newWindow /\ size' = newSize
  /\ myIsMinimized' = FALSE
  /\ myWantToResizeBuffers' = (myWantToResizeBuffers \/ newWindow = "maximized")

\* WM_SIZE with SIZE_MAXIMIZED or SIZE_RESTORED, sent as the size changes.
SizeChanged(newWindow, newSize) ==
  /\ window' = newWindow /\ size' = newSize
  /\ myIsMinimized' = FALSE
  /\ myWantToResizeBuffers' = TRUE

\* The user resizes, maximises or restores the window.
ResizeWindow ==
  /\ loop = "pump" /\ window # "destroyed"
  /\ \E newWindow \in {"restored", "maximized"}, newSize \in Size :
       SizeChanged(newWindow, newSize)
  /\ UNCHANGED <<loop, runVars, taskBarButton, MinimizeToSystemTray, deviceVars, askedToQuit>>

\* WM_SIZE with SIZE_MINIMIZED.
MinimizeWindow ==
  /\ loop = "pump" /\ window # "destroyed"
  /\ window' = "minimized"
  /\ myIsMinimized' = TRUE
  /\ taskBarButton' = (taskBarButton /\ ~MinimizeToSystemTray)
  /\ UNCHANGED <<loop, runVars, size, MinimizeToSystemTray, myWantToResizeBuffers, deviceVars,
                 askedToQuit>>

\* WM_EXITSIZEMOVE: the window was dragged, by its frame or its title.
ExitSizeMove ==
  /\ loop = "pump" /\ window \in {"restored", "maximized"}
  /\ myWantToResizeBuffers' = TRUE
  /\ UNCHANGED <<loop, runVars, windowVars, MinimizeToSystemTray, myIsMinimized, deviceVars,
                 askedToQuit>>

\* "Open" in the tray's menu: ShowWindow(SW_NORMAL) sends WM_SIZE if the window
\* was minimised or maximised.
TrayOpen ==
  /\ loop = "pump" /\ window # "destroyed"
  /\ taskBarButton' = TRUE
  /\ \/ window = "restored" /\ myIsMinimized' = FALSE
        /\ UNCHANGED <<window, size, myWantToResizeBuffers>>
     \/ window # "restored" /\ \E newSize \in Size : SizeChanged("restored", newSize)
  /\ UNCHANGED <<loop, runVars, MinimizeToSystemTray, deviceVars, askedToQuit>>

\* "Exit" in the tray's menu.
TrayExit ==
  /\ loop = "pump" /\ window # "destroyed"
  /\ myIsRunning' = FALSE
  /\ quitPosted' = TRUE
  /\ UNCHANGED <<loop, windowVars, MinimizeToSystemTray, flagVars, deviceVars, askedToQuit>>

\* WM_CLOSE, which DefWindowProc answers by destroying the window: WM_DESTROY.
CloseWindow ==
  /\ loop = "pump" /\ window # "destroyed"
  /\ window' = "destroyed"
  /\ quitPosted' = TRUE
  /\ UNCHANGED <<loop, myIsRunning, size, taskBarButton, MinimizeToSystemTray, flagVars,
                 deviceVars, askedToQuit>>

(* Run                                                                     *)

\* Mutant: WM_QUIT is dispatched like any other message.
ReceiveQuitIgnored ==
  /\ loop = "pump" /\ quitPosted
  /\ quitPosted' = FALSE
  /\ UNCHANGED <<loop, myIsRunning, windowVars, MinimizeToSystemTray, flagVars, deviceVars,
                 askedToQuit>>

ReceiveQuit ==
  /\ loop = "pump" /\ quitPosted
  /\ quitPosted' = FALSE
  /\ myIsRunning' = FALSE
  /\ UNCHANGED <<loop, windowVars, MinimizeToSystemTray, flagVars, deviceVars, askedToQuit>>

\* PeekMessage finds no message, and so no WM_QUIT.
NoMessage ==
  /\ loop = "pump" /\ ~quitPosted
  /\ loop' = IF myIsRunning THEN "update" ELSE "returned"
  /\ UNCHANGED <<runVars, windowVars, MinimizeToSystemTray, flagVars, deviceVars, askedToQuit>>

\* TwitchApi::IsAdmin, which HandlePRIVMSG asks before it looks at a command.
IsAdmin(isListed) == FALSE

\* Mutant: a minimised window is drawn too.
UpdateAndDraw ==
  /\ loop = "update"
  /\ loop' = "prepare"
  /\ UNCHANGED <<runVars, windowVars, MinimizeToSystemTray, flagVars, deviceVars, askedToQuit>>

\* Update, and ProcessInput, where chat may say !quit. Where that word ends a line
\* that was received to its end, "\r\n" belongs to it, and it is not "!quit".
Update ==
  /\ loop = "update"
  /\ \/ UNCHANGED <<myIsRunning, askedToQuit>>
     \/ \E isListed, endsLine \in BOOLEAN :
          /\ myIsRunning' = (myIsRunning /\ ~(IsAdmin(isListed) /\ ~endsLine))
          /\ askedToQuit' = (askedToQuit \/ isListed)
  /\ loop' = IF ~myIsMinimized THEN "prepare" ELSE IF myIsRunning' THEN "pump" ELSE "returned"
  /\ UNCHANGED <<quitPosted, windowVars, MinimizeToSystemTray, flagVars, deviceVars>>

\* Mutant: the texture is not released.
ReleasedHoldersButTexture == holders \ {"BackBuffer", "Context"}

\* What Resize lets go of: ClearState and OMSetRenderTargets the context's
\* reference, and then BackBuffer and BackBufferTex.
ReleasedHolders == holders \ {"BackBuffer", "BackBufferTex", "Context"}

\* DX11::Resize. ResizeBuffers fails while anything refers to the buffers, or if
\* the device refuses; then, or when a view cannot be made, Resize leaves the
\* pointers as they are.
Resize ==
  \/ /\ ReleasedHolders = {}
     /\ buffers' = ClientSize
     /\ holders' = {"BackBuffer", "BackBufferTex"}
     /\ views' = "live"
     /\ UNCHANGED refused
  \/ /\ ReleasedHolders # {}
     /\ holders' = ReleasedHolders
     /\ views' = "released"
     /\ UNCHANGED <<buffers, refused>>
  \/ /\ buffers' \in {buffers, ClientSize}
     /\ \E made \in {{}, {"BackBufferTex"}, {"BackBufferTex", "BackBuffer"}} :
          holders' = ReleasedHolders \cup made
     /\ views' = "released"
     /\ refused' = TRUE

\* A resize that was asked for. Releasing once more what is released already
\* may end the program.
Prepare ==
  /\ loop = "prepare"
  /\ \/ loop' = "frame"
     \/ myWantToResizeBuffers /\ views = "released" /\ loop' = "crashed"
  /\ IF myWantToResizeBuffers THEN Resize ELSE UNCHANGED deviceVars
  /\ myWantToResizeBuffers' = FALSE
  /\ UNCHANGED <<runVars, windowVars, MinimizeToSystemTray, myIsMinimized, askedToQuit>>

\* BeginFrame sets the context's render target, what is drawn may change the
\* setting, EndFrame presents. Drawing to released views may end the program.
Frame ==
  /\ loop = "frame"
  /\ \/ loop' = IF myIsRunning THEN "pump" ELSE "returned"
     \/ views = "released" /\ loop' = "crashed"
  /\ \/ holders' = holders \cup {"Context"}
     \/ views = "released" /\ UNCHANGED holders
  /\ MinimizeToSystemTray' \in BOOLEAN
  /\ UNCHANGED <<runVars, windowVars, flagVars, buffers, views, refused, askedToQuit>>

----------------------------------------------------------------------------
WindowMessage == ResizeWindow \/ MinimizeWindow \/ ExitSizeMove \/ TrayOpen \/ TrayExit
                 \/ CloseWindow

LoopStep == ReceiveQuit \/ NoMessage \/ Update \/ Prepare \/ Frame

Next == WindowMessage \/ LoopStep

Spec == Init /\ [][Next]_vars

\* The loop runs, and the messages run dry: a user sends them more slowly than
\* the loop takes them. Nothing is assumed of what the user does.
Fairness == WF_vars(LoopStep) /\ SF_vars(NoMessage)

FairSpec == Spec /\ Fairness

----------------------------------------------------------------------------
(* Properties                                                              *)

\* Every variable keeps to its range; in particular the buffers never take the
\* size of a minimised window.
TypeOK ==
  /\ loop \in {"pump", "update", "prepare", "frame", "returned", "crashed"}
  /\ quitPosted \in BOOLEAN
  /\ myIsRunning \in BOOLEAN
  /\ window \in {"restored", "maximized", "minimized", "destroyed"}
  /\ size \in Size
  /\ taskBarButton \in BOOLEAN
  /\ MinimizeToSystemTray \in BOOLEAN
  /\ myIsMinimized \in BOOLEAN
  /\ myWantToResizeBuffers \in BOOLEAN
  /\ buffers \in Size
  /\ holders \subseteq {"BackBufferTex", "BackBuffer", "Context"}
  /\ views \in {"live", "released"}
  /\ refused \in BOOLEAN
  /\ askedToQuit \in BOOLEAN

\* A frame is drawn in a window that still exists, as WM_QUIT reaches the loop
\* before it leaves the messages, and into buffers of the window's size, however
\* it was resized, minimised and opened from the tray since the last one.
FrameFitsWindow ==
  loop = "frame" => window # "destroyed" /\ (refused \/ buffers = ClientSize)

\* A frame is drawn to live views as long as the device does what it is asked:
\* Resize itself lets go of all that would keep ResizeBuffers from working.
DrawsToLiveViews == loop = "frame" /\ ~refused => views = "live"

\* The flag that stops drawing agrees with the window, so a window that is open
\* is drawn and one that is minimised is not.
MinimizedAgrees ==
  window # "destroyed" => (myIsMinimized <=> window = "minimized")

\* Neither an update nor a frame happens once the window is destroyed.
NothingAfterDestroy == loop \in {"update", "prepare", "frame"} => window # "destroyed"

\* Closing the window, or "Exit" in the tray's menu, ends Run.
QuitReturns == quitPosted ~> loop \in {"returned", "crashed"}

\* Refuted: twitch_example.json's "admins" are the users whose !quit the bot
\* obeys; the loop would not begin another iteration.
AdminsCanQuit == askedToQuit => loop \notin {"pump", "update"}

=============================================================================

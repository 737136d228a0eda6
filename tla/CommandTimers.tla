---------------------------- MODULE CommandTimers ----------------------------
(***************************************************************************)
(* The main loop's handling of one entry of Bot::myCommands: the tree of   *)
(* commands a chat message is matched against, their cooldowns, the        *)
(* TimerManager whose callbacks end those cooldowns and release the VRChat *)
(* inputs that commands press, and the UI that edits the tree.             *)
(*                                                                         *)
(* One iteration of Application::Run is the phases                         *)
(*    "update" (window messages, then Application::Update)                 *)
(*    "input"  (Application::ProcessInput drains the chat messages)        *)
(*    "render" (the UI is drawn, and edited, unless minimised)             *)
(* Time is counted in ticks; an arbitrary number of ticks up to MaxFrame   *)
(* passes between two updates.                                             *)
(***************************************************************************)
EXTENDS Integers, Sequences, FiniteSets

CONSTANTS
  Command,        \* the commands of the tree
  Root,           \* the entry of myCommands
  SubCommands,    \* mySubCommands of each command, in their order
  Line,           \* each command with the commands above it
  Holds,          \* for the leaves that hold an input: what they press, release
                  \* and for how long
  Address,        \* the OSC addresses of the inputs
  Messages,       \* chat messages: the commands they match, those whose regex
                  \* does not compile, and the argument
  FromArgument,   \* the hold time is the message's argument
  NoArgument,     \* an empty argument, or one made of dots
  Unparsable,     \* an argument std::stof throws on
  DefaultHold,    \* the hold time of NoArgument ("1")
  CooldownTimes,  \* what the UI may set a cooldown to (0 is the default)
  MaxElapsed,     \* where adding a rendered frame's time to a float stops
                  \* changing it; a longer (or infinite, NaN) timer never ends
  StallAt,        \* the same for the iterations of a minimised, spinning loop
  MaxFrame,       \* bound: ticks between two updates
  Edited          \* bound: the commands whose settings the UI changes

Subs == [c \in Command |-> {SubCommands[c][i] : i \in DOMAIN SubCommands[c]}]

\* The siblings drawn, and asked, before c.
Earlier ==
  [c \in Command |->
     {s \in Command : \E p \in Command : \E i, j \in DOMAIN SubCommands[p] :
                        i < j /\ SubCommands[p][i] = s /\ SubCommands[p][j] = c}]

ASSUME TreeAssumption ==
  /\ Root \in Command
  /\ SubCommands \in [Command -> Seq(Command)]
  /\ Line \in [Command -> SUBSET Command]
  /\ Line[Root] = {Root}
  /\ \A c \in Command : c \in Line[c]
  /\ \A p \in Command : \A c \in Subs[p] : Line[c] = {c} \cup Line[p]

ASSUME HoldAssumption ==
  /\ DOMAIN Holds \subseteq Command
  /\ \A c \in DOMAIN Holds : /\ Holds[c].presses \in Address
                             /\ Holds[c].releases \in Address
                             /\ Holds[c].time \in Int \cup {FromArgument}
  /\ FromArgument \notin Int

ASSUME MessageAssumption ==
  /\ \A m \in Messages : /\ m.matches \subseteq Command
                         /\ m.broken \subseteq Command
                         /\ m.arg \in Int \cup {NoArgument, Unparsable}
  /\ NoArgument \notin Int /\ Unparsable \notin Int /\ NoArgument # Unparsable

ASSUME TimeAssumption ==
  /\ DefaultHold \in Nat /\ MaxElapsed \in Nat /\ StallAt \in 0 .. MaxElapsed
  /\ MaxFrame \in Nat \ {0}
  /\ CooldownTimes \subseteq Int /\ 0 \in CooldownTimes
  /\ Edited \subseteq Command

VARIABLES
  alive,                  \* the commands still in the tree
  myIsEnabled,
  myIsOnCooldown,
  myCommandCooldownTime,
  myTimers,               \* TimerManager::myTimers
  sinceUpdate,            \* ticks since TimerManager::Update
  input,                  \* the last value sent to each address
  myIsMinimized,
  spun,                   \* the last iteration did not render, nor sleep
  phase,                  \* where the main loop is, or "stopped" or "crashed"
  owed                    \* history: ticks left of the cooldown each command
                          \* was given when it last started one

vars == <<alive, myIsEnabled, myIsOnCooldown, myCommandCooldownTime, myTimers,
          sinceUpdate, input, myIsMinimized, spun, phase, owed>>

----------------------------------------------------------------------------
(* Timers. A timer's id is never used again, so a timer is its callback.   *)

\* Mutant: TimeElapsed is not reset.
CooldownTimerNotReset(c, time) ==
  [callback |-> "cooldown", of |-> c, elapsed |-> time, duration |-> time]

CooldownTimer(c, time) ==
  [callback |-> "cooldown", of |-> c, elapsed |-> 0, duration |-> time]

ReleaseTimer(c, time) ==
  [callback |-> "release", of |-> c, elapsed |-> 0, duration |-> time]

EndsCooldown(t, c) == t.callback = "cooldown" /\ t.of = c

CooldownTimers(c) == {t \in myTimers : EndsCooldown(t, c)}

Releases(t, a) == t.callback = "release" /\ Holds[t.of].releases = a

Least(a, b) == IF a < b THEN a ELSE b

\* TimeElapsed += delta in float: past a limit the sum rounds to TimeElapsed.
\* The deltas of a loop that does not sleep may be tiny, and the limit low.
Limits == IF spun THEN {StallAt, MaxElapsed} ELSE {MaxElapsed}

\* Mutant: timers stand still unless the loop renders.
ElapsedWhileRendering(t, limit) ==
  IF spun THEN t.elapsed ELSE Least(t.elapsed + sinceUpdate, limit)

Elapsed(t, limit) ==
  IF t.elapsed >= limit THEN t.elapsed ELSE Least(t.elapsed + sinceUpdate, limit)

Due(t, limit) == Elapsed(t, limit) >= t.duration

----------------------------------------------------------------------------
(* Dispatch of a message.                                                  *)

HasSubCommands(c) == Subs[c] \cap alive # {}

\* Mutant: commands on cooldown are handled.
EligibleOnCooldown(c, m) == c \in alive /\ c \in m.matches /\ myIsEnabled[c]

Eligible(c, m) ==
  c \in alive /\ c \in m.matches /\ myIsEnabled[c] /\ ~myIsOnCooldown[c]

\* Constructing the std::regex of a command that is asked throws.
Throws(c, m) == c \in alive /\ c \in m.broken

\* HandleCommand takes the first sub-command that is eligible.
Chosen(c, m) ==
  /\ Eligible(c, m) /\ ~Throws(c, m)
  /\ \A s \in Earlier[c] : ~Eligible(s, m) /\ ~Throws(s, m)

\* The commands the recursion goes through, from Root to a leaf.
Reached(m) == {c \in Command : \A a \in Line[c] : Chosen(a, m)}

\* A command that throws was asked, and its siblings before it passed over.
Aborted(m) ==
  \E c \in Command : /\ Throws(c, m)
                     /\ Line[c] \ {c} \subseteq Reached(m)
                     /\ \A s \in Earlier[c] : ~Eligible(s, m)

\* Bot::HandleCommands does not start the cooldown of a root without subs.
Started(m) == {c \in Reached(m) : c # Root \/ HasSubCommands(c)}

\* StartCooldown's condition.
StartsTimer(c) == ~myIsOnCooldown[c] /\ 0 < myCommandCooldownTime[c]

\* Mutant: an empty argument is not replaced by "1".
HoldTimeNoDefault(c, arg) ==
  IF Holds[c].time # FromArgument THEN Holds[c].time ELSE arg

HoldTime(c, arg) ==
  IF Holds[c].time # FromArgument THEN Holds[c].time
  ELSE IF arg = NoArgument THEN DefaultHold ELSE arg

Pressing(m) == {c \in Reached(m) : c \in DOMAIN Holds /\ ~HasSubCommands(c)}

----------------------------------------------------------------------------
Init ==
  /\ alive = Command
  /\ myIsEnabled = [c \in Command |-> TRUE]
  /\ myIsOnCooldown = [c \in Command |-> FALSE]
  /\ myCommandCooldownTime = [c \in Command |-> 0]
  /\ myTimers = {}
  /\ sinceUpdate = 0
  /\ input = [a \in Address |-> 0]
  /\ myIsMinimized = FALSE
  /\ spun = FALSE
  /\ phase = "update"
  /\ owed = [c \in Command |-> 0]

Running == phase \in {"update", "input", "render"}

\* Time passes.
Tick ==
  /\ Running
  /\ sinceUpdate < MaxFrame
  /\ sinceUpdate' = sinceUpdate + 1
  /\ owed' = [c \in Command |-> IF owed[c] > 0 THEN owed[c] - 1 ELSE 0]
  /\ UNCHANGED <<alive, myIsEnabled, myIsOnCooldown, myCommandCooldownTime,
                 myTimers, input, myIsMinimized, spun, phase>>

\* A window message: minimise, or restore from the task bar or the tray.
SetMinimized ==
  /\ phase = "update"
  /\ myIsMinimized' = ~myIsMinimized
  /\ UNCHANGED <<alive, myIsEnabled, myIsOnCooldown, myCommandCooldownTime,
                 myTimers, sinceUpdate, input, spun, phase, owed>>

\* The window is closed, or Exit chosen in the tray: the loop is left.
Quit ==
  /\ phase = "update"
  /\ phase' = "stopped"
  /\ UNCHANGED <<alive, myIsEnabled, myIsOnCooldown, myCommandCooldownTime,
                 myTimers, sinceUpdate, input, myIsMinimized, spun, owed>>

\* Mutant: the callbacks of disabled commands are dropped.
UpdateTimersOfEnabled(limit) ==
  LET due == {t \in myTimers : Due(t, limit)}
      called == {t \in due : \A c \in Line[t.of] : myIsEnabled[c]}
  IN  /\ input' = [a \in Address |->
                     IF \E t \in called : Releases(t, a) THEN 0 ELSE input[a]]
      /\ myIsOnCooldown' =
           [c \in Command |->
              myIsOnCooldown[c] /\ ~ \E t \in called : EndsCooldown(t, c)]
      /\ myTimers' =
           {[t EXCEPT !.elapsed = Elapsed(t, limit)] : t \in myTimers \ due}

\* Mutant: the callback of a deleted command is not called, and stays.
UpdateTimersOfTheLiving(limit) ==
  LET due == {t \in myTimers : Due(t, limit) /\ t.of \in alive}
  IN  /\ input' = [a \in Address |->
                     IF \E t \in due : Releases(t, a) THEN 0 ELSE input[a]]
      /\ myIsOnCooldown' =
           [c \in Command |->
              myIsOnCooldown[c] /\ ~ \E t \in due : EndsCooldown(t, c)]
      /\ myTimers' =
           {[t EXCEPT !.elapsed = Elapsed(t, limit)] : t \in myTimers \ due}

\* TimerManager::Update. The callback of a deleted command uses freed memory:
\* when that goes unnoticed, its message may be sent or not.
UpdateTimers(limit) ==
  LET due == {t \in myTimers : Due(t, limit)}
  IN  /\ \E lost \in SUBSET {t \in due : t.of \notin alive} :
           input' = [a \in Address |->
                       IF \E t \in due \ lost : Releases(t, a) THEN 0 ELSE input[a]]
      /\ myIsOnCooldown' =
           [c \in Command |->
              myIsOnCooldown[c] /\ ~ \E t \in due : EndsCooldown(t, c)]
      /\ myTimers' =
           {[t EXCEPT !.elapsed = Elapsed(t, limit)] : t \in myTimers \ due}

Update ==
  /\ phase = "update"
  /\ \E limit \in Limits : UpdateTimers(limit)
  /\ sinceUpdate' = 0
  /\ phase' = "input"
  /\ UNCHANGED <<alive, myIsEnabled, myCommandCooldownTime, myIsMinimized, spun, owed>>

\* ... and when it is noticed, the program ends there.
DanglingCallback ==
  /\ phase = "update"
  /\ \E t \in myTimers : \E limit \in Limits : Due(t, limit) /\ t.of \notin alive
  /\ phase' = "crashed"
  /\ UNCHANGED <<alive, myIsEnabled, myIsOnCooldown, myCommandCooldownTime,
                 myTimers, sinceUpdate, input, myIsMinimized, spun, owed>>

\* Bot::HandleCommands for one message: every command on the way starts its
\* cooldown, and the leaf presses its input if VRChat runs. A hold time that
\* does not parse throws after the press, which ends ProcessInput.
ProcessMessage(m) ==
  LET started == Started(m)
      cooling == {c \in started : StartsTimer(c)}
  IN
  /\ phase = "input"
  /\ \E pressing \in {{}, Pressing(m)} :
       LET throwing == {c \in pressing : HoldTime(c, m.arg) = Unparsable}
       IN  /\ input' = [a \in Address |->
                          IF \E c \in pressing : Holds[c].presses = a THEN 1
                                                                       ELSE input[a]]
           /\ myTimers' = myTimers
                \cup {CooldownTimer(c, myCommandCooldownTime[c]) : c \in cooling}
                \cup {ReleaseTimer(c, HoldTime(c, m.arg)) : c \in pressing \ throwing}
           /\ phase' = IF throwing = {} /\ ~Aborted(m) THEN "input" ELSE "render"
  /\ myIsOnCooldown' =
       [c \in Command |-> IF c \in started THEN c \in cooling ELSE myIsOnCooldown[c]]
  /\ owed' = [c \in Command |-> IF c \in cooling THEN myCommandCooldownTime[c]
                                                 ELSE owed[c]]
  /\ UNCHANGED <<alive, myIsEnabled, myCommandCooldownTime, sinceUpdate,
                 myIsMinimized, spun>>

\* The queue is empty, or a message or a bot threw.
EndInput ==
  /\ phase = "input"
  /\ phase' = "render"
  /\ UNCHANGED <<alive, myIsEnabled, myIsOnCooldown, myCommandCooldownTime,
                 myTimers, sinceUpdate, input, myIsMinimized, spun, owed>>

\* A command is drawn while every command above it is enabled.
Drawn(c) ==
  /\ phase = "render" /\ ~myIsMinimized
  /\ c \in alive
  /\ \A a \in Line[c] \ {c} : myIsEnabled[a]

SetEnabled(c) ==
  /\ Drawn(c)
  /\ myIsEnabled' = [myIsEnabled EXCEPT ![c] = ~@]
  /\ UNCHANGED <<alive, myIsOnCooldown, myCommandCooldownTime, myTimers,
                 sinceUpdate, input, myIsMinimized, spun, phase, owed>>

SetCooldownTime(c) ==
  /\ Drawn(c) /\ myIsEnabled[c]
  /\ \E time \in CooldownTimes :
       myCommandCooldownTime' = [myCommandCooldownTime EXCEPT ![c] = time]
  /\ UNCHANGED <<alive, myIsEnabled, myIsOnCooldown, myTimers, sinceUpdate, input,
                 myIsMinimized, spun, phase, owed>>

\* Delete destroys the command and those below it, but not their timers.
Delete(c) ==
  /\ Drawn(c)
  /\ alive' = {d \in alive : c \notin Line[d]}
  /\ UNCHANGED <<myIsEnabled, myIsOnCooldown, myCommandCooldownTime, myTimers,
                 sinceUpdate, input, myIsMinimized, spun, phase, owed>>

\* A frame that is rendered sleeps until its frame time has passed.
EndFrame ==
  /\ phase = "render"
  /\ myIsMinimized \/ sinceUpdate > 0
  /\ phase' = "update"
  /\ spun' = myIsMinimized
  /\ UNCHANGED <<alive, myIsEnabled, myIsOnCooldown, myCommandCooldownTime,
                 myTimers, sinceUpdate, input, myIsMinimized, owed>>

Next ==
  \/ Tick
  \/ SetMinimized
  \/ Quit
  \/ Update
  \/ DanglingCallback
  \/ \E m \in Messages : ProcessMessage(m)
  \/ EndInput
  \/ \E c \in Edited : SetEnabled(c) \/ SetCooldownTime(c) \/ Delete(c)
  \/ EndFrame

\* Time passes, and the loop goes round: no call in it blocks, and chat is
\* slower than its dispatch, so the queue is found empty.
Fairness == WF_vars(Tick) /\ WF_vars(Update) /\ WF_vars(EndInput) /\ WF_vars(EndFrame)

Spec == Init /\ [][Next]_vars

FairSpec == Spec /\ Fairness

----------------------------------------------------------------------------
(* Properties                                                              *)

Timer == [callback : {"cooldown", "release"}, of : Command, elapsed : Nat, duration : Int]

\* Every variable stays in its range; release timers belong to hold commands.
TypeOK ==
  /\ alive \subseteq Command
  /\ myIsEnabled \in [Command -> BOOLEAN]
  /\ myIsOnCooldown \in [Command -> BOOLEAN]
  /\ myCommandCooldownTime \in [Command -> CooldownTimes]
  /\ myTimers \subseteq Timer
  /\ \A t \in myTimers : t.callback = "release" => t.of \in DOMAIN Holds
  /\ sinceUpdate \in 0 .. MaxFrame
  /\ input \in [Address -> {0, 1}]
  /\ myIsMinimized \in BOOLEAN /\ spun \in BOOLEAN
  /\ phase \in {"update", "input", "render", "stopped", "crashed"}
  /\ owed \in [Command -> Nat]

\* The flag and the timers agree: a command is on cooldown exactly while one
\* timer that will clear the flag is pending. A flag without a timer would
\* silence the command for ever, a timer too many would end a later cooldown
\* early (Command::StartCooldown, TimerManager::Update).
CooldownHasItsTimer ==
  \A c \in alive :
    /\ myIsOnCooldown[c] <=> CooldownTimers(c) # {}
    /\ \A s, t \in CooldownTimers(c) : s = t

\* A cooldown lasts what the UI promised when it started, short of one frame:
\* Update adds the whole frame in which the command ran to its timer. Editing
\* the cooldown time meanwhile shortens nothing.
CooldownCoversPromise ==
  \A c \in alive : owed[c] > MaxFrame => myIsOnCooldown[c]

\* An input that is held and that no pending timer will ever release.
Stuck(a) ==
  /\ input[a] = 1
  /\ ~ \E t \in myTimers : Releases(t, a) /\ t.duration <= MaxElapsed

\* The four ways an input gets stuck: a hold time that does not parse (the
\* press was already sent) or never ends, a command that releases an address
\* it did not press, a release sent from a command that was deleted.
OnlyBadHoldsStick ==
  [][\A a \in Address : Stuck(a)' /\ ~Stuck(a) =>
       \/ \E m \in Messages : \E c \in Pressing(m) :
            /\ ProcessMessage(m)
            /\ Holds[c].presses = a
            /\ \/ HoldTime(c, m.arg) = Unparsable
               \/ HoldTime(c, m.arg) > MaxElapsed
               \/ Holds[c].releases # a
       \/ Update /\ \E t \in myTimers : Releases(t, a) /\ t.of \notin alive]_vars

\* A cooldown short enough for a minimised loop's float sum ends.
ShortCooldownEnds ==
  \A c \in Command :
    (\E t \in myTimers : EndsCooldown(t, c) /\ t.duration <= StallAt)
      ~> (~myIsOnCooldown[c] \/ ~Running)

\* A longer one ends if the window does not stay minimised.
LongCooldownEnds ==
  \A c \in Command :
    []<>(~myIsMinimized /\ phase = "render") =>
      ((\E t \in myTimers : EndsCooldown(t, c) /\ t.duration <= MaxElapsed)
        ~> ~myIsOnCooldown[c])

\* Every cooldown ends that a float sum can reach (TimerManager.cpp:16): a short
\* one whatever the window does, a long one if frames are rendered again and
\* again.
CooldownEnds == ShortCooldownEnds /\ LongCooldownEnds

\* A held input that is not stuck is released, or the program ends.
HeldIsReleased ==
  \A a \in Address :
    (input[a] = 1 /\ \E t \in myTimers : Releases(t, a) /\ t.duration <= StallAt)
      ~> \/ input[a] = 0
         \/ ~Running
         \/ \E t \in myTimers : Releases(t, a) /\ t.of \notin alive

TimersOf(c) == {t \in myTimers : t.of = c}

\* A deleted command is called back, in memory that is gone, for a time only:
\* what it had pending at its deletion runs out, unless the program ends, and
\* then nothing is ever pending for it again, whatever is said in the chat
\* (Command::Draw, TimerManager::Update).
DeletedIsLeftAlone ==
  \A c \in Command :
    (c \notin alive /\ \A t \in TimersOf(c) : t.duration <= StallAt)
      ~> (~Running \/ [](TimersOf(c) = {}))
=============================================================================

# LucentOSC in TLA+

LucentOSC is a Windows program that reads Twitch chat and drives the VRChat
avatar of its user over OSC. One thread runs the window, the user interface and
the chat commands; a network thread receives chat; an OSC thread receives what
VRChat sends. This directory holds TLA+ specifications of its own code
(`src/App/src`), TLC configurations that check them, and TLAPS proofs.

## The system

| Component | State | Operations | Talks to |
|---|---|---|---|
| Main loop (`bot/Application.cpp`, `LucentOSC.cpp`) | `myIsRunning`, `myIsMinimized`, `myWantToResizeBuffers`, settings, the bots | `Run`: window messages, `Update`, `ProcessInput`, render; tray menu; `WinProc` | everything below, by calls |
| Command tree (`bot/Command.cpp`, `bot/Bot.cpp`) | per command: enabled, on cooldown, cooldown time, name, prefix, regex, sub-commands | `HandleCommands`, `HandleCommand`, `StartCooldown`, `Draw` (edit, delete) | TimerManager (callbacks), VRChat commands |
| Timers (`misc/TimerManager.cpp`, `misc/TimerClock.cpp`) | map of timers with float elapsed time | `Update`, `AddTimer`, `ClearTimer` | callbacks into commands and OSC sends |
| VRChat commands (`bot/Bot/VRChat/Commands`) | none of their own; they send OSC | move, look, jump (timed holds), bool, float, int, speak, page | Transmitter, TimerManager, avatar data, chat |
| Twitch client (`Twitch/TwitchApi.cpp`) | socket, chunk queue, `myNetworkIsWalking`, network thread, joined channels | `Connect`, `Disconnect`, `Join`, `Part`, `NetworkLoop`, `PopMessage`, `ParseMessage` | main loop (queue), Twitch (socket) |
| OSC output (`osclib/OscOutboundPacketStream.cpp`, Transmitter in `osclib/osc.cpp`) | write cursors in a fixed buffer, open element, socket | begin/end bundle and message, arguments, `SendInt`, `SendBool`, `SendFloat`, chatbox | VRChat (UDP) |
| OSC input (Receiver in `osclib/osc.cpp`) | socket, `interrupted`, thread | `Start`, `Run`, `Stop`; parsing of packets | VRChat bot (listener on the OSC thread) |
| VRChat bot (`bot/Bot/VRChat/VRChat.cpp`, `osclib/OSCData.h`) | avatar parameters, transmitter, receiver, listener | avatar change on the OSC thread: find file, load parameters; chat on the main thread | commands, chat |
| Settings (`bot/FileChecker.hpp`, `bot/Settings.hpp`) | JSON files | load or create with defaults | main loop |
| Renderer (`Framework/DX11.cpp`) | swap chain, views | init, resize, begin and end frame | window |
| Stubs: Jukebox, Kick, Discord, DebugBot, the old `Client.cpp` | - | mostly commented out | - |

### What is hard here

* Callbacks outlive what they point to: timers capture a command's `this`, the
  UI deletes the command.
* Flags and the timers that clear them must stay in step, over cooldown edits,
  disabling, deletion and exceptions half way through a dispatch.
* The network thread and the main thread share a `std::queue` without a lock,
  and `PopMessage` parses before it pops.
* `recv` cuts and joins lines where it likes, and `ParseMessage` searches all of
  a chunk for each part of one message.
* `Part` erases from the vector its argument refers into.
* The OSC thread rewrites the avatar's parameters while chat commands read them.
* Messages are encoded twice, by hand and by a stream, and decoded in a buffer
  that is never cleared.
* The window's size, a flag and the swap chain's buffers must agree when a frame
  is drawn, whatever messages came in between.
* A start may be cut short while it rewrites the settings file.
* Threads are stopped by flags the thread itself sets, and objects are
  destroyed in member order while a thread may still run.
* The outbound packet stream keeps an implicit stack of open elements in the
  buffer it writes.
* Signed and unsigned arithmetic at the boundaries of the parameter pages, with
  a loop that only ends if a wrapped bound says so; a float sum that stops
  growing.
* Words of a message that still have `\r` behind them, and names compared in two
  cases.

PROJECT.json lists each hazard at its line with the property that covers it.

## Modules

### CommandTimers (with VRChatCommands)

One entry of `Bot::myCommands`: a tree of commands, the timers that end their
cooldowns and release the inputs they hold, and the UI that edits the tree. The
entries of `myCommands` do not share state, so one instance of the module stands
for each of them; `VRChatCommands` is the tree of the VRChat bot as its
constructors build it, with what each hold command presses and releases.

| Model | Code |
|---|---|
| `alive` | the commands the `shared_ptr` tree still holds |
| `myIsEnabled`, `myIsOnCooldown`, `myCommandCooldownTime` | the members of `Command` |
| `myTimers` | `TimerManager::myTimers`; ids are dropped, as every caller drops its handle, and two equal release timers are one, as they fire together |
| `input` | the last value sent to each OSC address |
| `phase` | where `Application::Run` is in its iteration |
| `sinceUpdate`, `spun` | the time the next `TimerManager::Update` will see, and whether the iteration slept |
| `owed` | history: what is left of the promised cooldown |

A message is the set of commands it matches, which abstracts names, renaming,
the prefix and the regular expressions; the set whose regular expression throws;
and its argument, which is a hold time, an empty one, or one `std::stof` throws
on. `ProcessMessage` is the whole of `Bot::HandleCommands` for one entry: every
command on the way to the leaf starts its cooldown, the leaf presses its input
and adds the release timer, an exception ends `ProcessInput`. Whether VRChat runs
(`IsAppOpen`) is a choice. The callback of a deleted command is undefined
behaviour: the model lets it work, lose its message, or crash.

`TimeElapsed += delta` is a float sum. `MaxElapsed` is where a rendered frame's
time no longer changes it, `StallAt` where the far smaller time of a minimised,
spinning iteration may not. A NaN or infinite hold is a number above `MaxElapsed`.

Runs (module `MCCommandTimers`, which takes a part of the tree):

* `command_tree`: `look` with the mismatched `LookRight`, beside `jump`; cooldowns
  and holds of up to two ticks against frames of one, so that they span several
  updates; messages that match every command, and messages on which a regular
  expression throws after the commands above it went on cooldown; two commands
  edited and deleted. The flag agrees with the timers, a cooldown lasts what was
  promised, an input gets stuck for one of four reasons only.
* `command_progress`: `vrchat`, `move` and `moveLeft`, with fairness. A cooldown
  within `StallAt` ends even if the window stays minimised, a longer one if it is
  rendered again and again; a timed hold is released; a deleted command is called
  back for a time only. That such a callback uses memory that is gone is in the
  model, and no property denies it.

Bounds: `MaxFrame` (ticks between two updates; the code has no such bound, a
modal window can hold the loop), `Edited` (commands the UI edits), the cooldown
times and hold times. Durations below, at and above the two limits occur.

Fairness: time passes, and `Update`, `EndInput` and `EndFrame` happen when they
can: the loop calls nothing that waits, and the chat queue is taken to run empty.
Nothing is assumed of the user, the chat or the window.

### ChatLines, TwitchClient and TwitchSession, implementing ChatFeed

`ChatLines` is the server's stream of lines and what `ParseMessage` makes of a
part of it. A line is a sequence of pieces (`badge-info`, `mod=`, `subscriber=`,
user, host, `PRIVMSG`, channel, words), each in two halves, so that a text may hold
a piece, a part of it or none. Each search of the code is an operator that says
which line's piece it finds: `Speaker`, `ChannelLine`, `SaidLine`, `ModLine`,
`SubscriberLine`, `MonthsLine`; the code makes each on its own, in the whole chunk,
so that one message may be put together from several lines. All are `FirstOf`, as
`getSubstring` finds the first. `ChatLine` are the lines of users; the others are
the server's, and some of those (`NOTICE`, `USERNOTICE`, `USERSTATE`) name a channel
as well, or have tags. `Throws` is `std::stoi` on the months of a subscriber whose
`badge-info` was not seen; `ReadsPastSplit` is an index beyond what `Split` returned;
`CutPing` a `recv` that ends behind the word `PING`.

`TwitchClient` has the two threads and the queue, for any chunks of text:

| Model | Code |
|---|---|
| `main` | where the main thread is: `LucentOSC.cpp`'s connect, `ProcessInput`'s loop, `Disconnect` |
| `net`, `joinable` | the network thread, and `myNetworkThread` |
| `myNetworkIsWalking`, `myChatMessages` | the members |
| `arriving` | the chunk whose `push` has begun |
| `raced` | a push and a `front` or `pop` have overlapped |
| `received`, `popped`, `begunBeforeExit` | history |

A queue operation has a beginning and an end. Once a push overlaps the main
thread's use of the queue, what the queue holds is undefined, and the model lets
pushes get lost, a destroyed chunk appear, or the program crash. `ReceiveCutPing` is
the exception of `substr(5)` on a chunk that is `PING` and nothing else: it leaves
the network thread, and so ends the program.

`TwitchSession` composes the two: `recv` returns the next part of the stream, of
any length (`next`), and what `PopMessage` returns is handed to the bots
(`heard`). `ChatFeed` is what they are promised: what is said in a channel in the
order of the server, nothing twice; messages may be lost.

Run `twitch_session`: a `USERSTATE`, a `NOTICE`, a subscriber's line, a `JOIN`, a
viewer's line and a `PING`, cut at any place into two chunks, over all
interleavings. Chunks pass in order unless raced; a message goes with its author's
`mod` and `subscriber` unless `recv` had cut its line, or that very tag of a line
that is no chat line comes first in the chunk; a line in a chunk of its own is
handed on unless a chunk that `ParseMessage` fails on is ahead of it; `Disconnect`
ends in `std::terminate` only if it came before the thread's first statement, and
it always returns, or the program ends before. Two chunks are enough to have one
parsed while the other is pushed, and for the second to begin inside each piece of
each line: between the two tags of a line, for one.

Fairness: `WF` of each thread's steps. Nothing is assumed of the server.

### JoinedChannels

The list of channels in the settings window (`myJoinedChannels`) against what
Twitch was `told`. `Part` is modelled turn by turn, since its argument `slot`
refers into the vector it erases from: after an erase it is the next channel's
name, and beyond the last element a comparison comes out either way or crashes.
`behind` and `doubled` are history: the channels that this explains.

Run `joined_channels`: three channels, lists of up to five entries, so that a
channel can be listed twice on either side of the one that is parted; with and
without a connection. No liveness is stated.

### OscOutboundPacketStream, implementing OscPacket

`OscPacket` is what the stream promises: nested elements, each but the outermost
behind a slot that ends up holding its size. `OscOutboundPacketStream` has the
code's pointers as offsets (`messageCursor`, `argumentCurrent`,
`elementSizePtr`), the number of type tags stored from the end of the buffer
downwards, and `slot`, the 32 bit words that hold the chain of open elements and
then their sizes. `open` and `sized` are history and the refinement's `open` and
`closed`. Every `operator<<` is an action; one that throws changes nothing.

* `osc_outbound_nesting`: 86 bytes, enough for two bundles, one in the other,
  with messages in both, and for the space checks to fail one byte short;
  addresses and strings on both sides of a multiple of four. `Size`, the chain of
  open elements and the two growing regions are stated in the module as
  invariants of their own, which are proved and not checked again.

The header promises more than the code keeps, which the properties leave out: a
message in no bundle makes `IsBundleInProgress` true
(`OscOutboundPacketStream.h:132-134`), and an argument outside of a message is
counted by `Size` and belongs to no element (`.h:76`).

### OscDatagrams

What `Transmitter` sends and what `Receiver::Run` hears, cell by cell. A cell is
"byte *i* of this string or value", a type tag, a comma or a zero, so that strings
of any length are compared without their characters. `Osc` is the message of OSC
1.0, and is the reference for three ways to handle it: `ByHand` (`SendBool`,
`SendInt`), `ByStream` (the other three), `Decoded` (`Run`).

| Model | Code |
|---|---|
| `sent` | the last datagram given to `sendto`, with what it was to say |
| `overrun` | more was written than `tmp` has; undefined, and nothing is claimed after it |
| `buffer` | `Run`'s local buffer; what it holds before `recv` is any `Garbage` or the datagram before |
| `heard` | what was received last, and the value the listener was given for it, if any |

Run `osc_datagrams`: addresses of 3, 4 and 8 bytes and texts of 1, 3 and 4, so
that padding of each kind occurs and the longest do not fit a buffer of 16 bytes;
foreign datagrams without a terminator, without an argument, and empty. The run
has no order of messages to explore beyond leftovers, as UDP may deliver anything.
`SendsOscFromTmp` joins the format with the overrun: what is sent is OSC as long as
`tmp` was not left, and only an address within twelve bytes of its size leaves it.

### ParameterCommands

The commands that look at the avatar's parameters, one message at a time: `phase`
is what the main thread does next with it (`command`, the page's `item` and
`right` loops, `notify` for what `VRChat::HandlePRIVMSG` sends after every
message).

| Model | Code |
|---|---|
| `message` | the words of the message, and whether its line was received to its end |
| `parameters` | `myAvatarData.Parameters` |
| `page`, `item`, `right` | `page`, `i`, `pageRightIndex` of `VRChatParameterPageCmd` |
| `reads` | history: the elements the page has read |
| `sent`, `replies` | the datagrams and the chat replies of this message |

`Int32` and `SizeT` are the conversions between `int` and `size_t` at a width that
is a constant; `AsInt` and `AsFloat` are `std::stoi` and `std::stof`, with a value
for an exception; `Lower` is the case of names, `Spoiled` a name with `\r` behind
it. A read past the end of the list copies something, throws or crashes.

* `parameter_commands`: lists of 0, 1, 4, 5, 6, 7, 9, 10 and 14 parameters, on both
  sides of the page's five and of two pages; pages before, in, at the end of,
  beyond the list, and one whose first index wraps; `IntBound` 32 and `SizeModulus`
  128 stand for 2^31 and 2^64 (the proofs hold for all). The page reads five
  parameters in a row unless it begins among the last four or there are fewer than
  five; its loop ends unless there are exactly five; a command sends only what was
  asked for, to the parameter asked for.
* `bool_values` (refuted, a bug): `!vrchat bool` answers a valid value with the list
  of valid values, because `find('\r\n')` in `Bot.cpp:22` leaves the `\r` behind it.

Fairness: `WF(Handle)`, as the main thread goes on with a message it has popped;
none for `Receive`.

### AvatarOsc

| Model | Code |
|---|---|
| `osc`, `incoming`, `oldAvatarName`, `changes`, `announced` | where `Receiver::Run` and its callback are (`VRChat.cpp:35-59`, `OSCData.h:67-102`) |
| `avatarName`, `params` | `myAvatarData` |
| `main`, `wanted`, `index` | where the main thread is in `GetFullParameterName`, or in the destructor |
| `alive`, `interrupted`, `open` | members of `VRChat` not yet destroyed; the receiver's flag and socket |
| `raced`, `steady` | the list was changed under the main thread's use; history |

Run `avatar_osc`: two avatars that share a parameter, one unreadable file, four
changes. The receiver's thread ends before what it uses is destroyed, a look-up
that no load ran into is right, and the destructor returns.

Fairness: `WF(Receiver)`, as `recv` on the closed socket fails at once, and
`WF(LookingUp \/ Destructor)`, as neither waits but for the join. An exception on
the receiver's thread ends the program (`Terminated`); so does the model.

### SettingsFile

One start of the program, `FileChecker::LoadFile<Settings>` statement by
statement, and the time between two runs, in which the user edits or deletes the
file. `disk` and `file` are what is at the path; `mySettings` the members of
`Application`, uninitialised at first; `mishap` records a write cut short or a
file that could not be read. Run `settings_file` is exhaustive: both keys there
or not, true, false or not a bool; the process may end between any two steps.

### MainWindow

`Application::Run`, `WinProc`, the tray's menu and `DX11::Resize`. `window` and
`size` are the user's; `myIsMinimized` and `myWantToResizeBuffers` what the
program knows of it; `buffers`, `holders` and `views` the swap chain, what refers
to it and whether the views are of it. `refused` is set by any device call that
fails: what is drawn after that is not claimed.

* `main_window`: two sizes, every order of messages and frames. A frame is drawn
  in a window that exists, fits it and is drawn to live views; closing the window
  ends `Run`.
* `main_window_admins` (refuted): `twitch_example.json` lists `admins`, but
  `IsAdmin` returns false, so the `!quit` they may say does nothing. An `IsAdmin` that
  knows the list would not be enough: the first word of a line that is received
  whole and says only `!quit` is `!quit\r\n` (`Application.cpp:491`), which the
  model's `Update` says too (`endsLine`).

Fairness: `WF(LoopStep)`, and `SF(NoMessage)`: the queue of window messages runs
empty again and again, as a user is slower than the loop.

## Proofs

Eight modules hold theorems. The assumptions are the `ASSUME`s of the modules,
which TLC evaluates in the runs: sets of values, lengths and bounds are what
their comments say, no more.

`CommandTimersProofs`, for every tree, message set and bound:

* `Typing`: the type invariant.
* `CooldownFlag`: `CooldownHasItsTimer` is inductive with the types. A dispatched
  command is alive and not on cooldown (`ReachedEligible`), so it has no pending
  timer when it gets one; an update clears the flag with the only timer.
* `CooldownIsHonoured`: `owed > MaxFrame` implies the flag. The invariant alone
  is not inductive; `PromiseKept` adds that the rest of the pending timer covers
  what is owed plus the time since the last update, up to one frame.
  `NoEarlyRerun` says what this means to chat: a message only runs commands that
  are owed no more than a frame.
* `SticksForAReason`: the action property.
* `DeletedGetNoTimer`: what is pending for a deleted command was pending before, and
  only grows older.
* `NoTickIsLost`: every tick counts for every pending timer whose duration a
  float sum can reach, or the timer fires.
* `BareRootNeverCools`: a root command without sub-commands is never on cooldown.

`TwitchSessionProofs`, for every stream of lines and every way to cut it:
`TwitchTyping`, `SessionTyping`; `OnlyEarly` and `Alone` from an invariant that
ties the flag, `joinable` and where each thread is; `Fifo`, where concatenation is
associative and a push moves its chunk from `arriving` to the queue;
`SessionIsClient` carries these over to the session. `Flags` rests on
`AuthorsFlags`, a fact about texts: the pieces of a line are in order in the
stream, so a text that holds a line's words and did not cut into it holds each of
its tags whole, and each is found first in that line or before it: in a chat
line before it the words would have been found first. `FeedImplemented`
is the refinement: its invariant says that queued texts follow each other in the
stream and lie behind all that was handed on, and `LaterTextLaterLine` that later
texts have later lines. `ThrowingHoldsUp` and `HeadIsPopped` say which chunks leave
the queue, with `PopInv`: what is about to be popped was parsed without an exception.
`DisconnectRunsOut` needs `JoinInv`: only a thread that runs is waited for, with its
flag down.

`ParameterCommandsProofs`, for every list, message, name and width: `IInv` is
`TypeOK`, what the page has read (`PageInv`: a run from `page` for a page in the
list, and from the sixth to last parameter for one beyond), and `SentInv`. `RightStops` is the
arithmetic of the inner loop, `OnPageIndex` that of the outer; `LookUp` says that
the look-up returns the first match. `ParameterTyping`, `PageInARow` and `AsAsked`
follow. `StepsRunOut` measures the page's loops, with `RightInv` for the list that
is read; `FiveRunOn` says that the one with five parameters has no end.
`WholeLinesSetNoBool` is the finding of `bool_values` for every avatar and message:
with `\r` behind it, no value of a bool is ever sent.

`OscOutboundPacketStreamProofs`, for every capacity and all lengths: the regions
of the buffer (`OscTyping`, `ClosingFits`, `RegionsApart`, `Alignment`) need each
other, as the space checks round up and only aligned cursors make that exact;
`Chain` and `AssertionHolds` need that open elements lie in order and closed
slots are not among them; `SizeForetold` and the refinement `StreamBuildsPacket`
follow step by step. `Nests` has an invariant of its own, `Nesting`: a closed
element ends below the cursor and no open element begins inside it, so the next
one to close contains it or lies apart from it.

`OscDatagramsProofs`, for addresses, texts and buffers of every length: the
layouts are equal as sequences (`SendsOsc`: the two paddings agree by `Padding`,
the rest is associativity of concatenation); where the parts of a message lie
(`OscCells`) and where a search for a zero stops (`EndIs`, `StringFound`) give
`DecodedIsSaid`, so `HearsWhatIsSaid`; `OverrunOnlyIfLong` bounds what the
hand-written encoders add to an address. `IInv` is the conjunction of the
invariants, each of which is inductive once a step's values are known.

`AvatarOscProofs`, for all avatars and parameters, without the bound on changes
mattering: `AvatarTyping`, `ThreadOutlived`, `UsesExist`, `LookUpIsRight` (the
invariant says that all elements before `index` have been compared while the
list was steady), `OneAvatar`, `ChangesJoinUp`. `ReceiverRunsOut`
counts what is left of a parameter list that is being pushed.

`SettingsProofs`: `SettingsTyping`, `RunsOnFile`, `Survival`: for each phase of a
start, what is known of the file and of the settings. Of `JoinedChannels`, for
every list and every sequence of buttons, `ListTyping`, `ListedJoined` and
`JoinedListed`: neither of the last two is inductive while `Part` is at work, so
`Untouched` says what its loop has left alone before the slot its argument refers
into, and `Explained` that what it may still erase was behind the channel that is
parted, or is that channel. `PartEnds`: each turn of that loop brings its index
nearer to the end of the list.

`MainWindowProofs`, for every set of sizes: `WindowTyping`, `FramesFit` (the
flag is set or the sizes agree, and `myIsMinimized` agrees with the window),
`LiveViews`, `DestroyedIsLast`, `QuitIsHeeded`.

### Only model-checked

Every invariant and every action property that a passing run checks is a theorem,
and so are the two refinements. The eight liveness properties are not: the proof
system has neither ENABLED nor fairness. What each rests on beyond fairness is
proved instead, as an action property over the number of steps that are left: each
step of the thread that is to go on takes from it, and only the steps that are
named add to it.

| Liveness property | Theorem | What is left to fairness |
|---|---|---|
| `CooldownEnds`, `HeldIsReleased` | `NoTickIsLost` | ticks and updates go on |
| `DeletedIsLeftAlone` | `DeletedGetNoTimer`, `NoTickIsLost` | ticks and updates go on |
| `MessageEnds` | `StepsRunOut` | the main thread goes on |
| `ChunksAreHeard` | `HeadIsPopped` | the main thread goes on |
| `DisconnectReturns` | `DisconnectRunsOut` | both threads go on |
| `DestructorReturns` | `ReceiverRunsOut` | both threads go on |
| `QuitReturns` | `QuitIsHeeded` | the loop goes on, and messages run dry |

## Not modelled

* `MessageCommand` and `VRChatChangeAvatarCmd`: the first answers with one text and
  keeps no state, the second is constructed nowhere. The cooldowns of all commands
  are those of `CommandTimers`; that a root command without sub-commands, as Add
  Command makes, never starts its own is in `Started`; no run states it, the theorem
  `BareRootNeverCools` does.
* Of what `ParseMessage` reads, the tags that only the user interface shows.
* The lines the program sends to Twitch, the answer to `PING` among them (but for
  the exception it may end in). The tags of a `USERNOTICE` are as those of a
  `USERSTATE` in the model; the run has one of them.
* `OscReceivedElements` and the other readers that come with the vendored oscpack:
  nothing calls them, and `Receiver` reads a datagram itself (`OscDatagrams`).
* Repeating timers and `ClearTimer`: nothing uses them.
* The admin commands beyond `!quit`: no message reaches them.
* Jukebox, Kick, Discord, DebugBot and `Client.cpp`: commented out or never
  constructed. Vendored code (json, imgui, tray, dpp) is external.

## Plan

Done, in the order of importance: commands and timers; the Twitch client with its
lines; the packet builder; avatar data and the receiver's thread; parameter
commands and pages; settings; window and renderer; datagrams; joined channels.
Next:

1. `Timers`: `TimerManager` alone, with repeating timers, ids and `ClearTimer`,
   should the program begin to use them.
2. `CommandTimers` and `ParameterCommands` in one module, so that what an exception
   of a parameter command leaves on cooldown is checked and not argued.
3. Its theorems, from those of the two.

Most of the lines under `src/` are vendored (json, imgui, dpp, tray, icon tables):
of the program's own code in `App/src`, what keeps state is modelled.

------------------------------- MODULE AvatarOsc -------------------------------
(***************************************************************************)
(* The VRChat bot's OSC side: the thread of osc::Receiver hears that the   *)
(* avatar has changed and loads the avatar's parameters, while the main    *)
(* thread looks parameters up for chat commands, with no lock between      *)
(* them; and the bot's destruction while that thread still runs.           *)
(*                                                                         *)
(* The main thread uses an element after it has looked at the size. When   *)
(* the list changes in between, what it reads is undefined (raced). It     *)
(* only reads, so a race ends with the look-up it hits.                    *)
(***************************************************************************)
EXTENDS Naturals, Sequences

CONSTANTS
  Avatar,      \* avatars whose file is found
  Unreadable,  \* those among them whose file does not have what LoadData takes
  Name,        \* parameters, by name and type of their input
  OutputOnly,  \* those among them that have no "input"
  Parameters,  \* the parameters in an avatar's file, in their order
  NoAvatar,
  MaxChanges   \* bound: /avatar/change messages heard

ASSUME AvatarAssumption ==
  /\ Unreadable \subseteq Avatar
  /\ OutputOnly \subseteq Name
  /\ Parameters \in [Avatar -> Seq(Name)]
  /\ NoAvatar \notin Avatar
  /\ MaxChanges \in Nat

VARIABLES
  osc,           \* where the receiver's thread is
  incoming,      \* the avatar it is changing to
  oldAvatarName,
  avatarName,    \* myAvatarData.AvatarName
  params,        \* myAvatarData.Parameters
  main,          \* where the main thread is
  wanted,        \* the parameter a command is looking for
  index,
  alive,         \* the members of VRChat that are not destroyed
  interrupted,
  open,          \* the receiver has its socket
  raced,
  steady,        \* history: the list has not changed since the look-up began
  changes,       \* history: how many changes were heard
  announced      \* history: what was told to the chat

vars == <<osc, incoming, oldAvatarName, avatarName, params, main, wanted, index, alive,
          interrupted, open, raced, steady, changes, announced>>

oscVars == <<osc, incoming, oldAvatarName, avatarName, changes, announced>>
listVars == <<params, raced, steady>>
mainVars == <<main, wanted, index, alive, interrupted, open>>

Member == {"myOSCTransmitter", "myOSCRx", "myOSCListener", "myAvatarData"}

Init ==
  /\ osc = "check"
  /\ incoming = NoAvatar
  /\ oldAvatarName = NoAvatar
  /\ avatarName = NoAvatar
  /\ params = << >>
  /\ main = "frame"
  /\ wanted \in Name
  /\ index = 1
  /\ alive = Member
  /\ interrupted = FALSE
  /\ open = TRUE
  /\ raced = FALSE
  /\ steady = TRUE
  /\ changes = 0
  /\ announced = << >>

----------------------------------------------------------------------------
(* The receiver's thread                                                   *)

CheckInterruption ==
  /\ osc = "check"
  /\ osc' = IF interrupted THEN "ended" ELSE "recv"
  /\ UNCHANGED <<incoming, oldAvatarName, avatarName, changes, announced, listVars,
                 mainVars>>

\* Nothing came, or something else than a change. On errors but EAGAIN the
\* thread looks once more whether it shall end.
ReceiveNothing ==
  /\ osc = "recv"
  /\ osc' \in IF interrupted THEN {"check", "ended"} ELSE {"check"}
  /\ UNCHANGED <<incoming, oldAvatarName, avatarName, changes, announced, listVars,
                 mainVars>>

\* /avatar/change, and the avatar's file is found.
ReceiveChange(a) ==
  /\ osc = "recv"
  /\ open
  /\ changes < MaxChanges
  /\ osc' = "load"
  /\ incoming' = a
  /\ oldAvatarName' = avatarName
  /\ changes' = changes + 1
  /\ UNCHANGED <<avatarName, announced, listVars, mainVars>>

ChangeList(newParams) ==
  /\ params' = newParams
  /\ raced' = (raced \/ main = "use")
  /\ steady' = FALSE

\* Mutant: the parameters of the avatar before stay.
LoadOnTop ==
  /\ osc = "load"
  /\ IF incoming \in Unreadable
     THEN osc' = "terminated" /\ UNCHANGED avatarName
     ELSE osc' = "push" /\ avatarName' = incoming
  /\ UNCHANGED <<incoming, oldAvatarName, listVars, changes, announced, mainVars>>

\* LoadData up to its loop. An exception on this thread ends the program.
Load ==
  /\ osc = "load"
  /\ IF incoming \in Unreadable
     THEN osc' = "terminated" /\ UNCHANGED <<avatarName, listVars>>
     ELSE /\ osc' = "push"
          /\ avatarName' = incoming
          /\ ChangeList(<< >>)
  /\ UNCHANGED <<incoming, oldAvatarName, changes, announced, mainVars>>

\* One turn of LoadData's loop.
Push ==
  /\ osc = "push"
  /\ IF Len(params) < Len(Parameters[incoming])
     THEN ChangeList(Append(params, Parameters[incoming][Len(params) + 1])) /\ UNCHANGED osc
     ELSE osc' = "announce" /\ UNCHANGED listVars
  /\ UNCHANGED <<incoming, oldAvatarName, avatarName, changes, announced, mainVars>>

Announce ==
  /\ osc = "announce"
  /\ osc' = "check"
  /\ announced' = Append(announced, [from |-> oldAvatarName, to |-> avatarName])
  /\ UNCHANGED <<incoming, oldAvatarName, avatarName, changes, listVars, mainVars>>

----------------------------------------------------------------------------
(* The main thread                                                         *)

Terminated == osc = "terminated" \/ main = "terminated"

\* Mutant: the look-up begins before the first element.
LookUpFromBefore(name) ==
  /\ main = "frame" /\ ~Terminated
  /\ wanted' = name
  /\ index' = 0
  /\ main' = IF params = << >> THEN "hint" ELSE "loop"
  /\ steady' = TRUE
  /\ raced' = FALSE
  /\ UNCHANGED <<alive, interrupted, open, oscVars, params>>

\* GetFullParameterName: with no parameters the chat is told to turn OSC off
\* and on.
LookUp(name) ==
  /\ main = "frame" /\ ~Terminated
  /\ wanted' = name
  /\ index' = 1
  /\ main' = IF params = << >> THEN "hint" ELSE "loop"
  /\ steady' = TRUE
  /\ raced' = FALSE
  /\ UNCHANGED <<alive, interrupted, open, oscVars, params>>

Hint ==
  /\ main = "hint" /\ ~Terminated
  /\ main' = "frame"
  /\ UNCHANGED <<wanted, index, alive, interrupted, open, oscVars, listVars>>

\* Mutant: the last element is left out.
LoopOneLess ==
  /\ main = "loop" /\ ~Terminated
  /\ main' = IF index < Len(params) THEN "use" ELSE "notFound"
  /\ UNCHANGED <<wanted, index, alive, interrupted, open, oscVars, listVars>>

\* The loop's condition.
Loop ==
  /\ main = "loop" /\ ~Terminated
  /\ main' = IF index <= Len(params) THEN "use" ELSE "notFound"
  /\ UNCHANGED <<wanted, index, alive, interrupted, open, oscVars, listVars>>

\* What the loop's body compares with. The type of an input that is not there
\* was never set, and may happen to be the one that is wanted.
Matches ==
  {index <= Len(params) /\ params[index] = wanted}
    \cup IF wanted \in OutputOnly THEN {FALSE} ELSE {}

\* The loop's body. If the list has changed since, what is read there may be
\* anything, make the look-up throw (ProcessInput catches that) or end it all.
Use ==
  /\ main = "use" /\ ~Terminated
  /\ \E match \in IF raced THEN BOOLEAN ELSE Matches :
       IF match
       THEN main' = "found" /\ UNCHANGED index
       ELSE \/ main' = "loop" /\ index' = index + 1
            \/ raced /\ main' \in {"frame", "terminated"} /\ UNCHANGED index
  /\ UNCHANGED <<wanted, alive, interrupted, open, oscVars, listVars>>

\* The address is sent to, or "INVALID" is.
Send ==
  /\ main \in {"found", "notFound"} /\ ~Terminated
  /\ main' = "frame"
  /\ UNCHANGED <<wanted, index, alive, interrupted, open, oscVars, listVars>>

\* ~VRChat: its body, and then its members from the last to the first.
DestructorBody ==
  /\ main = "frame" /\ ~Terminated
  /\ main' = "destroyTransmitter"
  /\ open' = FALSE
  /\ UNCHANGED <<wanted, index, alive, interrupted, oscVars, listVars>>

\* Mutant: nobody asks the thread to end.
DestroyTransmitterOnly ==
  /\ main = "destroyTransmitter" /\ ~Terminated
  /\ main' = "join"
  /\ alive' = alive \ {"myOSCTransmitter"}
  /\ UNCHANGED <<wanted, index, interrupted, open, oscVars, listVars>>

\* ... and ~Receiver begins: Stop asks the thread to end.
DestroyTransmitter ==
  /\ main = "destroyTransmitter" /\ ~Terminated
  /\ main' = "join"
  /\ alive' = alive \ {"myOSCTransmitter"}
  /\ interrupted' = TRUE
  /\ UNCHANGED <<wanted, index, open, oscVars, listVars>>

\* Mutant: the thread is not waited for.
JoinNot ==
  /\ main = "join" /\ ~Terminated
  /\ main' = "destroyListener"
  /\ alive' = alive \ {"myOSCRx"}
  /\ UNCHANGED <<wanted, index, interrupted, open, oscVars, listVars>>

Join ==
  /\ main = "join" /\ ~Terminated
  /\ osc = "ended"
  /\ main' = "destroyListener"
  /\ alive' = alive \ {"myOSCRx"}
  /\ UNCHANGED <<wanted, index, interrupted, open, oscVars, listVars>>

DestroyListener ==
  /\ main = "destroyListener" /\ ~Terminated
  /\ main' = "destroyAvatarData"
  /\ alive' = alive \ {"myOSCListener"}
  /\ UNCHANGED <<wanted, index, interrupted, open, oscVars, listVars>>

DestroyAvatarData ==
  /\ main = "destroyAvatarData" /\ ~Terminated
  /\ main' = "gone"
  /\ alive' = alive \ {"myAvatarData"}
  /\ params' = << >>
  /\ UNCHANGED <<wanted, index, interrupted, open, oscVars, raced, steady>>

----------------------------------------------------------------------------
Receiver ==
  /\ main # "terminated"
  /\ \/ CheckInterruption
     \/ ReceiveNothing
     \/ \E a \in Avatar : ReceiveChange(a)
     \/ Load
     \/ Push
     \/ Announce

Destructor == DestroyTransmitter \/ Join \/ DestroyListener \/ DestroyAvatarData

LookingUp == Hint \/ Loop \/ Use \/ Send

Main == (\E name \in Name : LookUp(name)) \/ LookingUp \/ DestructorBody \/ Destructor

Next == Receiver \/ Main

Spec == Init /\ [][Next]_vars

\* The threads are scheduled; on a closed socket recv fails again and again.
Fairness == WF_vars(Receiver) /\ WF_vars(LookingUp \/ Destructor)

FairSpec == Spec /\ Fairness

----------------------------------------------------------------------------
(* Properties                                                              *)

OscState == {"check", "recv", "load", "push", "announce", "ended", "terminated"}

MainState == {"frame", "hint", "loop", "use", "found", "notFound", "destroyTransmitter",
              "join", "destroyListener", "destroyAvatarData", "gone", "terminated"}

\* Every variable keeps to its range.
TypeOK ==
  /\ osc \in OscState
  /\ incoming \in Avatar \cup {NoAvatar}
  /\ oldAvatarName \in Avatar \cup {NoAvatar}
  /\ avatarName \in Avatar \cup {NoAvatar}
  /\ params \in Seq(Name)
  /\ main \in MainState
  /\ wanted \in Name
  /\ index \in Nat \ {0}
  /\ alive \subseteq Member
  /\ interrupted \in BOOLEAN
  /\ open \in BOOLEAN
  /\ raced \in BOOLEAN
  /\ steady \in BOOLEAN
  /\ changes \in 0 .. MaxChanges
  /\ announced \in Seq([from : Avatar \cup {NoAvatar}, to : Avatar \cup {NoAvatar}])

\* The receiver's thread, which may well be in its callback when the destructor
\* begins, uses the receiver, the listener and the avatar's data: ~Receiver,
\* which comes first because it was declared last (VRChat.h:57-60), waits for it.
ThreadHasItsData ==
  osc \notin {"ended", "terminated"} =>
    {"myOSCRx", "myOSCListener", "myAvatarData"} \subseteq alive

\* The element the main thread uses is there, unless the list was changed under
\* its hands.
UsedElementExists == ~raced /\ main = "use" => index <= Len(params)

\* A look-up that no change of avatar ran into gives the right answer: the
\* parameter it finds is there, and one that is there and has an input is found.
SteadyLookUpIsRight ==
  steady =>
    /\ main = "found" => index <= Len(params) /\ params[index] = wanted
    /\ main = "notFound" => wanted \in OutputOnly \/ \A i \in 1 .. Len(params) : params[i] # wanted

\* The list holds the parameters of one avatar only, in the order of its file,
\* and all of them but while they are being loaded.
OneAvatarsParameters ==
  main # "gone" /\ avatarName # NoAvatar =>
    /\ Len(params) <= Len(Parameters[avatarName])
    /\ \A i \in 1 .. Len(params) : params[i] = Parameters[avatarName][i]
    /\ osc # "push" => Len(params) = Len(Parameters[avatarName])

\* What the chat is told is a story without gaps: every change starts from the
\* avatar the one before has ended with.
AnnouncementsChain ==
  \A i \in 1 .. Len(announced) :
    announced[i].from = IF i = 1 THEN NoAvatar ELSE announced[i - 1].to

\* Deleting the bot comes to an end, whatever the receiver is doing, unless the
\* program is terminated.
DestructorReturns ==
  main = "destroyTransmitter" ~> main = "gone" \/ Terminated

=============================================================================

---------------------------- MODULE AvatarOscProofs ----------------------------
(***************************************************************************)
(* Proofs about AvatarOsc, for every set of avatars, every list of         *)
(* parameters and any number of changes. The last part counts the steps    *)
(* of a receiver that has been told to stop.                               *)
(***************************************************************************)
EXTENDS AvatarOsc, SequenceTheorems, TLAPS

Announcement == [from : Avatar \cup {NoAvatar}, to : Avatar \cup {NoAvatar}]

InCallback == osc \in {"load", "push", "announce"}

\* The type invariant, strengthened: a callback is about an avatar.
Typing == TypeOK /\ (InCallback => incoming \in Avatar)

\* The members go one after the other, those the thread uses only after it has
\* ended.
Lifetime ==
  /\ main \notin {"destroyListener", "destroyAvatarData", "gone"} =>
       {"myOSCRx", "myOSCListener", "myAvatarData"} \subseteq alive
  /\ main \in {"destroyListener", "destroyAvatarData", "gone"} => osc = "ended"

\* While parameters are pushed, the list is that of the avatar that comes in.
Loaded ==
  /\ OneAvatarsParameters
  /\ osc = "push" => avatarName = incoming
  /\ avatarName = NoAvatar => params = << >>

\* What the look-up has passed by in a list that did not change.
LookedUp ==
  /\ UsedElementExists
  /\ SteadyLookUpIsRight
  /\ raced => ~steady
  /\ steady /\ main \in {"loop", "use"} =>
       /\ index <= Len(params) + 1
       /\ wanted \in OutputOnly \/ \A i \in 1 .. index - 1 : params[i] # wanted

\* The avatar the chat was told about last.
LastTold == IF announced = << >> THEN NoAvatar ELSE announced[Len(announced)].to

Told ==
  /\ AnnouncementsChain
  /\ osc \in {"check", "recv", "load", "ended"} => avatarName = LastTold
  /\ InCallback => oldAvatarName = LastTold

----------------------------------------------------------------------------
(* Typing                                                                  *)

LEMMA InitTyping == Init => Typing
<1> SUFFICES ASSUME Init PROVE Typing
  OBVIOUS
<1>1. params \in Seq(Name) /\ announced \in Seq(Announcement)
  BY DEF Init
<1>2. /\ osc = "check" /\ osc \in OscState /\ main \in MainState /\ wanted \in Name
      /\ incoming = NoAvatar /\ oldAvatarName = NoAvatar /\ avatarName = NoAvatar
      /\ alive = Member
      /\ interrupted \in BOOLEAN /\ open \in BOOLEAN /\ raced \in BOOLEAN /\ steady \in BOOLEAN
  BY DEF Init, OscState, MainState
<1>3. index \in Nat \ {0} /\ changes \in 0 .. MaxChanges
  BY AvatarAssumption DEF Init
<1>4. ~InCallback
  BY <1>2 DEF InCallback
<1> QED
  BY <1>1, <1>2, <1>3, <1>4, Zenon DEF Typing, TypeOK, Announcement

LEMMA StepTyping ==
  ASSUME Typing, [Next]_vars
  PROVE  Typing'
<1> USE DEF Typing, TypeOK, oscVars, listVars, mainVars, InCallback, OscState
<1>1. CASE CheckInterruption
  BY <1>1 DEF CheckInterruption
<1>2. CASE ReceiveNothing
  BY <1>2 DEF ReceiveNothing
<1>3. ASSUME NEW a \in Avatar, ReceiveChange(a) PROVE Typing'
  BY <1>3, AvatarAssumption DEF ReceiveChange
<1>4. CASE Load
  <2>1. << >> \in Seq(Name)
    OBVIOUS
  <2>2. CASE incoming \in Unreadable
    BY <1>4, <2>2 DEF Load
  <2>3. CASE incoming \notin Unreadable
    <3>1. /\ osc' = "push" /\ avatarName' = incoming /\ params' = << >>
          /\ raced' = (raced \/ main = "use") /\ steady' = FALSE
          /\ UNCHANGED <<incoming, oldAvatarName, changes, announced, mainVars>>
      BY <1>4, <2>3 DEF Load, ChangeList
    <3>2. raced' \in BOOLEAN
      BY <3>1
    <3> QED
      BY <1>4, <2>1, <3>1, <3>2 DEF Load
  <2> QED
    BY <2>2, <2>3
<1>5. CASE Push
  <2>1. CASE Len(params) < Len(Parameters[incoming])
    <3>1. /\ osc' = osc /\ params' = Append(params, Parameters[incoming][Len(params) + 1])
          /\ raced' = (raced \/ main = "use") /\ steady' = FALSE
          /\ UNCHANGED <<incoming, oldAvatarName, avatarName, changes, announced, mainVars>>
      BY <1>5, <2>1 DEF Push, ChangeList
    <3>2. Parameters[incoming] \in Seq(Name) /\ Len(params) \in Nat
      BY <1>5, AvatarAssumption DEF Push
    <3>3. Len(params) + 1 \in 1 .. Len(Parameters[incoming])
      BY <2>1, <3>2
    <3>4. Parameters[incoming][Len(params) + 1] \in Name
      BY <3>2, <3>3, ElementOfSeq
    <3>5. params' \in Seq(Name)
      BY <3>1, <3>4
    <3>6. raced' \in BOOLEAN
      BY <3>1
    <3> QED
      BY <1>5, <3>1, <3>5, <3>6 DEF Push
  <2>2. CASE ~ (Len(params) < Len(Parameters[incoming]))
    BY <1>5, <2>2 DEF Push
  <2> QED
    BY <2>1, <2>2
<1>6. CASE Announce
  <2>1. [from |-> oldAvatarName, to |-> avatarName] \in Announcement
    BY DEF Announcement
  <2>2. announced' \in Seq(Announcement)
    BY <1>6, <2>1 DEF Announce, Announcement
  <2> QED
    BY <1>6, <2>2 DEF Announce, Announcement
<1> USE DEF MainState
<1>7. ASSUME NEW name \in Name, LookUp(name) PROVE Typing'
  <2>1. /\ wanted' \in Name /\ index' \in Nat \ {0} /\ main' \in MainState
        /\ steady' \in BOOLEAN /\ raced' \in BOOLEAN
    <3>1. wanted' = name /\ index' = 1 /\ steady' = TRUE /\ raced' = FALSE
          /\ main' \in {"hint", "loop"}
      BY <1>7 DEF LookUp
    <3>2. main' \in MainState
      BY <3>1
    <3>3. index' \in Nat \ {0}
      BY <3>1
    <3> QED
      BY <3>1, <3>2, <3>3, Zenon
  <2>2. UNCHANGED <<alive, interrupted, open, oscVars, params>>
    BY <1>7 DEF LookUp
  <2> QED
    BY <2>1, <2>2
<1>8. CASE Hint
  BY <1>8 DEF Hint
<1>9. CASE Loop
  BY <1>9 DEF Loop
<1>10. CASE Use
  <2>1. index' \in Nat \ {0} /\ main' \in MainState
    BY <1>10 DEF Use
  <2> QED
    BY <1>10, <2>1 DEF Use
<1>11. CASE Send
  BY <1>11 DEF Send
<1>12. CASE DestructorBody
  BY <1>12 DEF DestructorBody
<1>13. CASE DestroyTransmitter
  BY <1>13 DEF DestroyTransmitter
<1>14. CASE Join
  BY <1>14 DEF Join
<1>15. CASE DestroyListener
  BY <1>15 DEF DestroyListener
<1>16. CASE DestroyAvatarData
  <2>1. << >> \in Seq(Name)
    OBVIOUS
  <2> QED
    BY <1>16, <2>1 DEF DestroyAvatarData
<1>17. CASE UNCHANGED vars
  BY <1>17 DEF vars
<1> QED
  BY <1>1, <1>2, <1>3, <1>4, <1>5, <1>6, <1>7, <1>8, <1>9, <1>10, <1>11, <1>12, <1>13,
     <1>14, <1>15, <1>16, <1>17
     DEF Next, Receiver, Main, LookingUp, Destructor

----------------------------------------------------------------------------
(* Lifetime                                                                *)

LEMMA StepLifetime ==
  ASSUME Typing, Lifetime, [Next]_vars
  PROVE  Lifetime'
<1> USE DEF Lifetime, oscVars, listVars, mainVars
<1>1. CASE CheckInterruption \/ ReceiveNothing \/ Load \/ Push \/ Announce
  BY <1>1 DEF CheckInterruption, ReceiveNothing, Load, Push, Announce
<1>2. ASSUME NEW a \in Avatar, ReceiveChange(a) PROVE Lifetime'
  BY <1>2 DEF ReceiveChange
<1>3. ASSUME NEW name \in Name, LookUp(name) PROVE Lifetime'
  BY <1>3 DEF LookUp
<1>4. CASE LookingUp
  <2>1. main' \in {"frame", "loop", "use", "found", "notFound", "terminated"}
        /\ main \notin {"destroyListener", "destroyAvatarData", "gone"}
        /\ UNCHANGED <<alive, osc>>
    BY <1>4 DEF LookingUp, Hint, Loop, Use, Send
  <2> QED
    BY <2>1
<1>5. CASE DestructorBody
  BY <1>5 DEF DestructorBody
<1>6. CASE DestroyTransmitter
  BY <1>6 DEF DestroyTransmitter
<1>7. CASE Join
  BY <1>7 DEF Join
<1>8. CASE DestroyListener
  BY <1>8 DEF DestroyListener
<1>9. CASE DestroyAvatarData
  BY <1>9 DEF DestroyAvatarData
<1>10. CASE UNCHANGED vars
  BY <1>10 DEF vars
<1> QED
  BY <1>1, <1>2, <1>3, <1>4, <1>5, <1>6, <1>7, <1>8, <1>9, <1>10
     DEF Next, Receiver, Main, Destructor

----------------------------------------------------------------------------
(* The list                                                                *)

LEMMA StepLoaded ==
  ASSUME Typing, Lifetime, Loaded, [Next]_vars
  PROVE  Loaded'
<1> USE DEF oscVars, listVars, mainVars
<1>t. /\ params \in Seq(Name) /\ avatarName \in Avatar \cup {NoAvatar}
      /\ NoAvatar \notin Avatar /\ Parameters \in [Avatar -> Seq(Name)]
      /\ InCallback => incoming \in Avatar
  BY AvatarAssumption DEF Typing, TypeOK
<1>u. ASSUME UNCHANGED <<avatarName, params, incoming>>, main' = "gone" <=> main = "gone",
             osc' = "push" <=> osc = "push"
      PROVE  Loaded'
  BY <1>u DEF Loaded, OneAvatarsParameters
<1>1. CASE CheckInterruption \/ ReceiveNothing
  BY <1>1, <1>u DEF CheckInterruption, ReceiveNothing
<1>2. ASSUME NEW a \in Avatar, ReceiveChange(a) PROVE Loaded'
  BY <1>2 DEF ReceiveChange, Loaded, OneAvatarsParameters
<1>3. CASE Load
  <2>1. CASE incoming \in Unreadable
    BY <1>3, <2>1, <1>u DEF Load
  <2>2. CASE incoming \notin Unreadable
    <3>1. /\ osc' = "push" /\ avatarName' = incoming /\ incoming' = incoming
          /\ params' = << >> /\ incoming \in Avatar
      BY <1>3, <2>2, <1>t DEF Load, ChangeList, InCallback
    <3>2. Len(params') = 0 /\ Len(Parameters[incoming]) \in Nat
      BY <3>1, <1>t
    <3> QED
      BY <3>1, <3>2, <1>t DEF Loaded, OneAvatarsParameters
  <2> QED
    BY <2>1, <2>2
<1>4. CASE Push
  <2>1. incoming \in Avatar /\ avatarName = incoming /\ main # "gone"
    BY <1>4, <1>t DEF Push, InCallback, Loaded, Lifetime
  <2>2. /\ Len(params) \in Nat /\ Len(Parameters[incoming]) \in Nat
        /\ Len(params) <= Len(Parameters[incoming])
        /\ \A i \in 1 .. Len(params) : params[i] = Parameters[incoming][i]
    BY <2>1, <1>t DEF Loaded, OneAvatarsParameters
  <2>3. CASE Len(params) < Len(Parameters[incoming])
    <3> DEFINE e == Parameters[incoming][Len(params) + 1]
    <3>1. /\ params' = Append(params, e)
          /\ UNCHANGED <<osc, avatarName, incoming, main>>
      BY <1>4, <2>3 DEF Push, ChangeList
    <3>2. e \in Name
      <4>1. Len(params) + 1 \in 1 .. Len(Parameters[incoming])
        BY <2>2, <2>3
      <4> QED
        BY <4>1, <2>1, <1>t, ElementOfSeq
    <3>3. /\ Len(params') = Len(params) + 1
          /\ \A i \in 1 .. Len(params) : params'[i] = params[i]
          /\ params'[Len(params) + 1] = e
      BY <3>1, <3>2, <1>t, AppendProperties
    <3>4. \A i \in 1 .. Len(params') : params'[i] = Parameters[incoming][i]
      BY <3>3, <2>2
    <3>5. Len(params') <= Len(Parameters[incoming])
      BY <3>3, <2>2, <2>3
    <3> HIDE DEF e
    <3> QED
      BY <1>4, <3>1, <3>4, <3>5, <2>1, <1>t DEF Push, Loaded, OneAvatarsParameters
  <2>4. CASE ~ (Len(params) < Len(Parameters[incoming]))
    <3>1. UNCHANGED <<avatarName, params, incoming, main>> /\ osc' = "announce"
      BY <1>4, <2>4 DEF Push
    <3>2. Len(params) = Len(Parameters[incoming])
      BY <2>2, <2>4
    <3> QED
      BY <3>1, <3>2, <2>1, <1>t DEF Loaded, OneAvatarsParameters
  <2> QED
    BY <2>3, <2>4
<1>5. CASE Announce
  BY <1>5, <1>u DEF Announce
<1>6. ASSUME NEW name \in Name, LookUp(name) PROVE Loaded'
  BY <1>6, <1>u DEF LookUp
<1>7. CASE LookingUp
  <2>1. UNCHANGED <<avatarName, params, incoming, osc>> /\ main # "gone" /\ main' # "gone"
    BY <1>7 DEF LookingUp, Hint, Loop, Use, Send
  <2> QED
    BY <2>1, <1>u
<1>8. CASE DestructorBody \/ DestroyTransmitter \/ Join \/ DestroyListener
  BY <1>8, <1>u DEF DestructorBody, DestroyTransmitter, Join, DestroyListener
<1>9. CASE DestroyAvatarData
  BY <1>9 DEF DestroyAvatarData, Loaded, OneAvatarsParameters
<1>10. CASE UNCHANGED vars
  BY <1>10, <1>u DEF vars
<1> QED
  BY <1>1, <1>2, <1>3, <1>4, <1>5, <1>6, <1>7, <1>8, <1>9, <1>10
     DEF Next, Receiver, Main, Destructor

----------------------------------------------------------------------------
(* The look-up                                                             *)

LEMMA StepLookedUp ==
  ASSUME Typing, LookedUp, [Next]_vars
  PROVE  LookedUp'
<1> USE DEF oscVars, listVars, mainVars
<1>t. /\ params \in Seq(Name) /\ index \in Nat \ {0} /\ Len(params) \in Nat
      /\ raced \in BOOLEAN /\ steady \in BOOLEAN
  BY DEF Typing, TypeOK
<1>u. ASSUME UNCHANGED <<main, wanted, index, params, raced, steady>>
      PROVE  LookedUp'
  BY <1>u DEF LookedUp, UsedElementExists, SteadyLookUpIsRight
<1>c. ASSUME steady' = FALSE, raced' = (raced \/ main = "use"), main' = main
      PROVE  LookedUp'
  BY <1>c DEF LookedUp, UsedElementExists, SteadyLookUpIsRight
<1>i. ASSUME main' \notin {"loop", "use", "found", "notFound"}, UNCHANGED <<raced, steady>>
      PROVE  LookedUp'
  BY <1>i DEF LookedUp, UsedElementExists, SteadyLookUpIsRight
<1>1. CASE CheckInterruption \/ ReceiveNothing \/ Announce
  BY <1>1, <1>u DEF CheckInterruption, ReceiveNothing, Announce
<1>2. ASSUME NEW a \in Avatar, ReceiveChange(a) PROVE LookedUp'
  BY <1>2, <1>u DEF ReceiveChange
<1>3. CASE Load
  BY <1>3, <1>u, <1>c DEF Load, ChangeList
<1>4. CASE Push
  BY <1>4, <1>u, <1>c DEF Push, ChangeList
<1>5. ASSUME NEW name \in Name, LookUp(name) PROVE LookedUp'
  <2>1. /\ wanted' = name /\ index' = 1 /\ main' \in {"hint", "loop"}
        /\ steady' = TRUE /\ raced' = FALSE /\ params' = params
    BY <1>5 DEF LookUp
  <2>2. \A i \in 1 .. index' - 1 : FALSE
    BY <2>1
  <2> QED
    BY <2>1, <2>2, <1>t DEF LookedUp, UsedElementExists, SteadyLookUpIsRight
<1>6. CASE Loop
  <2>1. /\ main = "loop" /\ UNCHANGED <<wanted, index, params, raced, steady>>
    BY <1>6 DEF Loop
  <2>2. CASE index <= Len(params)
    <3>1. main' = "use"
      BY <1>6, <2>2 DEF Loop
    <3> QED
      BY <2>1, <2>2, <3>1 DEF LookedUp, UsedElementExists, SteadyLookUpIsRight
  <2>3. CASE ~ (index <= Len(params))
    <3>1. main' = "notFound"
      BY <1>6, <2>3 DEF Loop
    <3>2. steady => index - 1 = Len(params)
      BY <2>1, <2>3, <1>t DEF LookedUp
    <3>3. steady => wanted \in OutputOnly \/ \A i \in 1 .. Len(params) : params[i] # wanted
      BY <2>1, <3>2 DEF LookedUp
    <3> QED
      BY <2>1, <3>1, <3>3 DEF LookedUp, UsedElementExists, SteadyLookUpIsRight
  <2> QED
    BY <2>2, <2>3
<1>7. CASE Use
  <2>1. main = "use" /\ UNCHANGED <<wanted, params, raced, steady>>
    BY <1>7 DEF Use
  <2>2. CASE ~steady
    <3>1. main' # "use" /\ ~steady'
      BY <1>7, <2>1, <2>2 DEF Use
    <3> QED
      BY <3>1 DEF LookedUp, UsedElementExists, SteadyLookUpIsRight
  <2>3. CASE steady
    <3>1. ~raced
      BY <2>3 DEF LookedUp
    <3>2. index <= Len(params)
      BY <2>1, <3>1 DEF LookedUp, UsedElementExists
    <3>3. PICK match \in Matches :
            IF match
            THEN main' = "found" /\ index' = index
            ELSE main' = "loop" /\ index' = index + 1
      BY <1>7, <3>1 DEF Use
    <3>4. CASE match
      <4>1. params[index] = wanted
        BY <3>2, <3>3, <3>4 DEF Matches
      <4> QED
        BY <2>1, <3>1, <3>2, <3>3, <3>4, <4>1 DEF LookedUp, UsedElementExists, SteadyLookUpIsRight
    <3>5. CASE ~match
      <4>1. wanted \in OutputOnly \/ params[index] # wanted
        BY <3>2, <3>3, <3>5 DEF Matches
      <4>2. wanted \in OutputOnly \/ \A i \in 1 .. index - 1 : params[i] # wanted
        BY <2>1, <2>3 DEF LookedUp
      <4>3. \A i \in 1 .. index' - 1 : i = index \/ i \in 1 .. index - 1
        BY <3>3, <3>5, <1>t
      <4>4. wanted \in OutputOnly \/ \A i \in 1 .. index' - 1 : params[i] # wanted
        BY <4>1, <4>2, <4>3
      <4>5. index' <= Len(params) + 1 /\ main' = "loop"
        BY <3>2, <3>3, <3>5, <1>t
      <4> QED
        BY <2>1, <3>1, <4>4, <4>5 DEF LookedUp, UsedElementExists, SteadyLookUpIsRight
    <3> QED
      BY <3>4, <3>5
  <2> QED
    BY <2>2, <2>3
<1>8. CASE Hint \/ Send
  BY <1>8, <1>i DEF Hint, Send
<1>9. CASE DestructorBody \/ Destructor
  BY <1>9, <1>i
     DEF DestructorBody, Destructor, DestroyTransmitter, Join, DestroyListener, DestroyAvatarData
<1>10. CASE UNCHANGED vars
  BY <1>10, <1>u DEF vars
<1> QED
  BY <1>1, <1>2, <1>3, <1>4, <1>5, <1>6, <1>7, <1>8, <1>9, <1>10
     DEF Next, Receiver, Main, LookingUp

----------------------------------------------------------------------------
(* What the chat is told                                                   *)

LEMMA StepTold ==
  ASSUME Typing, Told, [Next]_vars
  PROVE  Told'
<1> USE DEF oscVars, listVars, mainVars
<1>t. announced \in Seq(Announcement) /\ Len(announced) \in Nat
      /\ oldAvatarName \in Avatar \cup {NoAvatar} /\ avatarName \in Avatar \cup {NoAvatar}
  BY DEF Typing, TypeOK, Announcement
<1>u. ASSUME UNCHANGED <<oldAvatarName, avatarName, announced>>,
             osc' \in {"check", "recv", "load", "ended"} =>
               osc \in {"check", "recv", "load", "ended"},
             InCallback' => InCallback
      PROVE  Told'
  BY <1>u DEF Told, AnnouncementsChain, LastTold
<1>1. CASE CheckInterruption \/ ReceiveNothing
  BY <1>1, <1>u DEF CheckInterruption, ReceiveNothing, InCallback
<1>2. ASSUME NEW a \in Avatar, ReceiveChange(a) PROVE Told'
  BY <1>2 DEF ReceiveChange, Told, AnnouncementsChain, LastTold
<1>3. CASE Load
  <2>1. /\ osc = "load" /\ osc' \in {"push", "terminated"}
        /\ UNCHANGED <<oldAvatarName, announced>>
    BY <1>3 DEF Load
  <2> QED
    BY <2>1 DEF Told, AnnouncementsChain, LastTold, InCallback
<1>4. CASE Push
  BY <1>4, <1>u DEF Push, InCallback
<1>5. CASE Announce
  <2> DEFINE e == [from |-> oldAvatarName, to |-> avatarName]
  <2>1. /\ osc = "announce" /\ osc' = "check" /\ announced' = Append(announced, e)
        /\ avatarName' = avatarName /\ oldAvatarName = LastTold
    BY <1>5 DEF Announce, Told, InCallback
  <2>2. e \in Announcement /\ e.from = oldAvatarName /\ e.to = avatarName
    BY <1>t DEF Announcement
  <2> HIDE DEF e
  <2>3. /\ announced' \in Seq(Announcement) /\ Len(announced') = Len(announced) + 1
        /\ \A i \in 1 .. Len(announced) : announced'[i] = announced[i]
        /\ announced'[Len(announced) + 1] = e
    BY <2>1, <2>2, <1>t, AppendProperties
  <2>4. LastTold' = avatarName'
    BY <2>1, <2>2, <2>3, <1>t DEF LastTold
  <2>5. AnnouncementsChain'
    <3> SUFFICES ASSUME NEW i \in 1 .. Len(announced')
                 PROVE  announced'[i].from = IF i = 1 THEN NoAvatar ELSE announced'[i - 1].to
      BY DEF AnnouncementsChain
    <3>1. CASE i \in 1 .. Len(announced)
      <4>1. announced'[i] = announced[i] /\ (i # 1 => announced'[i - 1] = announced[i - 1])
        BY <3>1, <2>3, <1>t
      <4> QED
        BY <3>1, <4>1 DEF Told, AnnouncementsChain
    <3>2. CASE i = Len(announced) + 1
      <4>1. announced'[i].from = LastTold
        BY <3>2, <2>1, <2>2, <2>3
      <4>2. CASE announced = << >>
        BY <3>2, <4>1, <4>2 DEF LastTold
      <4>3. CASE announced # << >>
        <5>1. i # 1 /\ i - 1 = Len(announced) /\ Len(announced) \in 1 .. Len(announced)
          BY <3>2, <4>3, <1>t
        <5> QED
          BY <4>1, <4>3, <5>1, <2>3 DEF LastTold
      <4> QED
        BY <4>2, <4>3
    <3> QED
      BY <3>1, <3>2, <2>3, <1>t
  <2> QED
    BY <2>1, <2>4, <2>5 DEF Told, InCallback
<1>6. CASE Main
  <2>1. UNCHANGED oscVars
    BY <1>6
       DEF Main, LookingUp, LookUp, Hint, Loop, Use, Send, DestructorBody, Destructor,
           DestroyTransmitter, Join, DestroyListener, DestroyAvatarData
  <2> QED
    BY <2>1, <1>u DEF InCallback
<1>7. CASE UNCHANGED vars
  BY <1>7, <1>u DEF vars, InCallback
<1> QED
  BY <1>1, <1>2, <1>3, <1>4, <1>5, <1>6, <1>7 DEF Next, Receiver

----------------------------------------------------------------------------
(* The theorems                                                            *)

IInv == Typing /\ Lifetime /\ Loaded /\ LookedUp /\ Told

LEMMA InitIInv == Init => IInv
<1> SUFFICES ASSUME Init PROVE IInv
  OBVIOUS
<1>1. Lifetime
  BY DEF Init, Lifetime, Member
<1>2. Loaded
  BY DEF Init, Loaded, OneAvatarsParameters
<1>3. LookedUp
  BY DEF Init, LookedUp, UsedElementExists, SteadyLookUpIsRight
<1>4. Told
  BY DEF Init, Told, AnnouncementsChain, LastTold, InCallback
<1> QED
  BY <1>1, <1>2, <1>3, <1>4, InitTyping DEF IInv

LEMMA Invariant == Spec => []IInv
<1>1. IInv /\ [Next]_vars => IInv'
  BY StepTyping, StepLifetime, StepLoaded, StepLookedUp, StepTold DEF IInv
<1> QED
  BY <1>1, InitIInv, PTL DEF Spec

\* The type invariant.
THEOREM AvatarTyping == Spec => []TypeOK
<1>1. IInv => TypeOK
  BY DEF IInv, Typing
<1> QED
  BY <1>1, Invariant, PTL

\* The receiver's thread ends before anything it uses is destroyed.
THEOREM ThreadOutlived == Spec => []ThreadHasItsData
<1>1. IInv => ThreadHasItsData
  BY DEF IInv, Lifetime, ThreadHasItsData
<1> QED
  BY <1>1, Invariant, PTL

\* Unless a load runs into a look-up, the element it uses exists.
THEOREM UsesExist == Spec => []UsedElementExists
<1>1. IInv => UsedElementExists
  BY DEF IInv, LookedUp
<1> QED
  BY <1>1, Invariant, PTL

\* A look-up in a list that did not change gives the right answer.
THEOREM LookUpIsRight == Spec => []SteadyLookUpIsRight
<1>1. IInv => SteadyLookUpIsRight
  BY DEF IInv, LookedUp
<1> QED
  BY <1>1, Invariant, PTL

\* The list is always that of one avatar, whole or being loaded.
THEOREM OneAvatar == Spec => []OneAvatarsParameters
<1>1. IInv => OneAvatarsParameters
  BY DEF IInv, Loaded
<1> QED
  BY <1>1, Invariant, PTL

\* The announced changes join up.
THEOREM ChangesJoinUp == Spec => []AnnouncementsChain
<1>1. IInv => AnnouncementsChain
  BY DEF IInv, Told
<1> QED
  BY <1>1, Invariant, PTL

----------------------------------------------------------------------------
(* What DestructorReturns rests on                                         *)

\* The thread is asked to end after its socket was closed.
StopInv ==
  /\ interrupted => ~open
  /\ main = "destroyTransmitter" => ~open

LEMMA StepStop ==
  ASSUME StopInv, [Next]_vars
  PROVE  StopInv'
<1> USE DEF StopInv, oscVars, listVars, mainVars
<1>1. CASE CheckInterruption \/ ReceiveNothing \/ Load \/ Push \/ Announce
  BY <1>1 DEF CheckInterruption, ReceiveNothing, Load, Push, Announce
<1>2. ASSUME NEW a \in Avatar, ReceiveChange(a) PROVE StopInv'
  BY <1>2 DEF ReceiveChange
<1>3. ASSUME NEW name \in Name, LookUp(name) PROVE StopInv'
  BY <1>3 DEF LookUp
<1>4. CASE LookingUp
  BY <1>4 DEF LookingUp, Hint, Loop, Use, Send
<1>5. CASE DestructorBody \/ Destructor
  BY <1>5 DEF DestructorBody, Destructor, DestroyTransmitter, Join, DestroyListener,
              DestroyAvatarData
<1>6. CASE UNCHANGED vars
  BY <1>6 DEF vars
<1> QED
  BY <1>1, <1>2, <1>3, <1>4, <1>5, <1>6 DEF Next, Receiver, Main

LEMMA StopInvariant == Spec => []StopInv
<1>1. Init => StopInv
  BY DEF Init, StopInv
<1> QED
  BY <1>1, StepStop, PTL DEF Spec

\* The steps of the receiver's thread once it is asked to end.
ReceiverLeft ==
  CASE osc = "load"     -> 5 + Len(Parameters[incoming])
    [] osc = "push"     -> 4 + Len(Parameters[incoming]) - Len(params)
    [] osc = "announce" -> 3
    [] osc = "recv"     -> 2
    [] osc = "check"    -> 1
    [] OTHER            -> 0

LEMMA Lengths ==
  ASSUME Typing
  PROVE  /\ InCallback => Len(Parameters[incoming]) \in Nat
         /\ Len(params) \in Nat
BY AvatarAssumption DEF Typing, TypeOK

\* The list is no longer than what is left to push.
LEMMA ReceiverLeftInNat ==
  ASSUME Typing, Lifetime, Loaded
  PROVE  ReceiverLeft \in Nat
<1>1. CASE osc = "push"
  <2>1. incoming \in Avatar /\ avatarName = incoming /\ incoming # NoAvatar /\ main # "gone"
    BY <1>1, AvatarAssumption DEF Typing, InCallback, Loaded, Lifetime
  <2>2. Len(params) <= Len(Parameters[incoming])
    BY <2>1 DEF Loaded, OneAvatarsParameters
  <2> QED
    BY <1>1, <2>2, Lengths DEF ReceiverLeft, InCallback
<1>2. CASE osc = "load"
  BY <1>2, Lengths DEF ReceiverLeft, InCallback
<1>3. CASE osc \notin {"load", "push"}
  BY <1>3 DEF ReceiverLeft
<1> QED
  BY <1>1, <1>2, <1>3

\* Every step of the thread leaves it a smaller number of steps.
LEMMA ReceiverStep ==
  ASSUME Typing, Lifetime, Loaded, StopInv, interrupted, Receiver
  PROVE  ReceiverLeft' < ReceiverLeft
<1> USE DEF oscVars, listVars, mainVars
<1>1. ~open
  BY DEF StopInv
<1>2. CASE CheckInterruption
  BY <1>2 DEF CheckInterruption, ReceiverLeft
<1>3. CASE ReceiveNothing
  BY <1>3 DEF ReceiveNothing, ReceiverLeft
<1>4. ASSUME NEW a \in Avatar, ReceiveChange(a)  PROVE FALSE
  BY <1>1, <1>4 DEF ReceiveChange
<1>5. CASE Load
  <2>1. osc = "load" /\ Len(Parameters[incoming]) \in Nat /\ UNCHANGED incoming
    BY <1>5, Lengths DEF Load, InCallback
  <2>2. CASE osc' = "terminated"
    BY <2>1, <2>2 DEF ReceiverLeft
  <2>3. CASE osc' = "push" /\ params' = << >>
    <3>1. ReceiverLeft' = 4 + Len(Parameters[incoming]) - 0
      BY <2>1, <2>3 DEF ReceiverLeft
    <3> QED
      BY <2>1, <3>1 DEF ReceiverLeft
  <2> QED
    BY <1>5, <2>2, <2>3 DEF Load, ChangeList
<1>6. CASE Push
  <2>1. /\ osc = "push" /\ Len(Parameters[incoming]) \in Nat /\ Len(params) \in Nat
        /\ UNCHANGED incoming /\ params \in Seq(Name)
    BY <1>6, Lengths DEF Push, InCallback, Typing, TypeOK
  <2>2. ReceiverLeft = 4 + Len(Parameters[incoming]) - Len(params)
    BY <2>1 DEF ReceiverLeft
  <2>3. CASE Len(params) < Len(Parameters[incoming])
    <3>1. osc' = "push" /\ Len(params') = Len(params) + 1
      BY <1>6, <2>1, <2>3 DEF Push, ChangeList
    <3>2. ReceiverLeft' = 4 + Len(Parameters[incoming]) - Len(params')
      BY <2>1, <3>1 DEF ReceiverLeft
    <3> QED
      BY <2>1, <2>2, <3>1, <3>2
  <2>4. CASE ~(Len(params) < Len(Parameters[incoming]))
    <3>1. osc' = "announce"
      BY <1>6, <2>4 DEF Push
    <3>2. Len(params) <= Len(Parameters[incoming])
      <4>1. incoming \in Avatar /\ avatarName = incoming /\ incoming # NoAvatar /\ main # "gone"
        BY <2>1, AvatarAssumption DEF Typing, Loaded, Lifetime, InCallback
      <4> QED
        BY <4>1 DEF Loaded, OneAvatarsParameters
    <3> QED
      BY <2>1, <2>2, <3>1, <3>2 DEF ReceiverLeft
  <2> QED
    BY <2>3, <2>4
<1>7. CASE Announce
  BY <1>7 DEF Announce, ReceiverLeft
<1> QED
  BY <1>2, <1>3, <1>4, <1>5, <1>6, <1>7 DEF Receiver

\* The main thread gives it none.
LEMMA MainGivesNone ==
  ASSUME Typing, Lifetime, interrupted, Main
  PROVE  ReceiverLeft' = ReceiverLeft
<1> USE DEF oscVars, listVars, mainVars
<1>1. UNCHANGED <<osc, incoming>>
  BY DEF Main, LookUp, LookingUp, Hint, Loop, Use, Send, DestructorBody, Destructor,
         DestroyTransmitter, Join, DestroyListener, DestroyAvatarData
<1>2. CASE DestroyAvatarData
  BY <1>1, <1>2 DEF DestroyAvatarData, Lifetime, ReceiverLeft
<1>3. CASE ~DestroyAvatarData
  <2>1. UNCHANGED params
    BY <1>3 DEF Main, LookUp, LookingUp, Hint, Loop, Use, Send, DestructorBody, Destructor,
                DestroyTransmitter, Join, DestroyListener
  <2> QED
    BY <1>1, <2>1 DEF ReceiverLeft
<1> QED
  BY <1>2, <1>3

\* Once ~Receiver has asked the thread to end, it has only so many steps left,
\* loading an avatar with any number of parameters included: none adds to them,
\* each of its own is one less, and no other change of avatar is heard.
THEOREM ReceiverRunsOut ==
  Spec => /\ [](ReceiverLeft \in Nat)
          /\ [][interrupted => /\ ReceiverLeft' <= ReceiverLeft
                               /\ Receiver => ReceiverLeft' < ReceiverLeft]_vars
<1> DEFINE Fewer == /\ ReceiverLeft' <= ReceiverLeft
                    /\ Receiver => ReceiverLeft' < ReceiverLeft
<1>1. IInv => ReceiverLeft \in Nat
  BY ReceiverLeftInNat DEF IInv
<1>2. ASSUME IInv, (ReceiverLeft \in Nat)', StopInv, Next, interrupted  PROVE Fewer
  <2>1. ReceiverLeft \in Nat /\ ReceiverLeft' \in Nat
    BY <1>1, <1>2
  <2>2. Receiver => ReceiverLeft' < ReceiverLeft
    BY <1>2, ReceiverStep DEF IInv
  <2>3. Main => ReceiverLeft' = ReceiverLeft
    BY <1>2, MainGivesNone DEF IInv
  <2> QED
    BY <1>2, <2>1, <2>2, <2>3 DEF Next
<1>3. IInv /\ (ReceiverLeft \in Nat)' /\ StopInv /\ [Next]_vars => [interrupted => Fewer]_vars
  BY <1>2
<1> QED
  BY <1>1, <1>3, Invariant, StopInvariant, PTL DEF Spec
=============================================================================

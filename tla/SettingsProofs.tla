---------------------------- MODULE SettingsProofs ----------------------------
(***************************************************************************)
(* Proofs about the settings: SettingsFile, however often the program is   *)
(* started, stopped or its file edited, and JoinedChannels, the list of    *)
(* the settings window, for every list and every sequence of buttons.      *)
(*                                                                         *)
(* ValuesSurvive is not inductive: while the file is rewritten the values  *)
(* are in memory only, and one that is created held nothing before.        *)
(* ValuesKept says where they are at each step of LoadFile. Nor are the    *)
(* two properties of the list, which say nothing while Part is at work:    *)
(* Untouched and Explained say what holds between two turns of its loop.   *)
(***************************************************************************)
EXTENDS SettingsFile, JoinedChannels, SequenceTheorems, TLAPS

\* Everything the user had set is still in the file.
Kept == \A k \in DOMAIN before : k \in DOMAIN file /\ file[k] = before[k]

\* ... or at least in memory.
Remembered == \A k \in DOMAIN before : k \in Key /\ mySettings[k] = before[k]

\* Where the user's values are.
ValuesKept ==
  ~mishap =>
    /\ phase \in {"create", "creating"} => DOMAIN before = {}
    /\ phase \in {"rewrite", "rewriting"} => Remembered
    /\ phase \notin {"creating", "rewriting"} => Kept

----------------------------------------------------------------------------
\* An object has keys of Settings and nothing else.
LEMMA ObjectDomain ==
  ASSUME NEW object \in Object
  PROVE  /\ DOMAIN object \subseteq Key
         /\ \A k \in DOMAIN object : object[k] \in BOOLEAN \cup {NotABool}
BY DEF Object

LEMMA NoKeysIsObject == NoKeys \in Object /\ DOMAIN NoKeys = {}
<1>1. NoKeys \in [{} -> BOOLEAN \cup {NotABool}]
  BY DEF NoKeys
<1>2. {} \in SUBSET Key
  OBVIOUS
<1>3. QED
  BY <1>1, <1>2 DEF Object, NoKeys

\* What ToJson gives is an object with all keys.
LEMMA SettingsAreObject == [Key -> BOOLEAN] \subseteq Object
<1>1. SUFFICES ASSUME NEW settings \in [Key -> BOOLEAN]
               PROVE  settings \in [Key -> BOOLEAN \cup {NotABool}]
  BY DEF Object
<1>2. QED
  OBVIOUS

\* What FromJson assigns are settings, and those of an object it does not
\* throw on are its own.
LEMMA FromJsonGivesSettings ==
  ASSUME NEW object \in Object, ~FromJsonThrows(object)
  PROVE  /\ FromJson(object) \in [Key -> BOOLEAN]
         /\ \A k \in DOMAIN object : k \in Key /\ FromJson(object)[k] = object[k]
<1>1. \A k \in DOMAIN object : k \in Key /\ object[k] \in BOOLEAN
  BY ObjectDomain DEF FromJsonThrows
<1>2. \A k \in Key : (k \in DOMAIN object /\ object[k]) \in BOOLEAN
  OBVIOUS
<1>3. FromJson(object) \in [Key -> BOOLEAN]
  BY <1>2 DEF FromJson
<1>4. \A k \in DOMAIN object : FromJson(object)[k] = object[k]
  <2>1. TAKE k \in DOMAIN object
  <2>2. FromJson(object)[k] = (k \in DOMAIN object /\ object[k])
    BY <1>1 DEF FromJson
  <2>3. QED
    BY <1>1, <2>2
<1>5. QED
  BY <1>1, <1>3, <1>4

LEMMA InitTypeOK == Init => TypeOK
BY NoKeysIsObject, SettingsAreObject DEF Init, TypeOK, Phase

LEMMA NextTypeOK == TypeOK /\ [Next]_vars => TypeOK'
<1> SUFFICES ASSUME TypeOK, [Next]_vars
             PROVE  TypeOK'
  OBVIOUS
<1> USE DEF TypeOK, Phase, diskVars, historyVars
<1>1. CASE Start
  BY <1>1 DEF Start
<1>2. CASE Exists
  BY <1>2 DEF Exists
<1>3. ASSUME NEW from, NEW opened \in Phase, NEW notOpened \in Phase, Open(from, opened, notOpened)
      PROVE  TypeOK'
  BY <1>3, NoKeysIsObject DEF Open
<1>4. ASSUME NEW from, NEW next \in Phase, Close(from, next)
      PROVE  TypeOK'
  BY <1>4, SettingsAreObject DEF Close
<1>5. CASE OpenToCreate
  BY <1>5, <1>3 DEF OpenToCreate
<1>6. CASE Create
  BY <1>6, <1>4 DEF Create
<1>7. CASE ParseFails
  BY <1>7 DEF ParseFails
<1>8. CASE Parse
  BY <1>8, FromJsonGivesSettings DEF Parse
<1>9. CASE OpenToRewrite
  BY <1>9, <1>3 DEF OpenToRewrite
<1>10. CASE Rewrite
  BY <1>10, <1>4 DEF Rewrite
<1>11. CASE ParseAgain
  BY <1>11, FromJsonGivesSettings DEF ParseAgain
<1>12. CASE Change
  BY <1>12 DEF Change
<1>13. CASE Stop
  BY <1>13 DEF Stop
<1>14. CASE Edit
  BY <1>14, NoKeysIsObject DEF Edit
<1>15. CASE UNCHANGED vars
  BY <1>15 DEF vars
<1>16. QED
  BY <1>1, <1>2, <1>5, <1>6, <1>7, <1>8, <1>9, <1>10, <1>11, <1>12, <1>13, <1>14, <1>15
  DEF Next, LoadFile

\* Every step of a start, and of the user between two, keeps the variables in
\* range.
THEOREM SettingsTyping == Spec => []TypeOK
BY InitTypeOK, NextTypeOK, PTL DEF Spec

----------------------------------------------------------------------------
\* The program only runs on what its file holds: LoadFile reads back what it
\* writes.
THEOREM RunsOnFile == Spec => []RunsOnItsFile
<1>1. Init => RunsOnItsFile
  BY DEF Init, RunsOnItsFile
<1>2. RunsOnItsFile /\ [Next]_vars => RunsOnItsFile'
  <2> SUFFICES ASSUME RunsOnItsFile, [Next]_vars
               PROVE  RunsOnItsFile'
    OBVIOUS
  <2> USE DEF RunsOnItsFile, diskVars, historyVars
  <2>1. CASE Parse \/ ParseAgain
    BY <2>1 DEF Parse, ParseAgain
  <2>2. CASE Change
    BY <2>2 DEF Change
  <2>3. CASE UNCHANGED vars
    BY <2>3 DEF vars
  <2>4. CASE Start \/ Exists \/ ParseFails \/ Stop \/ Edit
    BY <2>4 DEF Start, Exists, ParseFails, Stop, Edit
  <2>5. CASE OpenToCreate \/ OpenToRewrite
    BY <2>5 DEF OpenToCreate, OpenToRewrite, Open
  <2>6. CASE Create \/ Rewrite
    BY <2>6 DEF Create, Rewrite, Close
  <2>7. QED
    BY <2>1, <2>2, <2>3, <2>4, <2>5, <2>6 DEF Next, LoadFile
<1>3. QED
  BY <1>1, <1>2, PTL DEF Spec

----------------------------------------------------------------------------
LEMMA InitValuesKept == Init => ValuesKept
BY DEF Init, ValuesKept, Kept

LEMMA NextValuesKept == TypeOK /\ ValuesKept /\ [Next]_vars => ValuesKept'
<1> SUFFICES ASSUME TypeOK, ValuesKept, [Next]_vars
             PROVE  ValuesKept'
  OBVIOUS
<1> USE DEF ValuesKept, Kept, Remembered, diskVars, historyVars
<1>1. CASE Start
  BY <1>1 DEF Start
<1>2. CASE Exists
  \* Where nothing was, there was nothing to keep.
  <2>1. disk = "missing" /\ ~mishap => DOMAIN before = {}
    BY <1>2, NoKeysIsObject DEF Exists, TypeOK
  <2>2. QED
    BY <1>2, <2>1 DEF Exists
<1>3. CASE OpenToCreate
  BY <1>3 DEF OpenToCreate, Open
<1>4. CASE Create
  BY <1>4 DEF Create, Close
<1>5. CASE ParseFails
  BY <1>5 DEF ParseFails
<1>6. CASE Parse
  BY <1>6, FromJsonGivesSettings DEF Parse, TypeOK
<1>7. CASE OpenToRewrite
  BY <1>7 DEF OpenToRewrite, Open
<1>8. CASE Rewrite
  BY <1>8 DEF Rewrite, Close, TypeOK
<1>9. CASE ParseAgain
  BY <1>9 DEF ParseAgain
<1>10. CASE Change
  BY <1>10 DEF Change
<1>11. CASE Stop
  BY <1>11 DEF Stop
<1>12. CASE Edit
  BY <1>12 DEF Edit
<1>13. CASE UNCHANGED vars
  BY <1>13 DEF vars
<1>14. QED
  BY <1>1, <1>2, <1>3, <1>4, <1>5, <1>6, <1>7, <1>8, <1>9, <1>10, <1>11, <1>12, <1>13
  DEF Next, LoadFile

\* What the user has set is in the file again when the adding of missing keys
\* is over, unless a write was cut short or the file could not be read.
THEOREM Survival == Spec => []ValuesSurvive
<1>1. ValuesKept => ValuesSurvive
  BY DEF ValuesKept, ValuesSurvive, Kept
<1>2. QED
  BY <1>1, InitTypeOK, NextTypeOK, InitValuesKept, NextValuesKept, PTL DEF Spec

----------------------------------------------------------------------------
(* The list of joined channels                                             *)

\* Until the loop has come to the slot it erases nothing, as the channel of the
\* slot is listed once up to there: what is before it stays as it was.
Untouched ==
  /\ at <= slot
  /\ \A k \in DOMAIN myJoinedChannels :
       k < slot => myJoinedChannels[k] \in told \union doubled
  /\ at < slot =>
       /\ ~SlotIsGone
       /\ \A k \in 1 .. slot - 1 : myJoinedChannels[k] # myJoinedChannels[slot]

\* What is listed and not joined is doubled, or to be erased by this Part.
ListedInv ==
  connected => Listed \ told \subseteq doubled \/ (main = "part" /\ Untouched)

\* Whatever the loop may still erase was behind the channel that is parted, or
\* is that channel.
Explained ==
  /\ at <= slot
  /\ \A k \in DOMAIN myJoinedChannels : k > slot => myJoinedChannels[k] \in behind
  /\ ~SlotIsGone =>
       myJoinedChannels[slot] \notin told \/ myJoinedChannels[slot] \in behind

JoinedInv ==
  ~undefined =>
    /\ told \ Listed \subseteq behind
    /\ main = "part" => Explained

\* Erasing moves what is behind the element one place down.
LEMMA RemoveAtProperties ==
  ASSUME NEW S, NEW s \in Seq(S), NEW i \in 1 .. Len(s)
  PROVE  /\ RemoveAt(s, i) \in Seq(S)
         /\ Len(RemoveAt(s, i)) = Len(s) - 1
         /\ \A k \in 1 .. Len(s) - 1 : RemoveAt(s, i)[k] = IF k < i THEN s[k] ELSE s[k + 1]
<1> DEFINE front == SubSeq(s, 1, i - 1)
           back == SubSeq(s, i + 1, Len(s))
           n == Len(s)
<1>1. n \in Nat /\ i \in Nat /\ 1 <= i /\ i <= n
  OBVIOUS
<1>2. /\ front \in Seq(S) /\ Len(front) = i - 1
      /\ \A k \in 1 .. i - 1 : front[k] = s[k]
  OBVIOUS
<1>3. /\ back \in Seq(S) /\ Len(back) = n - i
      /\ \A k \in 1 .. n - i : back[k] = s[k + i]
  OBVIOUS
<1>4. RemoveAt(s, i) = front \o back
  BY DEF RemoveAt
<1> HIDE DEF front, back, n
<1>5. /\ front \o back \in Seq(S) /\ Len(front \o back) = n - 1
      /\ \A k \in 1 .. n - 1 :
           (front \o back)[k] = IF k <= i - 1 THEN front[k] ELSE back[k - (i - 1)]
  <2>1. /\ front \o back \in Seq(S) /\ Len(front \o back) = Len(front) + Len(back)
        /\ \A k \in 1 .. Len(front) + Len(back) :
             (front \o back)[k] = IF k <= Len(front) THEN front[k] ELSE back[k - Len(front)]
    BY <1>2, <1>3, ConcatProperties
  <2>2. Len(front) + Len(back) = n - 1
    BY <1>1, <1>2, <1>3
  <2> QED
    BY <1>2, <2>1, <2>2
<1>6. ASSUME NEW k \in 1 .. n - 1
      PROVE  (front \o back)[k] = IF k < i THEN s[k] ELSE s[k + 1]
  <2>1. CASE k < i
    BY <1>1, <1>2, <1>5, <2>1
  <2>2. CASE k >= i
    <3>1. k - (i - 1) \in 1 .. n - i /\ (k - (i - 1)) + i = k + 1 /\ ~(k <= i - 1) /\ ~(k < i)
      BY <1>1, <2>2
    <3>2. back[k - (i - 1)] = s[k + 1]
      BY <1>3, <3>1
    <3> QED
      BY <1>5, <3>1, <3>2
  <2>3. k < i \/ k >= i
    BY <1>1
  <2> QED
    BY <2>1, <2>2, <2>3, Zenon
<1> QED
  BY <1>4, <1>5, <1>6 DEF n

\* What an erase takes out of the list is the element it erases, at most.
LEMMA EraseLists ==
  ASSUME JoinedTypeOK, at <= Len(myJoinedChannels), Erase
  PROVE  /\ at \in 1 .. Len(myJoinedChannels)
         /\ Listed' \subseteq Listed
         /\ Listed \subseteq Listed' \union {myJoinedChannels[at]}
         /\ Len(myJoinedChannels') = Len(myJoinedChannels) - 1
         /\ myJoinedChannels' \in Seq(Channel)
         /\ \A k \in 1 .. Len(myJoinedChannels) - 1 :
              myJoinedChannels'[k] = IF k < at THEN myJoinedChannels[k]
                                     ELSE myJoinedChannels[k + 1]
<1> DEFINE n == Len(myJoinedChannels)
<1>1. at \in 1 .. n /\ n \in Nat /\ at \in Nat
  BY DEF JoinedTypeOK
<1>2. /\ myJoinedChannels' \in Seq(Channel) /\ Len(myJoinedChannels') = n - 1
      /\ \A k \in 1 .. n - 1 :
           myJoinedChannels'[k] = IF k < at THEN myJoinedChannels[k] ELSE myJoinedChannels[k + 1]
  BY <1>1, RemoveAtProperties DEF JoinedTypeOK, Erase
<1>3. Listed = {myJoinedChannels[k] : k \in 1 .. n}
      /\ Listed' = {myJoinedChannels'[k] : k \in 1 .. n - 1}
  <2>1. DOMAIN myJoinedChannels = 1 .. n /\ DOMAIN myJoinedChannels' = 1 .. n - 1
    BY <1>2 DEF JoinedTypeOK
  <2> QED
    BY <2>1 DEF Listed, ToSet
<1>4. ASSUME NEW k \in 1 .. n - 1
      PROVE  myJoinedChannels'[k] \in Listed
  <2>1. k \in 1 .. n /\ k + 1 \in 1 .. n
    BY <1>1
  <2> QED
    BY <1>2, <1>3, <2>1
<1>5. ASSUME NEW k \in 1 .. n, k # at
      PROVE  myJoinedChannels[k] \in Listed'
  <2>1. CASE k < at
    BY <1>1, <1>2, <1>3, <2>1
  <2>2. CASE k > at
    <3>1. k - 1 \in 1 .. n - 1 /\ ~(k - 1 < at) /\ (k - 1) + 1 = k
      BY <1>1, <2>2
    <3>2. myJoinedChannels'[k - 1] = myJoinedChannels[k]
      BY <1>2, <3>1
    <3> QED
      BY <1>3, <3>1, <3>2
  <2> QED
    BY <1>1, <1>5, <2>1, <2>2
<1> HIDE DEF n
<1> QED
  BY <1>1, <1>2, <1>3, <1>4, <1>5 DEF n

\* The other steps of the list: what is listed after a Join, and at first.
LEMMA JoinLists ==
  ASSUME JoinedTypeOK, NEW c \in Channel, Join(c)
  PROVE  /\ Listed' = Listed \union {c}
         /\ myJoinedChannels' \in Seq(Channel) /\ Len(myJoinedChannels') <= MaxListed
<1>1. /\ myJoinedChannels' = Append(myJoinedChannels, c)
      /\ myJoinedChannels \in Seq(Channel)
      /\ Len(myJoinedChannels) < MaxListed
  BY DEF Join, JoinedTypeOK
<1>2. /\ myJoinedChannels' \in Seq(Channel)
      /\ Len(myJoinedChannels') = Len(myJoinedChannels) + 1
      /\ Len(myJoinedChannels) \in Nat
  BY <1>1
<1>3. Listed' = Listed \union {c}
  BY <1>1, <1>2 DEF Listed, ToSet
<1> QED
  BY <1>1, <1>2, <1>3, JoinListAssumption

LEMMA JoinedTypeInit == JoinedInit => JoinedTypeOK
<1> SUFFICES ASSUME JoinedInit PROVE JoinedTypeOK
  OBVIOUS
<1>1. myJoinedChannels \in Seq(Channel) /\ Len(myJoinedChannels) <= MaxListed
  BY JoinListAssumption DEF JoinedInit
<1>2. told \subseteq Channel
  BY <1>1 DEF JoinedInit, ToSet
<1>3. 1 \in 1 .. MaxListed + 1
  BY JoinListAssumption
<1>4. /\ connected \in BOOLEAN /\ main \in {"window", "part", "crashed"}
      /\ slot \in 1 .. MaxListed + 1 /\ at \in 1 .. MaxListed + 1
      /\ behind \subseteq Channel /\ doubled \subseteq Channel /\ undefined \in BOOLEAN
  BY <1>3 DEF JoinedInit
<1> QED
  BY <1>1, <1>2, <1>4 DEF JoinedTypeOK

LEMMA JoinedTypeStep == JoinedTypeOK /\ [JoinedNext]_joinedVars => JoinedTypeOK'
<1> SUFFICES ASSUME JoinedTypeOK, [JoinedNext]_joinedVars PROVE JoinedTypeOK'
  OBVIOUS
<1>0. MaxListed \in Nat /\ Len(myJoinedChannels) \in Nat /\ at \in Nat
  BY JoinListAssumption DEF JoinedTypeOK
<1>1. ASSUME NEW c \in Channel, Join(c) PROVE JoinedTypeOK'
  BY <1>1, JoinLists DEF Join, JoinedTypeOK
<1>2. ASSUME NEW i \in DOMAIN myJoinedChannels, BeginPart(i) PROVE JoinedTypeOK'
  <2>1. i \in 1 .. MaxListed + 1 /\ myJoinedChannels[i] \in Channel
    BY <1>0, <1>2 DEF JoinedTypeOK
  <2>2. \A k \in i + 1 .. Len(myJoinedChannels) : myJoinedChannels[k] \in Channel
    BY <1>0, <2>1 DEF JoinedTypeOK
  <2> QED
    BY <1>0, <1>2, <2>1, <2>2 DEF BeginPart, JoinedTypeOK
<1>3. CASE PartTurn
  <2>1. CASE Erase
    BY <1>0, <1>3, <2>1, EraseLists DEF PartTurn, Erase, JoinedTypeOK
  <2>2. CASE Pass
    BY <1>0, <1>3, <2>2 DEF PartTurn, Pass, JoinedTypeOK
  <2> QED
    BY <1>3, <2>1, <2>2 DEF PartTurn
<1>4. CASE PartCrashes \/ EndPart
  BY <1>4 DEF PartCrashes, EndPart, JoinedTypeOK
<1>5. CASE UNCHANGED joinedVars
  BY <1>5 DEF joinedVars, JoinedTypeOK
<1> QED
  BY <1>1, <1>2, <1>3, <1>4, <1>5 DEF JoinedNext

\* Buttons and loop keep the variables in range: "i--" never leaves the list.
THEOREM ListTyping == JoinedSpec => []JoinedTypeOK
  BY JoinedTypeInit, JoinedTypeStep, PTL DEF JoinedSpec

\* While the loop is at work, an erase happens at the slot or before it, and
\* only a slot that is gone can differ from itself.
LEMMA TurnAtSlot ==
  ASSUME JoinedTypeOK, PartTurn, at <= slot
  PROVE  /\ Pass => at < slot
         /\ Erase => \/ SlotIsGone
                     \/ myJoinedChannels[at] = myJoinedChannels[slot]
<1>1. at \in Nat /\ slot \in Nat /\ at <= Len(myJoinedChannels) /\ Len(myJoinedChannels) \in Nat
  BY JoinListAssumption DEF PartTurn, JoinedTypeOK
<1>2. ASSUME Pass PROVE at < slot
  <2> SUFFICES ASSUME at = slot PROVE FALSE
    BY <1>1
  <2>1. ~SlotIsGone
    BY <1>1 DEF SlotIsGone
  <2> QED
    BY <1>2, <2>1 DEF Pass, Equal
<1>3. ASSUME Erase, ~SlotIsGone PROVE myJoinedChannels[at] = myJoinedChannels[slot]
  BY <1>3 DEF Erase, Equal
<1> QED
  BY <1>2, <1>3

LEMMA ListedInit == JoinedInit => ListedInv
  BY DEF JoinedInit, ListedInv, Listed

LEMMA ListedStep == JoinedTypeOK /\ ListedInv /\ [JoinedNext]_joinedVars => ListedInv'
<1> SUFFICES ASSUME JoinedTypeOK, ListedInv, [JoinedNext]_joinedVars, connected'
             PROVE  Listed' \ told' \subseteq doubled' \/ (main' = "part" /\ Untouched')
  BY DEF ListedInv
<1> DEFINE n == Len(myJoinedChannels)
<1>0. /\ n \in Nat /\ at \in Nat /\ at >= 1 /\ slot \in Nat
      /\ DOMAIN myJoinedChannels = 1 .. n
      /\ Listed = {myJoinedChannels[k] : k \in 1 .. n}
  BY JoinListAssumption DEF JoinedTypeOK, Listed, ToSet
<1>c. connected
  BY DEF JoinedNext, joinedVars, Join, BeginPart, PartTurn, PartCrashes, EndPart
<1>1. ASSUME NEW c \in Channel, Join(c) PROVE Listed' \ told' \subseteq doubled'
  BY <1>c, <1>1, JoinLists DEF Join, ListedInv
<1>2. ASSUME NEW i \in DOMAIN myJoinedChannels, BeginPart(i)
      PROVE  Listed' \ told' \subseteq doubled' \/ (main' = "part" /\ Untouched')
  <2> DEFINE c == myJoinedChannels[i]
  <2>1. /\ main = "window" /\ main' = "part" /\ told' = told \ {c}
        /\ slot' = i /\ at' = 1 /\ myJoinedChannels' = myJoinedChannels
        /\ doubled' = IF \E k \in 1 .. i - 1 : myJoinedChannels[k] = c
                      THEN doubled \union {c} ELSE doubled
    BY <1>2 DEF BeginPart
  <2>2. Listed \ told \subseteq doubled /\ Listed' = Listed
    BY <1>c, <2>1 DEF ListedInv, Listed
  <2>3. CASE \E k \in 1 .. i - 1 : myJoinedChannels[k] = c
    <3>1. Listed' \ told' \subseteq doubled'
      BY <2>1, <2>2, <2>3
    <3> QED
      BY <3>1
  <2>4. CASE ~ \E k \in 1 .. i - 1 : myJoinedChannels[k] = c
    <3>1. i \in 1 .. n /\ doubled' = doubled
      BY <1>0, <2>1, <2>4
    <3>2. \A k \in 1 .. n : k < i => k \in 1 .. i - 1 /\ myJoinedChannels[k] # c
      BY <2>4
    <3>3. \A k \in 1 .. n : k < i => myJoinedChannels[k] \in told' \union doubled'
      BY <1>0, <2>1, <2>2, <3>1, <3>2
    <3> QED
      BY <1>0, <2>1, <2>4, <3>1, <3>3 DEF Untouched, SlotIsGone
  <2> QED
    BY <2>3, <2>4
<1>3. CASE PartTurn
  <2>1. UNCHANGED <<told, main, slot, doubled>> /\ main = "part" /\ at <= n
    BY <1>3 DEF PartTurn
  <2>2. CASE Listed \ told \subseteq doubled
    <3>1. CASE Erase
      BY <2>1, <2>2, <3>1, EraseLists
    <3>2. CASE Pass
      BY <2>1, <2>2, <3>2 DEF Pass, Listed
    <3> QED
      BY <1>3, <3>1, <3>2 DEF PartTurn
  <2>3. CASE Untouched
    <3>1. at <= slot /\ (at < slot => Pass)
      <4>1. ASSUME at < slot PROVE TRUE \notin Equal
        <5>1. ~SlotIsGone /\ at \in 1 .. slot - 1
          BY <1>0, <2>3, <4>1 DEF Untouched
        <5>2. (myJoinedChannels[at] = myJoinedChannels[slot]) = FALSE
          BY <2>3, <4>1, <5>1 DEF Untouched
        <5> QED
          BY <5>1, <5>2 DEF Equal
      <4> QED
        BY <1>3, <2>3, <4>1 DEF PartTurn, Erase, Untouched
    <3>2. CASE at < slot
      <4>1. at' = at + 1 /\ myJoinedChannels' = myJoinedChannels
        BY <3>1, <3>2 DEF Pass
      <4> QED
        BY <1>0, <2>1, <2>3, <3>2, <4>1 DEF Untouched, SlotIsGone
    <3>3. CASE at = slot
      <4>1. Erase
        <5>1. at <= slot /\ ~(at < slot)
          BY <1>0, <3>3
        <5>2. ~Pass
          BY <1>3, <5>1, TurnAtSlot, Zenon
        <5> QED
          BY <1>3, <5>2 DEF PartTurn
      <4>2. /\ Len(myJoinedChannels') = n - 1 /\ myJoinedChannels' \in Seq(Channel)
            /\ \A k \in 1 .. n - 1 : k < at => myJoinedChannels'[k] = myJoinedChannels[k]
            /\ at' = at
        BY <2>1, <4>1, EraseLists DEF Erase
      <4>3. \A k \in DOMAIN myJoinedChannels' :
              k < slot' => myJoinedChannels'[k] \in told' \union doubled'
        BY <1>0, <2>1, <2>3, <3>3, <4>2 DEF Untouched
      <4> QED
        BY <1>0, <2>1, <3>3, <4>2, <4>3 DEF Untouched
    <3> QED
      BY <1>0, <3>1, <3>2, <3>3
  <2> QED
    BY <1>c, <2>1, <2>2, <2>3 DEF ListedInv
<1>4. CASE EndPart
  <2>1. UNCHANGED <<told, myJoinedChannels, doubled>> /\ at > n
    BY <1>4 DEF EndPart
  <2>2. CASE Untouched
    \* All that is left of the list was before the slot.
    <3>1. \A k \in 1 .. n : k < slot
      BY <1>0, <2>1, <2>2 DEF Untouched, SlotIsGone
    <3>2. Listed \subseteq told \union doubled
      BY <1>0, <2>2, <3>1 DEF Untouched
    <3> QED
      BY <2>1, <3>2 DEF Listed
  <2>3. CASE Listed \ told \subseteq doubled
    BY <2>1, <2>3 DEF Listed
  <2> QED
    BY <1>c, <2>2, <2>3 DEF ListedInv
<1>5. CASE PartCrashes
  <2>1. UNCHANGED <<told, myJoinedChannels, doubled>>
    BY <1>5 DEF PartCrashes
  <2>2. CASE Untouched
    <3>1. \A k \in 1 .. n : k < slot
      BY <1>0, <1>5 DEF PartCrashes, SlotIsGone
    <3>2. Listed \subseteq told \union doubled
      BY <1>0, <2>2, <3>1 DEF Untouched
    <3> QED
      BY <2>1, <3>2 DEF Listed
  <2>3. CASE Listed \ told \subseteq doubled
    BY <2>1, <2>3 DEF Listed
  <2> QED
    BY <1>c, <2>2, <2>3 DEF ListedInv
<1>6. CASE UNCHANGED joinedVars
  BY <1>c, <1>6 DEF joinedVars, ListedInv, Listed, Untouched, SlotIsGone
<1> QED
  BY <1>1, <1>2, <1>3, <1>4, <1>5, <1>6 DEF JoinedNext

\* With a connection, a listed channel is joined, unless its second entry was
\* parted.
THEOREM ListedJoined == JoinedSpec => []ListedIsJoined
<1>1. ListedInv => ListedIsJoined
  BY DEF ListedInv, ListedIsJoined
<1> QED
  BY <1>1, JoinedTypeInit, JoinedTypeStep, ListedInit, ListedStep, PTL DEF JoinedSpec

LEMMA JoinedInvInit == JoinedInit => JoinedInv
  BY DEF JoinedInit, JoinedInv, Listed

LEMMA JoinedInvStep == JoinedTypeOK /\ JoinedInv /\ [JoinedNext]_joinedVars => JoinedInv'
<1> SUFFICES ASSUME JoinedTypeOK, JoinedInv, [JoinedNext]_joinedVars, ~undefined'
             PROVE  told' \ Listed' \subseteq behind' /\ (main' = "part" => Explained')
  BY DEF JoinedInv
<1> DEFINE n == Len(myJoinedChannels)
<1>0. /\ n \in Nat /\ at \in Nat /\ slot \in Nat
      /\ DOMAIN myJoinedChannels = 1 .. n
      /\ Listed = {myJoinedChannels[k] : k \in 1 .. n}
  BY JoinListAssumption DEF JoinedTypeOK, Listed, ToSet
<1>d. ~undefined
  BY DEF JoinedNext, joinedVars, Join, BeginPart, PartTurn, PartCrashes, EndPart
<1>e. told \ Listed \subseteq behind /\ (main = "part" => Explained)
  BY <1>d DEF JoinedInv
<1>1. ASSUME NEW c \in Channel, Join(c)
      PROVE  told' \ Listed' \subseteq behind' /\ main' # "part"
  BY <1>e, <1>1, JoinLists DEF Join
<1>2. ASSUME NEW i \in DOMAIN myJoinedChannels, BeginPart(i)
      PROVE  told' \ Listed' \subseteq behind' /\ Explained'
  <2>1. /\ told' = told \ {myJoinedChannels[i]}
        /\ slot' = i /\ at' = 1 /\ myJoinedChannels' = myJoinedChannels
        /\ behind' = behind \union {myJoinedChannels[k] : k \in i + 1 .. n}
    BY <1>2 DEF BeginPart
  <2>2. told' \ Listed' \subseteq behind'
    BY <1>e, <2>1 DEF Listed
  <2>3. \A k \in DOMAIN myJoinedChannels' : k > slot' => myJoinedChannels'[k] \in behind'
    BY <1>0, <2>1
  <2> QED
    BY <1>0, <1>2, <2>1, <2>2, <2>3 DEF Explained, SlotIsGone
<1>3. CASE PartTurn
  <2>1. /\ UNCHANGED <<told, main, slot, behind>> /\ main = "part" /\ at <= n
        /\ ~SlotIsGone
    BY <1>3 DEF PartTurn
  <2>2. Explained
    BY <1>e, <2>1
  <2>3. CASE Erase
    <3>1. /\ Listed \subseteq Listed' \union {myJoinedChannels[at]}
          /\ Len(myJoinedChannels') = n - 1 /\ myJoinedChannels' \in Seq(Channel)
          /\ \A k \in 1 .. n - 1 :
               myJoinedChannels'[k] = IF k < at THEN myJoinedChannels[k]
                                      ELSE myJoinedChannels[k + 1]
          /\ at' = at
      BY <2>1, <2>3, EraseLists DEF Erase
    <3>2. myJoinedChannels[at] \notin told \/ myJoinedChannels[at] \in behind
      BY <1>3, <2>1, <2>2, <2>3, TurnAtSlot DEF Explained
    <3>3. told' \ Listed' \subseteq behind'
      BY <1>e, <2>1, <3>1, <3>2
    <3>4. ASSUME NEW k \in 1 .. n - 1, k >= slot
          PROVE  myJoinedChannels'[k] \in behind
      <4>1. ~(k < at) /\ k + 1 \in 1 .. n /\ k + 1 > slot
        BY <1>0, <2>2, <3>4 DEF Explained
      <4> QED
        BY <1>0, <2>2, <3>1, <4>1 DEF Explained
    <3>5. Explained'
      <4>1. DOMAIN myJoinedChannels' = 1 .. n - 1
        BY <1>0, <3>1
      <4>2. \A k \in DOMAIN myJoinedChannels' : k > slot' => myJoinedChannels'[k] \in behind'
        BY <1>0, <2>1, <3>4, <4>1
      <4>3. ~SlotIsGone' => myJoinedChannels'[slot'] \in behind'
        BY <1>0, <2>1, <3>1, <3>4 DEF SlotIsGone, JoinedTypeOK
      <4> QED
        BY <2>1, <2>2, <3>1, <4>2, <4>3 DEF Explained
    <3> QED
      BY <3>3, <3>5
  <2>4. CASE Pass
    <3>1. at' = at + 1 /\ myJoinedChannels' = myJoinedChannels /\ at < slot
      BY <1>3, <2>2, <2>4, TurnAtSlot DEF Pass, Explained
    <3> QED
      BY <1>0, <1>e, <2>1, <2>2, <3>1 DEF Explained, SlotIsGone, Listed
  <2> QED
    BY <1>3, <2>3, <2>4 DEF PartTurn
<1>4. CASE PartCrashes \/ EndPart
  BY <1>e, <1>4 DEF PartCrashes, EndPart, Listed
<1>5. CASE UNCHANGED joinedVars
  BY <1>e, <1>5 DEF joinedVars, Listed, Explained, SlotIsGone
<1> QED
  BY <1>1, <1>2, <1>3, <1>4, <1>5 DEF JoinedNext

\* A channel that Twitch has us in is listed, unless it stood behind one that
\* was parted.
THEOREM JoinedListed == JoinedSpec => []JoinedIsListed
<1>1. JoinedInv => JoinedIsListed
  BY DEF JoinedInv, JoinedIsListed
<1> QED
  BY <1>1, JoinedTypeInit, JoinedTypeStep, JoinedInvInit, JoinedInvStep, PTL DEF JoinedSpec

\* Part's loop over the list it erases from ends: each turn brings the index
\* nearer to the end of the list, wherever the slot has moved to.
THEOREM PartEnds ==
  JoinedSpec => [][PartTurn =>
    /\ Len(myJoinedChannels') - at' < Len(myJoinedChannels) - at
    /\ Len(myJoinedChannels') - at' >= -1]_joinedVars
<1>1. ASSUME JoinedTypeOK, PartTurn
      PROVE  /\ Len(myJoinedChannels') - at' < Len(myJoinedChannels) - at
             /\ Len(myJoinedChannels') - at' >= -1
  <2>1. at \in Nat /\ Len(myJoinedChannels) \in Nat /\ at <= Len(myJoinedChannels)
    BY <1>1, JoinListAssumption DEF JoinedTypeOK, PartTurn
  <2>2. CASE Erase
    BY <1>1, <2>1, <2>2, EraseLists DEF Erase
  <2>3. CASE Pass
    BY <2>1, <2>3 DEF Pass
  <2> QED
    BY <1>1, <2>2, <2>3 DEF PartTurn
<1>2. JoinedTypeOK /\ [JoinedNext]_joinedVars =>
        [PartTurn => /\ Len(myJoinedChannels') - at' < Len(myJoinedChannels) - at
                     /\ Len(myJoinedChannels') - at' >= -1]_joinedVars
  BY <1>1
<1> QED
  BY <1>2, ListTyping, PTL DEF JoinedSpec

=============================================================================

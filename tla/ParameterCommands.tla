-------------------------- MODULE ParameterCommands --------------------------
(***************************************************************************)
(* The VRChat commands that look at the avatar's parameters and send what  *)
(* chat asked for: !vrchat bool, float, int, page and speak, and what the  *)
(* bot sends after every chat message, command or not.                     *)
(*                                                                         *)
(* One message is handled at a time, on the main thread. Whether VRChat is *)
(* running may be another answer each time it is asked. The parameters     *)
(* change between messages only (AvatarOsc has the race with the thread    *)
(* that loads them), and each has an input. Whether a command is enabled   *)
(* and off its cooldown is CommandTimers' subject: here it may run or not. *)
(*                                                                         *)
(* A line's end is "\r\n". HandleCommands looks for '\r\n', one character, *)
(* of which only '\n' is left: '\r' stays at the end of the last word of a *)
(* message whose line was received to its end ("whole").                   *)
(***************************************************************************)
EXTENDS Integers, Sequences

CONSTANTS
  Name,         \* names of parameters, spellings included
  Lower,        \* a name in lower-case letters
  FixedName,    \* the name that HandlePRIVMSG looks for
  Spoiled,      \* a name with '\r' after it
  Address,      \* addresses of inputs
  Invalid,      \* what a look-up that finds nothing returns
  NoAddress,    \* what it returns when there are no parameters
  ChatboxInput,
  Word,         \* values chat may give
  NoWord,       \* a word that is not there
  ValidBool,    \* those that !vrchat bool takes
  Off,          \* those of them that stand for false
  HasDigit,     \* those with a digit, or a dot
  AllDots,      \* those of nothing but dots
  AsInt,        \* what std::stoi returns
  AsFloat,      \* what std::stof returns, in tenths
  Unparsable,   \* or that they throw
  Lists,        \* the parameters an avatar may have
  Messages,     \* what chat may say
  IntBound,     \* bound: an int is in -IntBound .. IntBound - 1
  SizeModulus   \* bound: a size_t is in 0 .. SizeModulus - 1

OSCType == {"Bool", "Int", "Float"}
Parameter == [name : Name, type : OSCType, address : Address]
Commands == {"bool", "float", "int", "page", "speak", "other"}
Message ==
  [command : Commands, name : Name \union {NoWord}, value : Word \union {NoWord},
   whole : BOOLEAN, moderator : BOOLEAN]

Ints == -IntBound .. IntBound - 1

ASSUME BoundAssumption ==
  /\ IntBound \in Nat /\ IntBound > 5
  /\ SizeModulus \in Nat /\ SizeModulus > 2 * IntBound

ASSUME NameAssumption ==
  /\ Lower \in [Name -> Name]
  /\ FixedName \in Name /\ \A n \in Name : Lower[n] # FixedName
  /\ Spoiled \notin Name /\ NoWord \notin Name

ASSUME AddressAssumption == {Invalid, NoAddress} \intersect Address = {}

ASSUME WordAssumption ==
  /\ NoWord \notin Word
  /\ Off \subseteq ValidBool /\ ValidBool \subseteq Word
  /\ AsInt \in [Word -> Ints \union {Unparsable}] /\ Unparsable \notin Int
  /\ AsFloat \in [Word -> Int \union {Unparsable}]

ASSUME InputAssumption ==
  /\ Lists \subseteq Seq(Parameter)
  /\ \A l \in Lists : Len(l) < IntBound
  /\ Messages \subseteq Message

VARIABLES
  phase,       \* what the main thread is about to do
  message,
  parameters,  \* myAvatarData.Parameters
  page,        \* the page command's page, i and pageRightIndex
  item,
  right,
  reads,       \* history of this message: elements the page has read
  sent,        \* the datagrams sent to VRChat
  replies      \* what was said in the chat

vars == <<phase, message, parameters, page, item, right, reads, sent, replies>>
pageVars == <<page, item, right, reads>>

Init ==
  /\ phase = "idle"
  /\ message \in Messages
  /\ parameters \in Lists
  /\ page = 0 /\ item = 0 /\ right = 0
  /\ reads = {}
  /\ sent = {}
  /\ replies = {}

\* The next chat message, the parameters being those of the avatar of that time.
Receive(m, l) ==
  /\ phase = "idle"
  /\ phase' = "command"
  /\ message' = m
  /\ parameters' = l
  /\ page' = 0 /\ item' = 0 /\ right' = 0
  /\ reads' = {} /\ sent' = {} /\ replies' = {}

----------------------------------------------------------------------------
(* Words, and the look-up of a parameter                                   *)

LastWord ==
  IF message.value # NoWord THEN "value"
  ELSE IF message.name # NoWord THEN "name" ELSE "command"

\* '\r' follows this word.
Ends(w) == message.whole /\ LastWord = w

WantedName == IF Ends("name") THEN Spoiled ELSE message.name

\* Mutant: the type of the input is not looked at.
MatchingAnyType(name, type) == {i \in DOMAIN parameters : Lower[parameters[i].name] = name}

Matching(name, type) ==
  {i \in DOMAIN parameters : /\ Lower[parameters[i].name] = name
                             /\ parameters[i].type = type}

GetFullParameterName(name, type) ==
  LET found == Matching(name, type)
  IN  IF parameters = << >> THEN NoAddress
      ELSE IF found = {} THEN Invalid
      ELSE parameters[CHOOSE i \in found : \A j \in found : i <= j].address

\* "Try Turning off and on OSC inside vrchat."
Hint == IF parameters = << >> THEN {"hint"} ELSE {}

Reply == {"hint", "notRunning", "notThatType", "validValues", "invalidInput",
          "moderatorOnly", "page"}

Sendable ==
  [by : {"command", "message"}, type : OSCType \union {"Chatbox"},
   address : Address \union {Invalid, NoAddress, ChatboxInput}, value : Int]

Datagram(by, type, address, value) ==
  [by |-> by, type |-> type, address |-> address, value |-> value]

\* A command's last statement: the bot goes on to HandlePRIVMSG.
Return(newSent, newReplies) ==
  /\ phase' = "notify"
  /\ sent' = newSent
  /\ replies' = newReplies
  /\ UNCHANGED <<message, parameters, pageVars>>

\* An exception passes HandlePRIVMSG by; what the message was popped from goes on.
Throw ==
  /\ phase' = "idle"
  /\ UNCHANGED <<message, parameters, pageVars, sent, replies>>

\* HandleCommand finds the command by its name and lets it run.
Calls(c) == phase = "command" /\ message.command = c /\ ~Ends("command")

\* None of these commands, or one that is disabled or on cooldown.
Skip == phase = "command" /\ Return(sent, replies)

----------------------------------------------------------------------------
(* !vrchat bool, float, int, speak                                         *)

BoolCmd(runs) ==
  LET address == GetFullParameterName(WantedName, "Bool")
      valid == message.value \in ValidBool /\ ~Ends("value")
      value == IF message.value \in Off THEN 0 ELSE 1
  IN  /\ Calls("bool")
      /\ IF ~runs THEN Return(sent, {"notRunning"})
         ELSE IF address = Invalid THEN Return(sent, {"notThatType"})
         ELSE IF address = NoAddress THEN Return(sent, Hint)
         ELSE IF valid THEN Return({Datagram("command", "Bool", address, value)}, replies)
         ELSE Return(sent, {"validValues"})

\* A value that is refused before it is converted. With '\r' after them the
\* dots are not all there is.
Refused ==
  \/ message.value = NoWord
  \/ message.value \notin HasDigit
  \/ message.value \in AllDots /\ ~Ends("value")

IntCmd(runs) ==
  LET address == GetFullParameterName(WantedName, "Int")
      value == AsInt[message.value]
  IN  /\ Calls("int")
      /\ \/ ~runs /\ Return(sent, replies)
         \/ runs /\ Refused /\ Return(sent, {"invalidInput"})
         \/ runs /\ ~Refused /\ value = Unparsable /\ Throw
         \/ /\ runs /\ ~Refused /\ value # Unparsable
            /\ IF address = Invalid THEN Return(sent, {"notThatType"})
               ELSE IF address = NoAddress THEN Return(sent, Hint)
               ELSE IF value \in 0 .. 256
               THEN Return({Datagram("command", "Int", address, value)}, replies)
               ELSE Return(sent, replies)

\* The look-up, with its hint, comes before the conversion.
FloatCmd(runs) ==
  LET address == GetFullParameterName(WantedName, "Float")
      value == AsFloat[message.value]
  IN  /\ Calls("float")
      /\ \/ ~runs /\ Return(sent, {"notRunning"})
         \/ runs /\ Refused /\ Return(sent, {"invalidInput"})
         \/ /\ runs /\ ~Refused /\ value = Unparsable
            /\ phase' = "idle"
            /\ replies' = Hint
            /\ UNCHANGED <<message, parameters, pageVars, sent>>
         \/ /\ runs /\ ~Refused /\ value # Unparsable
            /\ IF address = Invalid THEN Return(sent, {"notThatType"})
               ELSE IF address = NoAddress THEN Return(sent, Hint)
               ELSE IF value \in 0 .. 10
               THEN Return({Datagram("command", "Float", address, value)}, replies)
               ELSE Return(sent, replies)

\* A text too long for the buffer makes the packet stream throw.
SpeakCmd(runs, fits) ==
  /\ Calls("speak")
  /\ \/ ~runs /\ Return(sent, replies)
     \/ runs /\ ~message.moderator /\ Return(sent, {"moderatorOnly"})
     \/ runs /\ message.moderator /\ ~fits /\ Throw
     \/ /\ runs /\ message.moderator /\ fits
        /\ Return({Datagram("command", "Chatbox", ChatboxInput, 0)}, replies)

----------------------------------------------------------------------------
(* !vrchat page                                                            *)

Int32(x) == ((x + IntBound) % (2 * IntBound)) - IntBound
SizeT(x) == x % SizeModulus

\* Mutant: a negative page is not set to 0.
FirstIndexUnchecked(p) == Int32(5 * p - 1)

FirstIndex(p) == IF Int32(5 * p - 1) < 0 THEN 0 ELSE Int32(5 * p - 1)

PageCmd(runs) ==
  LET p == IF message.value = NoWord THEN 1 ELSE AsInt[message.value]
  IN  /\ Calls("page")
      /\ \/ ~runs /\ Return(sent, replies)
         \/ runs /\ p = Unparsable /\ Throw
         \/ /\ runs /\ p # Unparsable
            /\ phase' = "item"
            /\ page' = FirstIndex(p)
            /\ UNCHANGED <<message, parameters, item, right, reads, sent, replies>>

\* Parameters[i]. Past the end the read is undefined: what is taken for a name
\* is copied, or the copy throws, or the program crashes.
Read(i) ==
  /\ reads' = reads \union {i}
  /\ \/ phase' = "item" /\ item' = item + 1
     \/ i >= Len(parameters) /\ phase' \in {"idle", "crashed"} /\ UNCHANGED item
  /\ UNCHANGED <<message, parameters, page, right, sent, replies>>

OnPage == SizeT(Int32(page + item)) <= Len(parameters)

Item ==
  /\ phase = "item" /\ item < 5 /\ OnPage
  /\ Read(SizeT(Int32(page + item)))

BeginRight ==
  /\ phase = "item" /\ item < 5 /\ ~OnPage
  /\ phase' = "right"
  /\ right' = page
  /\ UNCHANGED <<message, parameters, page, item, reads, sent, replies>>

\* Mutant: the index need only be in the list, not the five that follow.
TooFarRightOfLast == SizeT(right) >= Len(parameters)

TooFarRight == SizeT(right) >= SizeT(Len(parameters) - 5)

\* Mutant: the index stays.
NoMoveLeft ==
  /\ phase = "right" /\ TooFarRight
  /\ UNCHANGED vars

MoveLeft ==
  /\ phase = "right" /\ TooFarRight
  /\ right' = Int32(right - 1)
  /\ UNCHANGED <<phase, message, parameters, page, item, reads, sent, replies>>

RightItem ==
  /\ phase = "right" /\ ~TooFarRight
  /\ Read(SizeT(Int32(right + item)))

PageReply ==
  /\ phase = "item" /\ item = 5
  /\ Return(sent, {"page"})

----------------------------------------------------------------------------
\* HandlePRIVMSG, for every message: the name is looked for as it is written
\* in the code, among names in lower-case letters.
HandlePRIVMSG(runs) ==
  /\ phase = "notify"
  /\ phase' = "idle"
  /\ IF runs
     THEN /\ sent' = sent \union
               {Datagram("message", "Bool", GetFullParameterName(FixedName, "Bool"), 1)}
          /\ replies' = replies \union Hint
     ELSE /\ replies' = replies \union {"notRunning"}
          /\ UNCHANGED sent
  /\ UNCHANGED <<message, parameters, pageVars>>

Handle ==
  \/ Skip
  \/ \E runs \in BOOLEAN : BoolCmd(runs) \/ IntCmd(runs) \/ FloatCmd(runs) \/ PageCmd(runs)
  \/ \E runs, fits \in BOOLEAN : SpeakCmd(runs, fits)
  \/ Item \/ BeginRight \/ MoveLeft \/ RightItem \/ PageReply
  \/ \E runs \in BOOLEAN : HandlePRIVMSG(runs)

Next == (\E m \in Messages, l \in Lists : Receive(m, l)) \/ Handle

\* The main thread goes on handling a message it has popped.
Spec == Init /\ [][Next]_vars /\ WF_vars(Handle)

----------------------------------------------------------------------------
\* Every variable is in its range; the page's index is never negative, as the
\* check after 5 * page - 1 promises, overflow or not.
TypeOK ==
  /\ phase \in {"idle", "command", "item", "right", "notify", "crashed"}
  /\ message \in Messages
  /\ parameters \in Lists
  /\ page \in 0 .. IntBound - 1
  /\ item \in 0 .. 5
  /\ right \in Ints
  /\ reads \subseteq 0 .. SizeModulus - 1
  /\ sent \subseteq Sendable
  /\ replies \subseteq Reply

\* The lists and pages of which the command says true things: five parameters
\* at least, and a page that does not begin among the last four or just behind
\* the last. "page + i <= size()" lets the others read one past the end.
PageIsSafe ==
  Len(parameters) >= 5 /\ page \notin Len(parameters) - 4 .. Len(parameters)

\* On these, VRChatParameterPageCmd reads parameters that exist, five in a row,
\* though a page beyond the end is read by another index than the others.
PageShowsFiveInARow ==
  PageIsSafe => \E first \in 0 .. Len(parameters) :
    /\ first + item <= Len(parameters)
    /\ reads = first .. (first + item) - 1

\* A command sends at most one datagram: to the first parameter of the list that
\* has the name and the type asked for, with the value asked for and in VRChat's
\* range (an int also as 256). What HandlePRIVMSG sends after every message goes
\* to no parameter.
AskedFor(d) ==
  \E i \in DOMAIN parameters :
    /\ parameters[i].address = d.address
    /\ parameters[i].type = d.type
    /\ Lower[parameters[i].name] = message.name
    /\ \A j \in 1 .. i - 1 :
         Lower[parameters[j].name] = message.name => parameters[j].type # d.type
    /\ CASE d.type = "Bool"  -> /\ message.command = "bool"
                                /\ message.value \in ValidBool
                                /\ d.value = 0 <=> message.value \in Off
         [] d.type = "Int"   -> /\ message.command = "int"
                                /\ d.value = AsInt[message.value]
                                /\ d.value \in 0 .. 256
         [] d.type = "Float" -> /\ message.command = "float"
                                /\ d.value = AsFloat[message.value]
                                /\ d.value \in 0 .. 10

SentAsAsked ==
  /\ \A d \in sent : d.by = "command" =>
       \/ d.type = "Chatbox" /\ message.command = "speak" /\ message.moderator
       \/ d.type # "Chatbox" /\ AskedFor(d)
  /\ \A d \in sent : d.by = "message" =>
       \A i \in DOMAIN parameters : parameters[i].address # d.address
  /\ \A d, e \in sent : d.by = e.by => d = e

\* With five parameters "pageRightIndex >= size() - 5" holds of every index.
RunsOn == phase \in {"item", "right"} /\ Len(parameters) = 5 /\ page # 0

\* The bot is done with every message, but for a page it looks for among five
\* parameters: the loop that moves the index to the left ends.
MessageEnds == phase # "idle" ~> phase \in {"idle", "crashed"} \/ RunsOn

\* What VRChatBoolCmd says of itself: the valid values are 0, false, 1 and true.
\* One of these is never answered with that.
ValidValueTaken == "validValues" \in replies => message.value \notin ValidBool
=============================================================================

----------------------- MODULE ParameterCommandsProofs -----------------------
(***************************************************************************)
(* Proofs for ParameterCommands: the variables keep to their ranges; a     *)
(* page reads parameters that exist, five in a row; what is sent is what   *)
(* chat asked for, and no bool whatever was asked for; and the loops of a  *)
(* page run out, but for one.                                              *)
(***************************************************************************)
EXTENDS ParameterCommands, TLAPS, WellFoundedInduction

LEMMA Remainder ==
  ASSUME NEW m \in Nat, m > 0
  PROVE  /\ \A x \in Int : x % m \in 0 .. m - 1
         /\ \A x \in 0 .. m - 1 : x % m = x
         /\ \A x \in m .. 2 * m - 1 : x % m = x - m
         /\ \A x \in -m .. -1 : x % m = x + m
<1>1. \A x \in Int : x % m \in 0 .. m - 1
  OBVIOUS
<1>2. \A x \in 0 .. m - 1 : x % m = x
  OBVIOUS
<1>3. \A x \in m .. 2 * m - 1 : x % m = x - m
  OBVIOUS
<1>4. \A x \in -m .. -1 : x % m = x + m
  OBVIOUS
<1> QED  BY <1>1, <1>2, <1>3, <1>4

LEMMA Int32Values ==
  /\ \A x \in Int : Int32(x) \in Ints
  /\ \A x \in Ints : Int32(x) = x
  /\ \A x \in IntBound .. IntBound + 4 : Int32(x) = x - 2 * IntBound
<1> DEFINE m == 2 * IntBound
<1>1. m \in Nat /\ m > 0 /\ IntBound \in Nat /\ IntBound > 5
  BY BoundAssumption
<1> HIDE DEF m
<1>2. /\ \A x \in Int : x % m \in 0 .. m - 1
      /\ \A x \in 0 .. m - 1 : x % m = x
      /\ \A x \in m .. 2 * m - 1 : x % m = x - m
  BY <1>1, Remainder
<1>3. \A x : Int32(x) = ((x + IntBound) % m) - IntBound
  BY DEF Int32, m
<1>4. m = 2 * IntBound
  BY DEF m
<1>5. ASSUME NEW x \in Int  PROVE Int32(x) \in Ints
  <2>1. x + IntBound \in Int
    BY <1>1
  <2>2. (x + IntBound) % m \in 0 .. m - 1
    BY <1>2, <2>1
  <2> QED  BY <1>1, <1>3, <1>4, <2>2 DEF Ints
<1>6. ASSUME NEW x \in Ints  PROVE Int32(x) = x
  <2>1. x + IntBound \in 0 .. m - 1 /\ x \in Int
    BY <1>1, <1>4 DEF Ints
  <2>2. (x + IntBound) % m = x + IntBound
    BY <1>2, <2>1
  <2> QED  BY <1>1, <1>3, <2>1, <2>2
<1>7. ASSUME NEW x \in IntBound .. IntBound + 4  PROVE Int32(x) = x - 2 * IntBound
  <2>1. x + IntBound \in m .. 2 * m - 1 /\ x \in Int
    BY <1>1, <1>4
  <2>2. (x + IntBound) % m = (x + IntBound) - m
    BY <1>2, <2>1
  <2> QED  BY <1>1, <1>3, <1>4, <2>1, <2>2
<1> QED  BY <1>5, <1>6, <1>7

LEMMA SizeTValues ==
  /\ \A x \in Int : SizeT(x) \in 0 .. SizeModulus - 1
  /\ \A x \in 0 .. SizeModulus - 1 : SizeT(x) = x
  /\ \A x \in -SizeModulus .. -1 : SizeT(x) = x + SizeModulus
BY BoundAssumption, Remainder DEF SizeT

\* What the variables of a state in range give to arithmetic.
LEMMA Bounds ==
  ASSUME TypeOK
  PROVE  /\ Len(parameters) \in Nat /\ Len(parameters) < IntBound
         /\ IntBound \in Nat /\ SizeModulus \in Nat /\ SizeModulus > 2 * IntBound
         /\ IntBound > 5
         /\ page \in Nat /\ page < IntBound /\ item \in 0 .. 5
         /\ right \in Int /\ right >= -IntBound /\ right < IntBound
         /\ parameters \in Seq(Parameter)
<1>1. parameters \in Seq(Parameter) /\ Len(parameters) < IntBound
  BY InputAssumption DEF TypeOK
<1> QED  BY <1>1, BoundAssumption DEF TypeOK, Ints

\* An index on the page is in the list, or the one past its end; the others lie
\* beyond, overflow or not.
LEMMA OnPageIndex ==
  ASSUME TypeOK, item < 5
  PROVE  /\ OnPage <=> page + item <= Len(parameters)
         /\ OnPage => SizeT(Int32(page + item)) = page + item
<1> DEFINE n == Len(parameters)
<1>1. /\ n \in Nat /\ n < IntBound /\ IntBound \in Nat /\ SizeModulus \in Nat
      /\ SizeModulus > 2 * IntBound /\ page \in Nat /\ page < IntBound
      /\ item \in 0 .. 4 /\ IntBound > 5
  BY Bounds
<1> HIDE DEF n
<1>2. CASE page + item < IntBound
  <2>1. page + item \in Ints /\ page + item \in 0 .. SizeModulus - 1
    BY <1>1, <1>2 DEF Ints
  <2>2. SizeT(Int32(page + item)) = page + item
    BY <2>1, Int32Values, SizeTValues
  <2> QED  BY <2>2 DEF OnPage, n
<1>3. CASE page + item >= IntBound
  <2>1. page + item \in IntBound .. IntBound + 4
    BY <1>1, <1>3
  <2>2. Int32(page + item) = (page + item) - 2 * IntBound
    BY <2>1, Int32Values
  <2> DEFINE o == Int32(page + item)
  <2>3. o \in -SizeModulus .. -1 /\ o > n - SizeModulus
    BY <1>1, <1>3, <2>2
  <2>4. SizeT(o) = o + SizeModulus
    BY <2>3, SizeTValues
  <2> HIDE DEF o
  <2>5. SizeT(o) > n /\ SizeT(o) \in Int
    BY <1>1, <2>3, <2>4
  <2> QED  BY <1>1, <1>3, <2>5 DEF OnPage, n, o
<1> QED  BY <1>1, <1>2, <1>3

\* When the loop over pageRightIndex stops, with six parameters or more.
LEMMA RightStops ==
  ASSUME TypeOK, Len(parameters) >= 5
  PROVE  TooFarRight <=> right < 0 \/ right >= Len(parameters) - 5
<1> DEFINE n == Len(parameters)
<1>1. /\ n \in Nat /\ n < IntBound /\ IntBound \in Nat /\ SizeModulus \in Nat /\ n >= 5
      /\ SizeModulus > 2 * IntBound /\ right \in Int /\ right >= -IntBound
      /\ right < IntBound
  BY Bounds
<1> HIDE DEF n
<1>2. n - 5 \in 0 .. SizeModulus - 1
  BY <1>1
<1>3. SizeT(n - 5) = n - 5
  BY <1>2, SizeTValues
<1>4. CASE right >= 0
  <2>1. right \in 0 .. SizeModulus - 1
    BY <1>1, <1>4
  <2>2. SizeT(right) = right
    BY <2>1, SizeTValues
  <2> QED  BY <1>1, <1>3, <1>4, <2>2 DEF TooFarRight, n
<1>5. CASE right < 0
  <2>1. right \in -SizeModulus .. -1
    BY <1>1, <1>5
  <2>2. SizeT(right) = right + SizeModulus
    BY <2>1, SizeTValues
  <2> QED  BY <1>1, <1>3, <1>5, <2>2 DEF TooFarRight, n
<1> QED  BY <1>1, <1>4, <1>5

LEMMA Smallest ==
  ASSUME NEW S \in SUBSET Nat, S # {}
  PROVE  \E x \in S : \A y \in S : x <= y
<1> DEFINE R == OpToRel(<, Nat)
<1>1. IsWellFoundedOn(R, Nat)
  BY NatLessThanWellFounded
<1>2. \A x, y \in Nat : x < y => <<x, y>> \in R
  BY DEF OpToRel
<1> HIDE DEF R
<1>3. PICK x \in S : \A y \in S : ~ (<<y, x>> \in R)
  BY <1>1, WFMin
<1>4. ASSUME NEW y \in S  PROVE x <= y
  <2>1. ~ (y < x)
    BY <1>2, <1>3
  <2> QED  BY <2>1
<1> QED  BY <1>4

\* What a look-up finds is a parameter's address, of the name and the type.
LEMMA LookUp ==
  ASSUME TypeOK, NEW name, NEW type,
         GetFullParameterName(name, type) \notin {Invalid, NoAddress}
  PROVE  \E i \in DOMAIN parameters :
           /\ parameters[i].address = GetFullParameterName(name, type)
           /\ parameters[i].type = type
           /\ Lower[parameters[i].name] = name
           /\ \A j \in 1 .. i - 1 :
                Lower[parameters[j].name] = name => parameters[j].type # type
<1> DEFINE found == Matching(name, type)
           First(i) == i \in found /\ \A j \in found : i <= j
           k == CHOOSE i \in found : \A j \in found : i <= j
<1>1. DOMAIN parameters = 1 .. Len(parameters) /\ Len(parameters) \in Nat
  BY Bounds
<1>2. found # {} /\ GetFullParameterName(name, type) = parameters[k].address
  BY DEF GetFullParameterName
<1>3. found \in SUBSET Nat
  BY <1>1 DEF Matching
<1>4. \E i \in found : \A j \in found : i <= j
  <2> HIDE DEF found
  <2> QED  BY <1>2, <1>3, Smallest
<1>5. First(k)
  <2> HIDE DEF found
  <2> QED  BY <1>4
<1> HIDE DEF k
<1>6. k \in DOMAIN parameters /\ Lower[parameters[k].name] = name /\ parameters[k].type = type
  BY <1>5 DEF Matching
<1>7. ASSUME NEW j \in 1 .. k - 1, Lower[parameters[j].name] = name,
             parameters[j].type = type
      PROVE  FALSE
  <2>1. j \in DOMAIN parameters
    BY <1>1, <1>6
  <2>2. k <= j
    BY <1>5, <1>7, <2>1 DEF Matching
  <2> QED  BY <1>1, <1>6, <2>2
<1> QED  BY <1>2, <1>6, <1>7

\* ... which the message has named.
LEMMA Named ==
  ASSUME TypeOK, NEW type, GetFullParameterName(WantedName, type) \notin {Invalid, NoAddress}
  PROVE  /\ GetFullParameterName(WantedName, type) \in Address
         /\ \E i \in DOMAIN parameters :
              /\ parameters[i].address = GetFullParameterName(WantedName, type)
              /\ parameters[i].type = type
              /\ Lower[parameters[i].name] = message.name
              /\ \A j \in 1 .. i - 1 :
                   Lower[parameters[j].name] = message.name => parameters[j].type # type
<1>1. PICK i \in DOMAIN parameters :
        /\ parameters[i].address = GetFullParameterName(WantedName, type)
        /\ parameters[i].type = type
        /\ Lower[parameters[i].name] = WantedName
        /\ \A j \in 1 .. i - 1 :
             Lower[parameters[j].name] = WantedName => parameters[j].type # type
  BY LookUp
<1>2. parameters \in Seq(Parameter)
  BY Bounds
<1>3. parameters[i] \in Parameter
  BY <1>2
<1>4. parameters[i].address \in Address /\ Lower[parameters[i].name] \in Name
  BY <1>3, NameAssumption DEF Parameter
<1>5. WantedName = message.name
  BY <1>1, <1>4, NameAssumption DEF WantedName
<1> QED  BY <1>1, <1>4, <1>5

\* The name that HandlePRIVMSG looks for is no parameter's in lower case.
LEMMA NotFound ==
  ASSUME TypeOK
  PROVE  GetFullParameterName(FixedName, "Bool") \in {Invalid, NoAddress}
<1>1. parameters \in Seq(Parameter)
  BY Bounds
<1>2. ASSUME NEW i \in DOMAIN parameters  PROVE Lower[parameters[i].name] # FixedName
  <2>1. parameters[i] \in Parameter
    BY <1>1
  <2> QED  BY <2>1, NameAssumption DEF Parameter
<1>3. Matching(FixedName, "Bool") = {}
  BY <1>2 DEF Matching
<1> QED  BY <1>3 DEF GetFullParameterName

----------------------------------------------------------------------------
(* The inductive invariant                                                 *)

Safe == Len(parameters) >= 5

\* The elements read so far, from the page's first or, beyond the end, from
\* the sixth from the end.
PageInv ==
  /\ phase = "command" => item = 0 /\ reads = {}
  /\ phase = "right" => item < 5 /\ page + item > Len(parameters)
  /\ Safe /\ page <= Len(parameters) - 5 => reads = page .. (page + item) - 1
  /\ Safe /\ page > Len(parameters) =>
       /\ reads = Len(parameters) - 6 .. (Len(parameters) - 6 + item) - 1
       /\ Len(parameters) = 5 => item = 0
       /\ phase = "right" /\ Len(parameters) # 5 => right >= Len(parameters) - 6

SentInv ==
  /\ phase \in {"command", "item", "right"} => sent = {}
  /\ phase = "notify" => \A d \in sent : d.by = "command"
  /\ SentAsAsked

IInv == TypeOK /\ PageInv /\ SentInv

LEMMA InitInv == Init => IInv
<1> SUFFICES ASSUME Init PROVE IInv
  OBVIOUS
<1>1. TypeOK
  BY BoundAssumption DEF Init, TypeOK, Ints
<1>2. Len(parameters) \in Nat
  BY <1>1, Bounds
<1>3. PageInv
  BY <1>2 DEF Init, PageInv, Safe
<1>4. SentInv
  BY DEF Init, SentInv, SentAsAsked
<1> QED  BY <1>1, <1>3, <1>4 DEF IInv

\* A new message begins with nothing read and nothing sent.
LEMMA ReceiveInv ==
  ASSUME IInv, NEW m \in Messages, NEW l \in Lists, Receive(m, l)
  PROVE  IInv'
<1>1. TypeOK'
  BY BoundAssumption DEF IInv, Receive, TypeOK, Ints
<1>2. Len(parameters') \in Nat
  BY InputAssumption DEF Receive
<1>3. PageInv'
  BY <1>2 DEF Receive, PageInv, Safe
<1>4. SentInv'
  BY DEF Receive, SentInv, SentAsAsked
<1> QED  BY <1>1, <1>3, <1>4 DEF IInv

LEMMA SameMessage ==
  ASSUME UNCHANGED <<message, parameters, sent>>, SentAsAsked
  PROVE  SentAsAsked'
<1>1. \A e : AskedFor(e) => AskedFor(e)'
  BY DEF AskedFor
<1> QED  BY <1>1 DEF SentAsAsked

\* A command that ends without a datagram, or with an exception.
LEMMA ReturnInv ==
  ASSUME IInv, phase \in {"command", "item"}, NEW r \in SUBSET Reply,
         Return(sent, r)
  PROVE  IInv'
<1>1. TypeOK'
  BY DEF IInv, Return, TypeOK, pageVars
<1>2. PageInv'
  BY DEF IInv, Return, PageInv, Safe, pageVars
<1>3. SentInv'
  BY SameMessage DEF IInv, Return, SentInv, pageVars
<1> QED  BY <1>1, <1>2, <1>3 DEF IInv

LEMMA EndInv ==
  ASSUME IInv, phase' \in {"idle", "crashed"}, replies' \subseteq Reply,
         UNCHANGED <<message, parameters, pageVars, sent>>
  PROVE  IInv'
<1>1. TypeOK'
  BY DEF IInv, TypeOK, pageVars
<1>2. PageInv'
  BY DEF IInv, PageInv, Safe, pageVars
<1>3. SentInv'
  BY SameMessage DEF IInv, SentInv, pageVars
<1> QED  BY <1>1, <1>2, <1>3 DEF IInv

LEMMA RepliesInv == TypeOK => replies \subseteq Reply /\ Hint \subseteq Reply
BY DEF TypeOK, Hint, Reply

\* A command that ends with a datagram that was asked for.
Asked(d) ==
  /\ d \in Sendable /\ d.by = "command"
  /\ \/ d.type = "Chatbox" /\ message.command = "speak" /\ message.moderator
     \/ d.type # "Chatbox" /\ AskedFor(d)

LEMMA SendInv ==
  ASSUME IInv, phase = "command", NEW d, Asked(d), Return({d}, replies)
  PROVE  IInv'
<1>1. TypeOK'
  BY DEF IInv, Return, TypeOK, pageVars, Asked
<1>2. PageInv'
  BY DEF IInv, Return, PageInv, Safe, pageVars
<1>3. SentInv'
  <2>1. sent' = {d} /\ phase' = "notify" /\ d.by = "command"
        /\ UNCHANGED <<message, parameters>>
    BY DEF Return, Asked
  <2>2. \A e : AskedFor(e) => AskedFor(e)'
    BY <2>1 DEF AskedFor
  <2>3. \/ d.type = "Chatbox" /\ message'.command = "speak" /\ message'.moderator
        \/ d.type # "Chatbox" /\ AskedFor(d)'
    BY <2>1, <2>2 DEF Asked
  <2>4. SentAsAsked'
    BY <2>1, <2>3 DEF SentAsAsked
  <2> QED  BY <2>1, <2>4 DEF SentInv
<1> QED  BY <1>1, <1>2, <1>3 DEF IInv

----------------------------------------------------------------------------
(* The commands                                                            *)

LEMMA NotRefused ==
  ASSUME TypeOK, ~Refused
  PROVE  message.value \in Word /\ AsInt[message.value] \in Int \union {Unparsable}
         /\ AsFloat[message.value] \in Int \union {Unparsable}
<1>1. message \in Message
  BY InputAssumption DEF TypeOK
<1>2. message.value \in Word
  BY <1>1 DEF Message, Refused
<1>3. AsInt[message.value] \in Ints \union {Unparsable}
      /\ AsFloat[message.value] \in Int \union {Unparsable}
  BY <1>2, WordAssumption
<1>4. Ints \subseteq Int
  BY BoundAssumption DEF Ints
<1> QED  BY <1>2, <1>3, <1>4

LEMMA SkipInv == ASSUME IInv, Skip PROVE IInv'
BY ReturnInv, RepliesInv DEF Skip, IInv

LEMMA BoolInv ==
  ASSUME IInv, NEW runs \in BOOLEAN, BoolCmd(runs)
  PROVE  IInv'
<1> DEFINE address == GetFullParameterName(WantedName, "Bool")
           value == IF message.value \in Off THEN 0 ELSE 1
           d == Datagram("command", "Bool", address, value)
<1>1. TypeOK /\ phase = "command" /\ phase \in {"command", "item"}
      /\ message.command = "bool"
  BY DEF BoolCmd, Calls, IInv
<1>2. {{"notRunning"}, {"notThatType"}, {"validValues"}, Hint} \subseteq SUBSET Reply
  BY DEF Hint, Reply
<1>3. CASE \E r \in {{"notRunning"}, {"notThatType"}, {"validValues"}, Hint} :
             Return(sent, r)
  <2>1. PICK r \in {{"notRunning"}, {"notThatType"}, {"validValues"}, Hint} :
           Return(sent, r)
    BY <1>3
  <2>2. r \in SUBSET Reply
    BY <1>2, <2>1
  <2> QED  BY <1>1, <2>1, <2>2, ReturnInv
<1>4. CASE /\ address \notin {Invalid, NoAddress} /\ message.value \in ValidBool
           /\ Return({d}, replies)
  <2>1. /\ address \in Address
        /\ \E i \in DOMAIN parameters :
             /\ parameters[i].address = address
             /\ parameters[i].type = "Bool"
             /\ Lower[parameters[i].name] = message.name
             /\ \A j \in 1 .. i - 1 :
                  Lower[parameters[j].name] = message.name => parameters[j].type # "Bool"
    BY <1>1, <1>4, Named
  <2> HIDE DEF address
  <2>2. d \in Sendable
    BY <2>1 DEF Datagram, Sendable, OSCType
  <2>3. AskedFor(d)
    BY <1>1, <1>4, <2>1 DEF Datagram, AskedFor
  <2>4. Asked(d)
    BY <2>2, <2>3 DEF Asked, Datagram
  <2> HIDE DEF d
  <2> QED  BY <1>1, <1>4, <2>4, SendInv
<1> QED  BY <1>3, <1>4 DEF BoolCmd

LEMMA ThrowInv == ASSUME IInv, phase = "command", Throw PROVE IInv'
BY EndInv, RepliesInv DEF Throw, IInv

LEMMA IntInv ==
  ASSUME IInv, NEW runs \in BOOLEAN, IntCmd(runs)
  PROVE  IInv'
<1> DEFINE address == GetFullParameterName(WantedName, "Int")
           value == AsInt[message.value]
           d == Datagram("command", "Int", address, value)
           quiet == {replies, {"invalidInput"}, {"notThatType"}, Hint}
<1>1. TypeOK /\ phase = "command" /\ phase \in {"command", "item"}
      /\ message.command = "int"
  BY DEF IntCmd, Calls, IInv
<1>2. quiet \subseteq SUBSET Reply
  BY <1>1, RepliesInv DEF Hint, Reply
<1>3. CASE \E r \in quiet : Return(sent, r)
  <2>1. PICK r \in quiet : Return(sent, r)
    BY <1>3
  <2>2. r \in SUBSET Reply
    BY <1>2, <2>1
  <2> QED  BY <1>1, <2>1, <2>2, ReturnInv
<1>4. CASE Throw
  BY <1>1, <1>4, ThrowInv
<1>5. CASE /\ address \notin {Invalid, NoAddress} /\ ~Refused /\ value # Unparsable
           /\ value \in 0 .. 256 /\ Return({d}, replies)
  <2>1. /\ address \in Address
        /\ \E i \in DOMAIN parameters :
             /\ parameters[i].address = address
             /\ parameters[i].type = "Int"
             /\ Lower[parameters[i].name] = message.name
             /\ \A j \in 1 .. i - 1 :
                  Lower[parameters[j].name] = message.name => parameters[j].type # "Int"
    BY <1>1, <1>5, Named
  <2>2. value \in Int
    BY <1>5
  <2> HIDE DEF address
  <2>3. d \in Sendable
    BY <2>1, <2>2 DEF Datagram, Sendable, OSCType
  <2>4. AskedFor(d)
    BY <1>1, <1>5, <2>1 DEF Datagram, AskedFor
  <2>5. Asked(d)
    BY <2>3, <2>4 DEF Asked, Datagram
  <2> HIDE DEF d
  <2> QED  BY <1>1, <1>5, <2>5, SendInv
<1> QED  BY <1>3, <1>4, <1>5 DEF IntCmd

LEMMA FloatInv ==
  ASSUME IInv, NEW runs \in BOOLEAN, FloatCmd(runs)
  PROVE  IInv'
<1> DEFINE address == GetFullParameterName(WantedName, "Float")
           value == AsFloat[message.value]
           d == Datagram("command", "Float", address, value)
           quiet == {replies, {"notRunning"}, {"invalidInput"}, {"notThatType"}, Hint}
<1>1. TypeOK /\ phase = "command" /\ phase \in {"command", "item"}
      /\ message.command = "float"
  BY DEF FloatCmd, Calls, IInv
<1>2. quiet \subseteq SUBSET Reply
  BY <1>1, RepliesInv DEF Hint, Reply
<1>3. CASE \E r \in quiet : Return(sent, r)
  <2>1. PICK r \in quiet : Return(sent, r)
    BY <1>3
  <2>2. r \in SUBSET Reply
    BY <1>2, <2>1
  <2> QED  BY <1>1, <2>1, <2>2, ReturnInv
<1>4. CASE phase' = "idle" /\ replies' = Hint
           /\ UNCHANGED <<message, parameters, pageVars, sent>>
  BY <1>1, <1>4, EndInv, RepliesInv
<1>5. CASE /\ address \notin {Invalid, NoAddress} /\ ~Refused /\ value # Unparsable
           /\ value \in 0 .. 10 /\ Return({d}, replies)
  <2>1. /\ address \in Address
        /\ \E i \in DOMAIN parameters :
             /\ parameters[i].address = address
             /\ parameters[i].type = "Float"
             /\ Lower[parameters[i].name] = message.name
             /\ \A j \in 1 .. i - 1 :
                  Lower[parameters[j].name] = message.name => parameters[j].type # "Float"
    BY <1>1, <1>5, Named
  <2>2. value \in Int
    BY <1>5
  <2> HIDE DEF address
  <2>3. d \in Sendable
    BY <2>1, <2>2 DEF Datagram, Sendable, OSCType
  <2>4. AskedFor(d)
    BY <1>1, <1>5, <2>1 DEF Datagram, AskedFor
  <2>5. Asked(d)
    BY <2>3, <2>4 DEF Asked, Datagram
  <2> HIDE DEF d
  <2> QED  BY <1>1, <1>5, <2>5, SendInv
<1> QED  BY <1>3, <1>4, <1>5 DEF FloatCmd

LEMMA SpeakInv ==
  ASSUME IInv, NEW runs \in BOOLEAN, NEW fits \in BOOLEAN, SpeakCmd(runs, fits)
  PROVE  IInv'
<1> DEFINE d == Datagram("command", "Chatbox", ChatboxInput, 0)
<1>1. TypeOK /\ phase = "command" /\ phase \in {"command", "item"}
      /\ message.command = "speak"
  BY DEF SpeakCmd, Calls, IInv
<1>2. CASE Return(sent, replies)
  BY <1>1, <1>2, ReturnInv, RepliesInv
<1>3. CASE Return(sent, {"moderatorOnly"})
  BY <1>1, <1>3, ReturnInv DEF Reply
<1>4. CASE Throw
  BY <1>1, <1>4, ThrowInv
<1>5. CASE message.moderator /\ Return({d}, replies)
  <2>1. d \in Sendable
    BY DEF Datagram, Sendable
  <2>2. Asked(d)
    BY <1>1, <1>5, <2>1 DEF Asked, Datagram
  <2> HIDE DEF d
  <2> QED  BY <1>1, <1>5, <2>2, SendInv
<1> QED  BY <1>2, <1>3, <1>4, <1>5 DEF SpeakCmd

----------------------------------------------------------------------------
(* The page                                                                *)

LEMMA FirstIndexType == \A p \in Int : FirstIndex(p) \in 0 .. IntBound - 1
<1> SUFFICES ASSUME NEW p \in Int  PROVE FirstIndex(p) \in 0 .. IntBound - 1
  OBVIOUS
<1> DEFINE o == Int32(5 * p - 1)
<1>1. o \in Ints
  BY Int32Values
<1>2. FirstIndex(p) = IF o < 0 THEN 0 ELSE o
  BY DEF FirstIndex
<1> HIDE DEF o
<1> QED  BY <1>1, <1>2, BoundAssumption DEF Ints

LEMMA PageCommandInv ==
  ASSUME IInv, NEW runs \in BOOLEAN, PageCmd(runs)
  PROVE  IInv'
<1> DEFINE p == IF message.value = NoWord THEN 1 ELSE AsInt[message.value]
<1>1. TypeOK /\ phase = "command" /\ phase \in {"command", "item"}
  BY DEF PageCmd, Calls, IInv
<1>2. CASE Return(sent, replies)
  BY <1>1, <1>2, ReturnInv, RepliesInv
<1>3. CASE Throw
  BY <1>1, <1>3, ThrowInv
<1>4. CASE /\ p # Unparsable /\ phase' = "item" /\ page' = FirstIndex(p)
           /\ UNCHANGED <<message, parameters, item, right, reads, sent, replies>>
  <2>1. message.value \in Word \union {NoWord}
    BY <1>1, InputAssumption DEF TypeOK, Message
  <2>2. p \in Int
    BY <1>4, <2>1, WordAssumption, BoundAssumption DEF Ints
  <2> HIDE DEF p
  <2>3. page' \in 0 .. IntBound - 1
    BY <1>4, <2>2, FirstIndexType
  <2>4. TypeOK'
    BY <1>4, <2>3 DEF IInv, TypeOK
  <2>5. Len(parameters) \in Nat /\ IntBound \in Nat
    BY <1>1, Bounds
  <2>6. item = 0 /\ reads = {}
    BY <1>1 DEF IInv, PageInv
  <2>7. PageInv'
    BY <1>4, <2>3, <2>5, <2>6 DEF PageInv, Safe
  <2>8. SentInv'
    BY <1>1, <1>4, SameMessage DEF IInv, SentInv
  <2> QED  BY <2>4, <2>7, <2>8 DEF IInv
<1> QED  BY <1>2, <1>3, <1>4 DEF PageCmd

\* One more element is read, the one that comes next or one past the end.
LEMMA ReadInv ==
  ASSUME IInv, phase \in {"item", "right"}, item < 5, NEW i \in 0 .. SizeModulus - 1,
         Read(i),
         Safe /\ page <= Len(parameters) - 5 => i = page + item,
         Safe /\ page > Len(parameters) =>
           Len(parameters) # 5 /\ i = (Len(parameters) - 6) + item
  PROVE  IInv'
<1>1. /\ Len(parameters) \in Nat /\ item \in 0 .. 4 /\ page \in Nat
      /\ reads \subseteq 0 .. SizeModulus - 1 /\ TypeOK
  BY Bounds DEF IInv, TypeOK
<1>2. TypeOK'
  <2>1. reads' \subseteq 0 .. SizeModulus - 1
    BY <1>1 DEF Read
  <2>2. item' \in 0 .. 5
    BY <1>1 DEF Read
  <2>3. phase' \in {"idle", "command", "item", "right", "notify", "crashed"}
    BY DEF Read
  <2> QED  BY <1>1, <2>1, <2>2, <2>3 DEF Read, TypeOK
<1>3. PageInv'
  <2>1. phase' \notin {"command", "right"}
    BY DEF Read
  <2>2. ASSUME Safe, page <= Len(parameters) - 5
        PROVE  reads' = page .. (page + item') - 1
    <3>1. reads = page .. (page + item) - 1 /\ i = page + item
      BY <2>2 DEF IInv, PageInv
    <3>2. i < Len(parameters)
      BY <1>1, <2>2, <3>1
    <3>3. item' = item + 1 /\ reads' = reads \union {i}
      BY <1>1, <3>2 DEF Read
    <3> QED  BY <1>1, <3>1, <3>3
  <2>3. ASSUME Safe, page > Len(parameters)
        PROVE  /\ reads' = Len(parameters) - 6 .. (Len(parameters) - 6 + item') - 1
               /\ Len(parameters) # 5
    <3>1. /\ reads = Len(parameters) - 6 .. (Len(parameters) - 6 + item) - 1
          /\ i = (Len(parameters) - 6) + item /\ Len(parameters) # 5
      BY <2>3 DEF IInv, PageInv
    <3>2. i < Len(parameters)
      BY <1>1, <3>1
    <3>3. item' = item + 1 /\ reads' = reads \union {i}
      BY <1>1, <3>2 DEF Read
    <3> QED  BY <1>1, <3>1, <3>3
  <2>4. UNCHANGED <<page, parameters>>
    BY DEF Read
  <2> QED  BY <2>1, <2>2, <2>3, <2>4 DEF PageInv, Safe
<1>4. SentInv'
  <2>1. UNCHANGED <<message, parameters, sent>> /\ phase' # "notify"
    BY DEF Read
  <2> QED  BY <2>1, SameMessage DEF IInv, SentInv
<1> QED  BY <1>2, <1>3, <1>4 DEF IInv

LEMMA ItemInv == ASSUME IInv, Item PROVE IInv'
<1>1. TypeOK /\ phase = "item" /\ item < 5 /\ OnPage
  BY DEF IInv, Item
<1>2. /\ page + item <= Len(parameters) /\ SizeT(Int32(page + item)) = page + item
  BY <1>1, OnPageIndex
<1>3. /\ Len(parameters) \in Nat /\ IntBound \in Nat /\ SizeModulus \in Nat
      /\ SizeModulus > 2 * IntBound /\ Len(parameters) < IntBound
      /\ item \in 0 .. 4 /\ page \in Nat
  BY <1>1, Bounds
<1>4. page + item \in 0 .. SizeModulus - 1 /\ ~(page > Len(parameters))
  BY <1>2, <1>3
<1>5. Read(page + item)
  BY <1>2 DEF Item
<1> QED  BY <1>1, <1>4, <1>5, ReadInv

LEMMA BeginRightInv == ASSUME IInv, BeginRight PROVE IInv'
<1>1. TypeOK /\ phase = "item" /\ item < 5 /\ page + item > Len(parameters)
  <2>1. TypeOK /\ phase = "item" /\ item < 5 /\ ~OnPage
    BY DEF IInv, BeginRight
  <2>2. ~(page + item <= Len(parameters))
    BY <2>1, OnPageIndex
  <2>3. Len(parameters) \in Nat /\ page \in Nat /\ item \in 0 .. 5
    BY <2>1, Bounds
  <2> QED  BY <2>1, <2>2, <2>3
<1>2. Len(parameters) \in Nat /\ page \in Nat /\ page < IntBound /\ IntBound \in Nat
  BY <1>1, Bounds
<1>3. TypeOK'
  <2>1. right' \in Ints
    BY <1>2 DEF BeginRight, Ints
  <2> QED  BY <1>1, <2>1 DEF BeginRight, TypeOK
<1>4. PageInv'
  BY <1>1, <1>2 DEF IInv, PageInv, Safe, BeginRight
<1>5. SentInv'
  BY <1>1, SameMessage DEF IInv, SentInv, BeginRight
<1> QED  BY <1>3, <1>4, <1>5 DEF IInv

LEMMA MoveLeftInv == ASSUME IInv, MoveLeft PROVE IInv'
<1>1. /\ TypeOK /\ Len(parameters) \in Nat /\ right \in Int /\ right >= -IntBound
      /\ right < IntBound /\ IntBound \in Nat /\ IntBound > 5
      /\ Len(parameters) < IntBound
  BY Bounds DEF IInv
<1>2. right' \in Ints
  BY <1>1, Int32Values DEF MoveLeft
<1>3. TypeOK'
  BY <1>1, <1>2 DEF MoveLeft, TypeOK
<1>4. ASSUME Len(parameters) >= 5, right >= Len(parameters) - 6, right \in Int,
             Len(parameters) # 5
      PROVE  right' >= Len(parameters) - 6
  <2>1. right >= Len(parameters) - 5
    <3>1. right < 0 \/ right >= Len(parameters) - 5
      BY <1>1, <1>4, RightStops DEF MoveLeft
    <3>2. PICK n \in Nat : n = Len(parameters)
      BY <1>1
    <3> QED  BY <1>1, <1>4, <3>1, <3>2
  <2>2. right - 1 \in Ints
    BY <1>1, <1>4, <2>1 DEF Ints
  <2>3. right' = right - 1
    BY <2>2, Int32Values DEF MoveLeft
  <2> QED  BY <1>1, <2>1, <2>3
<1>6. PageInv'
  BY <1>1, <1>4 DEF IInv, PageInv, Safe, MoveLeft
<1>7. SentInv'
  BY SameMessage DEF IInv, SentInv, MoveLeft
<1> QED  BY <1>3, <1>6, <1>7 DEF IInv

LEMMA RightItemInv == ASSUME IInv, RightItem PROVE IInv'
<1> DEFINE i == SizeT(Int32(right + item))
<1>1. /\ TypeOK /\ phase = "right" /\ item < 5 /\ page + item > Len(parameters)
      /\ ~TooFarRight /\ Read(i)
  BY DEF IInv, PageInv, RightItem
<1>2. /\ Len(parameters) \in Nat /\ right \in Int /\ IntBound \in Nat
      /\ SizeModulus \in Nat /\ SizeModulus > 2 * IntBound
      /\ Len(parameters) < IntBound /\ item \in 0 .. 4 /\ page \in Nat
  BY <1>1, Bounds
<1>3. i \in 0 .. SizeModulus - 1
  <2>1. right + item \in Int
    BY <1>2
  <2>2. Int32(right + item) \in Int
    BY <2>1, Int32Values, BoundAssumption DEF Ints
  <2> QED  BY <2>2, SizeTValues
<1>4. ~(page <= Len(parameters) - 5)
  BY <1>1, <1>2
<1>5. ASSUME Safe, page > Len(parameters)
      PROVE  Len(parameters) # 5 /\ i = (Len(parameters) - 6) + item
  <2>1. right >= 0 /\ right < Len(parameters) - 5
    BY <1>1, <1>2, <1>5, RightStops DEF Safe
  <2>2. right = Len(parameters) - 6
    <3>1. PICK n \in Nat : n = Len(parameters)
      BY <1>2
    <3>2. n # 5
      <4>1. right \in Int /\ right >= 0 /\ right < n - 5
        BY <1>2, <2>1, <3>1
      <4> QED  BY <4>1
    <3>3. right >= n - 6
      BY <1>1, <1>5, <3>1, <3>2 DEF IInv, PageInv
    <3> QED  BY <1>2, <2>1, <3>1, <3>3
  <2>3. right + item \in Ints /\ right + item \in 0 .. SizeModulus - 1
    BY <1>2, <2>1 DEF Ints
  <2>4. i = right + item
    BY <2>3, Int32Values, SizeTValues
  <2> QED  BY <1>2, <2>1, <2>2, <2>4
<1> HIDE DEF i
<1> QED  BY <1>1, <1>3, <1>4, <1>5, ReadInv

LEMMA PageReplyInv == ASSUME IInv, PageReply PROVE IInv'
BY ReturnInv DEF PageReply, Reply

\* What is sent after every message goes to no parameter.
LEMMA NotifyInv ==
  ASSUME IInv, NEW runs \in BOOLEAN, HandlePRIVMSG(runs)
  PROVE  IInv'
<1> DEFINE a == GetFullParameterName(FixedName, "Bool")
           d == Datagram("message", "Bool", a, 1)
<1>1. TypeOK /\ phase = "notify" /\ phase' = "idle" /\ SentAsAsked
      /\ (\A e \in sent : e.by = "command")
      /\ UNCHANGED <<message, parameters, pageVars>>
  BY DEF IInv, SentInv, HandlePRIVMSG
<1>2. replies' \subseteq Reply
  BY <1>1, RepliesInv DEF HandlePRIVMSG, Reply
<1>3. CASE UNCHANGED sent
  BY <1>1, <1>2, <1>3, EndInv
<1>4. CASE sent' = sent \union {d}
  <2>1. a \in {Invalid, NoAddress}
    BY <1>1, NotFound
  <2> HIDE DEF a
  <2>2. d \in Sendable /\ d.by = "message" /\ d.address = a
    BY <2>1 DEF Datagram, Sendable, OSCType
  <2>3. \A i \in DOMAIN parameters : parameters[i].address # a
    <3>1. parameters \in Seq(Parameter)
      BY <1>1, Bounds
    <3>2. \A i \in DOMAIN parameters : parameters[i] \in Parameter
      BY <3>1
    <3>3. \A i \in DOMAIN parameters : parameters[i].address \in Address
      BY <3>2 DEF Parameter
    <3> QED  BY <2>1, <3>3, AddressAssumption
  <2> HIDE DEF d
  <2>4. TypeOK'
    BY <1>1, <1>2, <1>4, <2>2 DEF TypeOK, pageVars
  <2>5. PageInv'
    BY <1>1 DEF IInv, PageInv, Safe, pageVars
  <2>6. SentAsAsked'
    <3>1. \A e : AskedFor(e) => AskedFor(e)'
      BY <1>1 DEF AskedFor
    <3>2. \A e \in sent' : e.by = "command" =>
            \/ e.type = "Chatbox" /\ message'.command = "speak" /\ message'.moderator
            \/ e.type # "Chatbox" /\ AskedFor(e)'
      BY <1>1, <1>4, <2>2, <3>1 DEF SentAsAsked
    <3>3. \A e \in sent' : e.by = "message" =>
            \A i \in DOMAIN parameters' : parameters'[i].address # e.address
      BY <1>1, <1>4, <2>2, <2>3
    <3>4. \A e, f \in sent' : e.by = f.by => e = f
      BY <1>1, <1>4, <2>2 DEF SentAsAsked
    <3> QED  BY <3>2, <3>3, <3>4 DEF SentAsAsked
  <2>7. SentInv'
    BY <1>1, <2>6 DEF SentInv
  <2> QED  BY <2>4, <2>5, <2>7 DEF IInv
<1> QED  BY <1>3, <1>4 DEF HandlePRIVMSG

LEMMA StutterInv == ASSUME IInv, UNCHANGED vars PROVE IInv'
<1>1. TypeOK'
  BY DEF IInv, TypeOK, vars
<1>2. PageInv'
  BY DEF IInv, PageInv, Safe, vars
<1>3. SentInv'
  BY SameMessage DEF IInv, SentInv, vars
<1> QED  BY <1>1, <1>2, <1>3 DEF IInv

LEMMA NextInv == IInv /\ [Next]_vars => IInv'
<1> SUFFICES ASSUME IInv, [Next]_vars PROVE IInv'
  OBVIOUS
<1>1. CASE \E m \in Messages, l \in Lists : Receive(m, l)
  BY <1>1, ReceiveInv
<1>2. CASE Skip
  BY <1>2, SkipInv
<1>3. CASE \E runs \in BOOLEAN : BoolCmd(runs) \/ IntCmd(runs) \/ FloatCmd(runs) \/ PageCmd(runs)
  BY <1>3, BoolInv, IntInv, FloatInv, PageCommandInv
<1>4. CASE \E runs, fits \in BOOLEAN : SpeakCmd(runs, fits)
  BY <1>4, SpeakInv
<1>5. CASE Item \/ BeginRight \/ MoveLeft \/ RightItem \/ PageReply
  BY <1>5, ItemInv, BeginRightInv, MoveLeftInv, RightItemInv, PageReplyInv
<1>6. CASE \E runs \in BOOLEAN : HandlePRIVMSG(runs)
  BY <1>6, NotifyInv
<1>7. CASE UNCHANGED vars
  BY <1>7, StutterInv
<1> QED  BY <1>1, <1>2, <1>3, <1>4, <1>5, <1>6, <1>7 DEF Next, Handle

----------------------------------------------------------------------------
(* The theorems                                                            *)

THEOREM Invariance == Spec => []IInv
BY InitInv, NextInv, PTL DEF Spec

\* The variables of the commands keep to their ranges: the page's first index
\* is never negative, whatever number chat gives and however 5 * page overflows.
THEOREM ParameterTyping == Spec => []TypeOK
<1>1. IInv => TypeOK
  BY DEF IInv
<1> QED  BY <1>1, Invariance, PTL

\* A page reads parameters that exist, five in a row, with any list of five or
\* more and any page that does not begin among the last four or just behind them.
THEOREM PageInARow == Spec => []PageShowsFiveInARow
<1>1. IInv => PageShowsFiveInARow
  <2> SUFFICES ASSUME IInv, PageIsSafe
               PROVE  \E first \in 0 .. Len(parameters) :
                        /\ first + item <= Len(parameters)
                        /\ reads = first .. (first + item) - 1
    BY Zenon DEF PageShowsFiveInARow
  <2>1. Len(parameters) \in Nat /\ page \in Nat /\ item \in 0 .. 5
    BY Bounds DEF IInv
  <2>2. Len(parameters) >= 5 /\ Safe
    BY DEF PageIsSafe, Safe
  <2>3. CASE page <= Len(parameters) - 5
    <3>1. reads = page .. (page + item) - 1
      BY <2>2, <2>3 DEF IInv, PageInv
    <3>2. page \in 0 .. Len(parameters) /\ page + item <= Len(parameters)
      BY <2>1, <2>3
    <3> QED  BY <3>1, <3>2
  <2>4. CASE page > Len(parameters)
    <3> DEFINE first == Len(parameters) - 6
    <3>1. /\ reads = first .. (first + item) - 1
          /\ Len(parameters) = 5 => item = 0
      BY <2>2, <2>4 DEF IInv, PageInv
    <3>2. CASE Len(parameters) = 5
      <4>1. reads = 0 .. (0 + item) - 1 /\ 0 + item <= Len(parameters)
            /\ 0 \in 0 .. Len(parameters)
        BY <3>1, <3>2
      <4> QED  BY <4>1
    <3>3. CASE Len(parameters) # 5
      <4>1. PICK n \in Nat : n = Len(parameters)
        BY <2>1
      <4>2. first \in 0 .. Len(parameters) /\ first + item <= Len(parameters)
        BY <2>1, <2>2, <3>3, <4>1
      <4> HIDE DEF first
      <4> QED  BY <3>1, <4>2
    <3> QED  BY <3>2, <3>3
  <2> QED  BY <2>1, <2>2, <2>3, <2>4 DEF PageIsSafe
<1> QED  BY <1>1, Invariance, PTL

\* A command sends only what chat asked for, to a parameter of that name and
\* type; what follows every message reaches no parameter of any avatar.
THEOREM AsAsked == Spec => []SentAsAsked
<1>1. IInv => SentAsAsked
  BY DEF IInv, SentInv
<1> QED  BY <1>1, Invariance, PTL

----------------------------------------------------------------------------
(* How long a message takes                                                *)

\* The most that moving to the left and reading one parameter can take.
Turn == IntBound + 1

\* A bound on the steps the main thread still takes for a message.
StepsLeft ==
  CASE phase = "command" -> 5 * Turn + 3
    [] phase = "item"    -> (5 - item) * Turn + 2
    [] phase = "right"   -> (4 - item) * Turn + 3 + right
    [] phase = "notify"  -> 1
    [] OTHER             -> 0

\* The index that moves to the left stays in the page, unless it runs on.
RightInv ==
  phase = "right" =>
    /\ item < 5
    /\ Len(parameters) # 5 => right \in 0 .. page
    /\ Len(parameters) = 5 => page # 0

LEMMA Turns ==
  /\ Turn \in Nat /\ Turn > IntBound
  /\ \A k \in 0 .. 5 : (5 - k) * Turn \in Nat /\ (5 - k) * Turn <= 5 * Turn
  /\ \A k \in 0 .. 4 : /\ (4 - k) * Turn \in Nat
                       /\ (5 - k) * Turn = (4 - k) * Turn + Turn
                       /\ (5 - (k + 1)) * Turn = (4 - k) * Turn
<1>1. Turn \in Nat /\ Turn > IntBound
  BY BoundAssumption DEF Turn
<1>2. ASSUME NEW k \in 0 .. 5  PROVE (5 - k) * Turn \in Nat /\ (5 - k) * Turn <= 5 * Turn
  <2>1. k = 0 \/ k = 1 \/ k = 2 \/ k = 3 \/ k = 4 \/ k = 5
    OBVIOUS
  <2> QED  BY <1>1, <2>1
<1>3. ASSUME NEW k \in 0 .. 4
      PROVE  /\ (4 - k) * Turn \in Nat
             /\ (5 - k) * Turn = (4 - k) * Turn + Turn
             /\ (5 - (k + 1)) * Turn = (4 - k) * Turn
  <2>1. k = 0 \/ k = 1 \/ k = 2 \/ k = 3 \/ k = 4
    OBVIOUS
  <2> QED  BY <1>1, <2>1
<1> QED  BY <1>1, <1>2, <1>3

\* When the loop over pageRightIndex stops with fewer than five parameters: at once.
LEMMA RightStopsAtOnce ==
  ASSUME TypeOK, Len(parameters) < 5, right >= 0
  PROVE  ~TooFarRight
<1> DEFINE n == Len(parameters)
<1>1. /\ n \in Nat /\ n < 5 /\ IntBound \in Nat /\ SizeModulus \in Nat /\ IntBound > 5
      /\ SizeModulus > 2 * IntBound /\ right \in Int /\ right < IntBound
  BY Bounds
<1> HIDE DEF n
<1>2. n - 5 \in -SizeModulus .. -1 /\ right \in 0 .. SizeModulus - 1
  BY <1>1
<1>3. SizeT(n - 5) = n - 5 + SizeModulus /\ SizeT(right) = right
  BY <1>2, SizeTValues
<1> QED  BY <1>1, <1>3 DEF TooFarRight, n

\* One step of the loop, with any number of parameters but five.
LEMMA MovesLeft ==
  ASSUME TypeOK, RightInv, MoveLeft, Len(parameters) # 5
  PROVE  right > 0 /\ right' = right - 1
<1>1. /\ phase = "right" /\ right \in 0 .. page /\ page \in Nat /\ right \in Int
      /\ right < IntBound /\ IntBound \in Nat /\ TooFarRight
  BY Bounds DEF RightInv, MoveLeft
<1>2. PICK n \in Nat : n = Len(parameters)
  BY Bounds
<1>3. ~(n < 5)
  BY <1>1, <1>2, RightStopsAtOnce
<1>4. right < 0 \/ right >= n - 5
  BY <1>1, <1>2, <1>3, RightStops
<1>5. right > 0 /\ right - 1 \in Ints
  BY <1>1, <1>2, <1>3, <1>4 DEF Ints
<1> QED  BY <1>5, Int32Values DEF MoveLeft

\* The first page of five parameters never leaves the list.
LEMMA FirstPageOfFive ==
  ASSUME TypeOK, BeginRight, Len(parameters) = 5
  PROVE  page # 0
<1>1. item < 5 /\ ~OnPage /\ page \in Nat /\ item \in 0 .. 5
  BY Bounds DEF BeginRight
<1>2. ~(page + item <= Len(parameters))
  BY <1>1, OnPageIndex
<1> QED  BY <1>1, <1>2

LEMMA RightInvNext ==
  ASSUME TypeOK, RightInv, [Next]_vars
  PROVE  RightInv'
<1>1. CASE BeginRight
  <2>1. item < 5 /\ right' = page /\ page \in Nat /\ UNCHANGED <<parameters, page, item>>
    BY <1>1, Bounds DEF BeginRight
  <2>2. Len(parameters) = 5 => page # 0
    BY <1>1, FirstPageOfFive
  <2> QED  BY <2>1, <2>2 DEF RightInv
<1>2. CASE MoveLeft
  <2>1. UNCHANGED <<parameters, page, item, phase>> /\ phase = "right" /\ page \in Nat
    BY <1>2, Bounds DEF MoveLeft
  <2>2. Len(parameters) # 5 => right' \in 0 .. page
    <3>1. right \in Int
      BY Bounds
    <3> QED  BY <1>2, <2>1, <3>1, MovesLeft DEF RightInv
  <2> QED  BY <2>1, <2>2 DEF RightInv
<1>3. CASE UNCHANGED vars
  BY <1>3 DEF RightInv, vars
<1>4. CASE ~BeginRight /\ ~MoveLeft /\ ~UNCHANGED vars
  <2>1. phase' # "right"
    BY <1>4 DEF Next, Handle, Receive, Skip, Return, Throw, BoolCmd, IntCmd, FloatCmd,
                PageCmd, SpeakCmd, Item, RightItem, Read, PageReply, HandlePRIVMSG
  <2> QED  BY <2>1 DEF RightInv
<1> QED  BY <1>1, <1>2, <1>3, <1>4

\* One conjunct per phase: what is left, in each.
LEMMA StepsIn ==
  /\ phase = "command" => StepsLeft = 5 * Turn + 3
  /\ phase = "item" => StepsLeft = (5 - item) * Turn + 2
  /\ phase = "right" => StepsLeft = (4 - item) * Turn + 3 + right
  /\ phase = "notify" => StepsLeft = 1
  /\ phase \in {"idle", "crashed"} => StepsLeft = 0
BY DEF StepsLeft

LEMMA StepsInNext ==
  /\ phase' = "item" => StepsLeft' = (5 - item') * Turn + 2
  /\ phase' = "right" => StepsLeft' = (4 - item') * Turn + 3 + right'
  /\ phase' = "notify" => StepsLeft' = 1
  /\ phase' \in {"idle", "crashed"} => StepsLeft' = 0
BY DEF StepsLeft, Turn

LEMMA StepsInNat == TypeOK /\ RightInv => StepsLeft \in Nat \/ RunsOn
<1> SUFFICES ASSUME TypeOK, RightInv  PROVE StepsLeft \in Nat \/ RunsOn
  OBVIOUS
<1>1. /\ item \in 0 .. 5 /\ right \in Int /\ page \in Nat
      /\ phase \in {"idle", "command", "item", "right", "notify", "crashed"}
  BY Bounds DEF TypeOK
<1>2. CASE phase = "right"
  <2>1. CASE Len(parameters) = 5
    BY <1>2, <2>1 DEF RightInv, RunsOn
  <2>2. CASE Len(parameters) # 5
    <3>1. item \in 0 .. 4 /\ right \in Nat
      BY <1>1, <1>2, <2>2 DEF RightInv
    <3> DEFINE rest == (4 - item) * Turn
    <3>2. rest \in Nat /\ StepsLeft = rest + 3 + right
      BY <1>2, <3>1, Turns, StepsIn
    <3> HIDE DEF rest
    <3> QED  BY <3>1, <3>2
  <2> QED  BY <2>1, <2>2
<1>3. CASE phase = "item"
  <2> DEFINE rest == (5 - item) * Turn
  <2>1. rest \in Nat /\ StepsLeft = rest + 2
    BY <1>1, <1>3, Turns, StepsIn
  <2> HIDE DEF rest
  <2> QED  BY <2>1
<1>4. CASE phase \notin {"item", "right"}
  BY <1>1, <1>4, Turns, StepsIn
<1> QED  BY <1>2, <1>3, <1>4

\* Reading an element takes a step of the five.
LEMMA ReadStep ==
  ASSUME TypeOK, item < 5, NEW i, Read(i), phase \in {"item", "right"},
         phase = "right" => right >= 0
  PROVE  StepsLeft' < StepsLeft
<1> DEFINE rest == (4 - item) * Turn
<1>1. item \in 0 .. 4 /\ right \in Int
  BY Bounds
<1>2. /\ rest \in Nat /\ Turn \in Nat /\ Turn > 0
      /\ (5 - item) * Turn = rest + Turn /\ (5 - (item + 1)) * Turn = rest
  BY <1>1, Turns, BoundAssumption
<1>3. /\ phase = "item" => StepsLeft = (5 - item) * Turn + 2
      /\ phase = "right" => StepsLeft = rest + 3 + right
  BY StepsIn
<1>4. \/ phase' \in {"idle", "crashed"} /\ StepsLeft' = 0
      \/ StepsLeft' = (5 - (item + 1)) * Turn + 2
  BY StepsInNext DEF Read
<1> HIDE DEF rest
<1> QED  BY <1>1, <1>2, <1>3, <1>4

LEMMA HandleStep ==
  ASSUME TypeOK, RightInv, Handle, ~RunsOn
  PROVE  StepsLeft' < StepsLeft
<1>0. /\ Turn \in Nat /\ Turn > IntBound /\ IntBound \in Nat /\ item \in 0 .. 5
      /\ page \in Nat /\ page < IntBound /\ right \in Int
  BY Turns, Bounds
<1>1. CASE phase = "command"
  <2> DEFINE all == 5 * Turn
  <2>1. StepsLeft = all + 3 /\ all \in Nat
    BY <1>0, <1>1, StepsIn
  <2>2. \/ phase' \in {"notify", "idle"}
        \/ phase' = "item" /\ UNCHANGED item
    BY <1>1 DEF Handle, Skip, Return, Throw, BoolCmd, IntCmd, FloatCmd, PageCmd, SpeakCmd,
                Item, BeginRight, MoveLeft, RightItem, PageReply, HandlePRIVMSG
  <2>3. CASE phase' \in {"notify", "idle"}
    BY <2>1, <2>3, StepsInNext
  <2>4. CASE phase' = "item" /\ UNCHANGED item
    <3> DEFINE rest == (5 - item) * Turn
    <3>1. rest \in Nat /\ rest <= all /\ StepsLeft' = rest + 2
      BY <1>0, <2>4, Turns, StepsInNext
    <3> HIDE DEF rest, all
    <3> QED  BY <2>1, <3>1
  <2> QED  BY <2>2, <2>3, <2>4
<1>2. CASE Item
  BY <1>2, ReadStep DEF Item
<1>3. CASE BeginRight
  <2> DEFINE rest == (4 - item) * Turn
  <2>1. item \in 0 .. 4 /\ phase = "item" /\ phase' = "right" /\ UNCHANGED item /\ right' = page
    BY <1>0, <1>3 DEF BeginRight
  <2>2. rest \in Nat /\ (5 - item) * Turn = rest + Turn
    BY <2>1, Turns
  <2>3. StepsLeft = (5 - item) * Turn + 2 /\ StepsLeft' = rest + 3 + page
    BY <2>1, StepsIn, StepsInNext
  <2> HIDE DEF rest
  <2> QED  BY <1>0, <2>2, <2>3
<1>4. CASE MoveLeft
  <2> DEFINE rest == (4 - item) * Turn
  <2>1. phase = "right" /\ phase' = "right" /\ UNCHANGED item
    BY <1>4 DEF MoveLeft
  <2>2. item \in 0 .. 4 /\ Len(parameters) # 5
    BY <1>0, <2>1 DEF RightInv, RunsOn
  <2>3. right' = right - 1
    BY <1>4, <2>2, MovesLeft
  <2>4. rest \in Nat /\ StepsLeft = rest + 3 + right /\ StepsLeft' = rest + 3 + right'
    BY <2>1, <2>2, Turns, StepsIn, StepsInNext
  <2> HIDE DEF rest
  <2> QED  BY <1>0, <2>3, <2>4
<1>5. CASE RightItem
  <2>1. phase = "right" /\ item < 5 /\ Len(parameters) # 5 /\ right >= 0
    BY <1>0, <1>5 DEF RightItem, RightInv, RunsOn
  <2> QED  BY <1>5, <2>1, ReadStep DEF RightItem
<1>6. CASE PageReply
  <2> DEFINE rest == (5 - item) * Turn
  <2>1. phase = "item" /\ phase' = "notify"
    BY <1>6 DEF PageReply, Return
  <2>2. rest \in Nat /\ StepsLeft = rest + 2 /\ StepsLeft' = 1
    BY <1>0, <2>1, Turns, StepsIn, StepsInNext
  <2> HIDE DEF rest
  <2> QED  BY <2>2
<1>7. CASE phase = "notify"
  <2>1. phase' = "idle"
    BY <1>7 DEF Handle, Skip, BoolCmd, IntCmd, FloatCmd, PageCmd, SpeakCmd, Calls,
                Item, BeginRight, MoveLeft, RightItem, PageReply, HandlePRIVMSG
  <2> QED  BY <1>7, <2>1, StepsIn, StepsInNext
<1> QED
  BY <1>1, <1>2, <1>3, <1>4, <1>5, <1>6, <1>7
  DEF Handle, Skip, BoolCmd, IntCmd, FloatCmd, PageCmd, SpeakCmd, Calls, HandlePRIVMSG

THEOREM RightInvariance == Spec => []RightInv
<1>1. Init => RightInv
  BY DEF Init, RightInv
<1> QED  BY <1>1, RightInvNext, ParameterTyping, PTL DEF Spec

\* What VRChatParameterPageCmd loops over runs out, with any list and any page:
\* each step the bot takes for a message leaves it a smaller number of steps, and
\* none below 0, but for a page beyond the first of exactly five parameters.
THEOREM StepsRunOut ==
  Spec => [](StepsLeft \in Nat \/ RunsOn) /\ [][Handle => StepsLeft' < StepsLeft \/ RunsOn]_vars
<1>1. TypeOK /\ RightInv /\ [Next]_vars => [Handle => StepsLeft' < StepsLeft \/ RunsOn]_vars
  BY HandleStep
<1> QED  BY <1>1, StepsInNat, RightInvariance, ParameterTyping, PTL DEF Spec

\* And there it does not end: "pageRightIndex >= size() - 5" is true of every
\* unsigned index, so the main thread moves to the left for ever.
THEOREM FiveRunOn ==
  Spec => [][phase = "right" /\ Len(parameters) = 5 =>
               phase' = "right" /\ UNCHANGED parameters]_vars
<1>1. ASSUME TypeOK, Next, phase = "right", Len(parameters) = 5
      PROVE  phase' = "right" /\ UNCHANGED parameters
  <2>1. right \in Int
    BY <1>1, Bounds
  <2>2. TooFarRight
    BY <1>1, <2>1, RightStops
  <2> QED
    BY <1>1, <2>2
    DEF Next, Handle, Receive, Skip, BoolCmd, IntCmd, FloatCmd, PageCmd, SpeakCmd, Calls,
        Item, BeginRight, MoveLeft, RightItem, PageReply, HandlePRIVMSG
<1>2. TypeOK /\ [Next]_vars => [phase = "right" /\ Len(parameters) = 5 =>
                                  phase' = "right" /\ UNCHANGED parameters]_vars
  BY <1>1
<1> QED  BY <1>2, ParameterTyping, PTL DEF Spec

----------------------------------------------------------------------------
(* What a line's end does to !vrchat bool                                  *)

\* ParameterCommands!ValidValueTaken is refuted by the bool_values run; this is
\* the part of it that is true, and how much of it is not.
NoBoolSent ==
  /\ message.whole => \A d \in sent : ~(d.by = "command" /\ d.type = "Bool")
  /\ ~message.whole => ValidValueTaken

\* Most steps send no such datagram and do not name the valid values.
LEMMA NoBoolSentKept ==
  ASSUME NoBoolSent, UNCHANGED message,
         \A d \in sent' : d \in sent \/ ~(d.by = "command" /\ d.type = "Bool"),
         "validValues" \in replies' => "validValues" \in replies
  PROVE  NoBoolSent'
BY DEF NoBoolSent, ValidValueTaken

LEMMA NoBoolSentStep ==
  ASSUME NoBoolSent, NEW runs \in BOOLEAN, BoolCmd(runs)
  PROVE  NoBoolSent'
<1> DEFINE valid == message.value \in ValidBool /\ ~Ends("value")
<1>1. UNCHANGED message
  BY DEF BoolCmd, Return
<1>2. message.whole => ~valid
  BY WordAssumption DEF Ends, LastWord
<1>3. ~message.whole => (valid <=> message.value \in ValidBool)
  BY DEF Ends
<1>4. \/ sent' = sent /\ "validValues" \notin replies'
      \/ valid /\ replies' = replies
      \/ ~valid /\ sent' = sent
  BY DEF BoolCmd, Return, Hint
<1> HIDE DEF valid
<1>5. CASE sent' = sent /\ "validValues" \notin replies'
  BY <1>1, <1>5, NoBoolSentKept
<1>6. CASE valid /\ replies' = replies
  BY <1>1, <1>2, <1>6 DEF NoBoolSent, ValidValueTaken
<1>7. CASE ~valid /\ sent' = sent
  BY <1>1, <1>3, <1>7 DEF NoBoolSent, ValidValueTaken
<1> QED  BY <1>4, <1>5, <1>6, <1>7

LEMMA NoBoolSentNext == NoBoolSent /\ [Next]_vars => NoBoolSent'
<1> SUFFICES ASSUME NoBoolSent, [Next]_vars  PROVE NoBoolSent'
  OBVIOUS
<1>1. CASE \E m \in Messages, l \in Lists : Receive(m, l)
  BY <1>1 DEF Receive, NoBoolSent, ValidValueTaken
<1>2. CASE \E runs \in BOOLEAN : BoolCmd(runs)
  BY <1>2, NoBoolSentStep
<1>3. CASE \E runs \in BOOLEAN : HandlePRIVMSG(runs)
  <2>1. /\ UNCHANGED message
        /\ \A d \in sent' : d \in sent \/ d.by = "message"
        /\ "validValues" \in replies' => "validValues" \in replies
    BY <1>3 DEF HandlePRIVMSG, Hint, Datagram
  <2> QED  BY <2>1, NoBoolSentKept
<1>4. CASE \/ Skip \/ Item \/ BeginRight \/ MoveLeft \/ RightItem \/ PageReply
           \/ UNCHANGED vars \/ \E runs \in BOOLEAN : PageCmd(runs)
  <2>1. UNCHANGED <<message, sent>> /\ ("validValues" \in replies' => "validValues" \in replies)
    BY <1>4 DEF Skip, Item, BeginRight, MoveLeft, RightItem, PageReply, PageCmd, Return, Throw,
                Read, vars
  <2> QED  BY <2>1, NoBoolSentKept
<1>5. CASE \/ \E runs \in BOOLEAN : IntCmd(runs) \/ FloatCmd(runs)
           \/ \E runs, fits \in BOOLEAN : SpeakCmd(runs, fits)
  <2>1. /\ UNCHANGED message
        /\ \A d \in sent' : d \in sent \/ d.type # "Bool"
        /\ "validValues" \in replies' => "validValues" \in replies
    BY <1>5 DEF IntCmd, FloatCmd, SpeakCmd, Return, Throw, Hint, Datagram
  <2> QED  BY <2>1, NoBoolSentKept
<1> QED  BY <1>1, <1>2, <1>3, <1>4, <1>5 DEF Next, Handle

\* No line that was received to its end makes !vrchat bool send anything, with
\* any avatar and any words: '\r' is at the end of the value, or of the name. And
\* it is only the '\r' that makes the command refuse one of its valid values.
THEOREM WholeLinesSetNoBool == Spec => []NoBoolSent
<1>1. Init => NoBoolSent
  BY DEF Init, NoBoolSent, ValidValueTaken
<1> QED  BY <1>1, NoBoolSentNext, PTL DEF Spec
=============================================================================

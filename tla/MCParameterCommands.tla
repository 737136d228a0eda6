------------------------- MODULE MCParameterCommands -------------------------
(***************************************************************************)
(* Avatars with up to fourteen parameters; two names of which one is also  *)
(* spelled with upper-case letters, of two types each; pages before the    *)
(* first, in the list, at its end, beyond it, and that overflow.           *)
(***************************************************************************)
EXTENDS ParameterCommands

MCName == {"hat", "Hat", "tail", "Fixed", "fixed"}
MCLower == [n \in MCName |-> IF n = "Hat" THEN "hat" ELSE IF n = "Fixed" THEN "fixed" ELSE n]

MCAddresses == {"/hat/bool", "/hat/int", "/hat/int/2", "/tail/float", "/fixed"}

Input(n, t, a) == [name |-> n, type |-> t, address |-> a]

Avatar ==
  <<Input("Hat", "Int", "/hat/int"), Input("hat", "Bool", "/hat/bool"),
    Input("hat", "Int", "/hat/int/2"), Input("Fixed", "Bool", "/fixed"),
    Input("tail", "Float", "/tail/float")>>

\* The first n parameters, over and over.
Worn(n) == [i \in 1 .. n |-> Avatar[((i - 1) % 5) + 1]]

MCLists == {Worn(n) : n \in {0, 1, 4, 5, 6, 7, 9, 10, 14}}

MCValidBool == {"0", "1", "true", "false"}
MCOff == {"0", "false"}
MCNumber == [n \in {"0", "1", "-2", "2", "3", "7", "14", "19"} |->
  CASE n = "0" -> 0 [] n = "1" -> 1 [] n = "-2" -> -2 [] n = "2" -> 2 [] n = "3" -> 3
    [] n = "7" -> 7 [] n = "14" -> 14 [] n = "19" -> 19]
MCWord == DOMAIN MCNumber \union {"true", "false", "x1", "..", "0.5"}
MCHasDigit == MCWord \ {"true", "false"}
MCAllDots == {".."}
MCAsInt == [w \in MCWord |-> IF w \in DOMAIN MCNumber THEN MCNumber[w]
                             ELSE IF w = "0.5" THEN 0 ELSE Unparsable]
MCAsFloat == [w \in MCWord |-> IF w \in DOMAIN MCNumber THEN 10 * MCNumber[w]
                               ELSE IF w = "0.5" THEN 5 ELSE Unparsable]

Say(c, n, v) ==
  {[command |-> c, name |-> n, value |-> v, whole |-> w, moderator |-> m] :
     w \in BOOLEAN, m \in {c = "speak", FALSE}}

MCMessages ==
  UNION (
    {Say("bool", n, v) : n \in {"hat", "fixed"}, v \in {"0", "1", "true", "3", NoWord}}
    \union {Say("int", n, v) : n \in {"hat", "tail"}, v \in {"3", "-2", "x1", "..", "true"}}
    \union {Say("float", n, v) : n \in {"hat", "tail"}, v \in {"0.5", "2", "x1", NoWord}}
    \union {Say("page", NoWord, v) : v \in (DOMAIN MCNumber \union {"true", NoWord})}
    \union {Say("speak", NoWord, "true"), Say("other", NoWord, NoWord)})
=============================================================================

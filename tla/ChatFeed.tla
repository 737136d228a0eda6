------------------------------- MODULE ChatFeed -------------------------------
(***************************************************************************)
(* What the Twitch client promises the bots: what is said in a channel, in *)
(* the order in which it was said and nothing twice. Some may be lost.     *)
(***************************************************************************)
EXTENDS Integers, Sequences

CONSTANT Line

VARIABLE handled

Init == handled = << >>

Handle(l) ==
  /\ \A i \in DOMAIN handled : handled[i] < l
  /\ handled' = Append(handled, l)

Next == \E l \in Line : Handle(l)

Spec == Init /\ [][Next]_handled
=============================================================================

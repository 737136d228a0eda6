--------------------------- MODULE MCTwitchSession ---------------------------
(* A USERSTATE, a notice, a subscriber's line, somebody joining, a viewer's  *)
(* line, and a PING.                                                         *)
EXTENDS TwitchSession

MCLine == 1 .. 6
MCChatLine == {3, 5}
MCChannel == [l \in MCLine |-> "a"]
MCTags == [l \in MCLine |-> [subscriber |-> l = 3, months |-> l = 3]]

Pieces(l) ==
  CASE l = 1 -> <<"info", "mod", "subscriber", "server">>
    [] l = 2 -> <<"server", "channel", "said">>
    [] l = 4 -> <<"user", "host", "word">>
    [] l = 6 -> <<"ping">>
    [] OTHER -> <<"info", "mod", "subscriber", "user", "host", "word", "channel", "said">>

HalvesOf(l) ==
  [i \in 1 .. 2 * Len(Pieces(l)) |->
     [line |-> l, piece |-> Pieces(l)[(i + 1) \div 2], half |-> 2 - (i % 2)]]

MCStream ==
  HalvesOf(1) \o HalvesOf(2) \o HalvesOf(3) \o HalvesOf(4) \o HalvesOf(5) \o HalvesOf(6)
=============================================================================

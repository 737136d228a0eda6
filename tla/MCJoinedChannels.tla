--------------------------- MODULE MCJoinedChannels ---------------------------
(* Three channels, two of them in the settings file; the list may hold each  *)
(* channel more than once.                                                   *)
EXTENDS JoinedChannels

CONSTANTS c1, c2, c3

MCChannel == {c1, c2, c3}
MCJoinList == <<c1, c2>>
=============================================================================

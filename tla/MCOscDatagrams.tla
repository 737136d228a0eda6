---------------------------- MODULE MCOscDatagrams ----------------------------
(* Addresses with and without padding to spare, a text that fills the buffer *)
(* and one that exceeds it, and datagrams that end too early.                *)
EXTENDS OscDatagrams

CONSTANTS a3, a4, a8, t1, t3, t4, v

MCAddress == {a3, a4, a8}
MCText == {t1, t3, t4}
MCValue == {v}
MCStringLength ==
  [s \in MCAddress \cup MCText |->
     CASE s = t1 -> 1 [] s \in {a3, t3} -> 3 [] s \in {a4, t4} -> 4 [] OTHER -> 8]

\* No terminator; no argument; an unknown tag; an empty one.
MCForeign ==
  {<<Char(a4, 1), Char(a4, 2)>>,
   Chars(a3) \o <<Nul, Comma, Tag("s")>>,
   Padded(a3) \o <<Comma, Comma, Nul, Nul>>,
   << >>}

MCGarbage ==
  {[i \in 0 .. BufferSize - 1 |-> c] : c \in {Nul, Char(t1, 1)}}
=============================================================================

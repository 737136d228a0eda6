------------------------------ MODULE MCAvatarOsc ------------------------------
(* Two avatars with a parameter in common, and one whose file is unreadable. *)
EXTENDS AvatarOsc

CONSTANTS a1, a2, a3, p, q, r

MCAvatar == {a1, a2, a3}
MCUnreadable == {a3}
MCName == {p, q, r}
MCOutputOnly == {q}
MCParameters ==
  [a \in MCAvatar |-> CASE a = a1 -> <<p, q>>
                        [] a = a2 -> <<r, p, r>>
                        [] OTHER  -> << >>]
=============================================================================

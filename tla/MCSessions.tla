----------------------------- MODULE MCSessions -----------------------------
(* Sessions with three connections, two accounts, two descriptor numbers   *)
(* and two workers: the third connection reuses a number.                  *)
EXTENDS Sessions, TLC
CONSTANTS c1, c2, c3, u1, u2
MCClients == {c1, c2, c3}
MCUsers == {u1, u2}
MCFds == {3, 4}
MCOneUser == {u1}
MCTwoClients == {c1, c2}
MCTwoSymmetry == Permutations(MCTwoClients) \cup Permutations(MCUsers)
MCSymmetry == Permutations(MCClients) \cup Permutations(MCUsers)
=============================================================================

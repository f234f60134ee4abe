------------------------------- MODULE MCChats ------------------------------
(* Chats with three members of a group, two of whom are friends.           *)
EXTENDS Chats, TLC
CONSTANTS u1, u2, u3, w1, w2
MCUsers == {u1, u2, u3}
MCWorkers == {w1, w2}
MCSymmetry == Permutations(MCWorkers)
MCPresent == {u1, u3}
MCFriends == {{u1, u2}}
=============================================================================

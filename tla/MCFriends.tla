------------------------------ MODULE MCFriends ------------------------------
(* Friends with two accounts and two workers; u1 has asked u2 before.       *)
EXTENDS Friends
CONSTANTS u1, u2
MCUsers == {u1, u2}
MCPending == [u \in MCUsers |-> IF u = u2 THEN {u1} ELSE {}]
=============================================================================

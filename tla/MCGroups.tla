------------------------------ MODULE MCGroups ------------------------------
(* Groups with three accounts, of which the first creates groups and the     *)
(* others apply for membership, one name for a group and one identifier.     *)
EXTENDS Groups
CONSTANTS u1, u2, u3, g1, id1
MCUsers == {u1, u2, u3}
MCFounders == {u1}
MCApplicants == {u2, u3}
MCNobody == {}
MCNames == {g1}
MCUuids == {id1}
MCOthers == Permutations({u2, u3})
=============================================================================

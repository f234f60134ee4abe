------------------------------- MODULE MCFiles -------------------------------
(* Files with one sender, a friend and a group of two others.              *)
EXTENDS Files
CONSTANTS u1, u2, u3, g
MCUsers == {u1, u2, u3}
MCSenders == {u1}
MCAudience == [n \in {u2, g} |-> IF n = g THEN {u2, u3} ELSE {u2}]
MCUp == [n \in {u2, g} |-> IF n = g THEN 1 ELSE 2]
=============================================================================

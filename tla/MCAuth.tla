------------------------------- MODULE MCAuth -------------------------------
(* Auth with two clients and two names, one of which is registered, and two *)
(* mailboxes: whoever is at c2 reads the mails of c1's user as well.        *)
EXTENDS Auth
CONSTANTS c1, c2, n1, n2, b1, b2
MCClients == {c1, c2}
MCMortal == {c2}
MCForms == [c \in MCClients |-> IF c = c1 THEN 2 ELSE 1]
MCNames == {n1, n2}
MCMailboxes == {b1, b2}
MCReads == [c \in MCClients |-> IF c = c1 THEN {b1} ELSE {b1, b2}]
MCTyped == [c \in MCClients |-> IF c = c1 THEN MCNames \X {b1} ELSE {<< n1, b2 >>}]
MCExisting == [n \in MCNames |-> IF n = n1 THEN << c1, n1 >> ELSE NoInfo]
=============================================================================

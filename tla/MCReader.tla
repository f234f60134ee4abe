------------------------------ MODULE MCReader ------------------------------
(* Reader with small frames and a small socket.                            *)
EXTENDS Reader
=============================================================================

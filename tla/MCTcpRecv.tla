------------------------------ MODULE MCTcpRecv ------------------------------
(* Two messages of three words, each word 0 or 1.                            *)
EXTENDS TcpRecv
=============================================================================

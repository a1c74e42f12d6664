----------------------------- MODULE MCTcpSocket -----------------------------
(* Instances of TcpSocket for TLC. *)
EXTENDS TcpSocket

BothOrigins == {"connect", "accept"}
OnlyConnect == {"connect"}
==============================================================================

------------------------------ MODULE MCAcpConn ------------------------------
(* An instance of AcpConn for TLC. *)
EXTENDS AcpConn
=============================================================================

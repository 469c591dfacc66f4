---------------------------- MODULE MCTcpClient ----------------------------
(***************************************************************************)
(* TcpClient with the inactivity time-out on and a handful of upsets: one  *)
(* ends a connection, one makes its successor late, one ends that.         *)
(***************************************************************************)
EXTENDS TcpClient
=============================================================================

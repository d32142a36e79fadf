------------------------------ MODULE MCServer ------------------------------
(* The server with two clients and every kind of statement. *)
EXTENDS Server

AllKinds == {"help", "sql", "open", "close", "exit"}
=============================================================================

------------------------------ MODULE MCRwLatch ------------------------------
(* Four threads, each reader or writer as it likes.                           *)
EXTENDS RwLatch
==============================================================================

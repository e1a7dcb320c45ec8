-------------------------- MODULE MCSessionRegistry --------------------------
(* Small instances of SessionRegistry: the connections of one or two DTUs.   *)
EXTENDS SessionRegistry
=============================================================================

------------------------------ MODULE MCBridge ------------------------------
(* An instance of Bridge: two calls of one server or of two, of the same   *)
(* version or of two, and a daemon of any of three versions, the last with *)
(* another protocol.                                                       *)
EXTENDS Bridge

MCProtocolOf == [v \in Versions |-> IF v = 3 THEN 2 ELSE 1]
=============================================================================

-------------------------- MODULE MCSessionBridge --------------------------
(* Instances of SessionBridge for TLC.                                     *)
EXTENDS SessionBridge, TLC

CONSTANTS b1, b2, b3, k1, k2, c1

(* A client that reconnects under the same key, as the registry allows,    *)
(* next to an unrelated session.                                           *)
TwoKeys == (b1 :> k1) @@ (b2 :> k1) @@ (b3 :> k2)
=============================================================================

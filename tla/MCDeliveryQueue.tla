--------------------------- MODULE MCDeliveryQueue ---------------------------
(* Constants for TLC: a message of two payloads, delivered plainly or as   *)
(* best effort, with a hook that cancels its second payload or none.       *)
EXTENDS DeliveryQueue, TLC

CONSTANT long

MCPayloads == (long :> 2)
MCOptions  == {[bestEffort |-> FALSE, onError |-> FALSE, mirror |-> TRUE],
               [bestEffort |-> TRUE, onError |-> TRUE, mirror |-> FALSE]}
MCHooked   == {{}, {<<long, 2>>}}
=============================================================================

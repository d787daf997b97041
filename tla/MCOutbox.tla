------------------------------ MODULE MCOutbox ------------------------------
(* Three events, the server's worker (with handlers) and others. *)
EXTENDS Outbox

CONSTANTS server, worker, index, notify, revised

AllTopics == {index, notify, revised}
RevisedFirst == <<revised, index, notify>>
RevisedTwice == <<revised, revised, index>>

(* Every worker runs inside a server. *)
Servers == [w \in Workers |-> {index, notify}]
(* A standalone worker has no handlers. *)
OneServer == [w \in Workers |-> IF w = server THEN {index, notify} ELSE {}]
=============================================================================

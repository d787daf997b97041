----------------------------- MODULE MCBlobStore ----------------------------
(* Two operations on one blob, in one process or in one each. *)
EXTENDS BlobStore

CONSTANTS c1, c2, server, worker

Together == [c \in Clients |-> server]
Apart == [c \in Clients |-> IF c = c1 THEN server ELSE worker]
=============================================================================

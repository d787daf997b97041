----------------------------- MODULE MCImports ------------------------------
(* Two units, the row of the start and the row of a retry. *)
EXTENDS Imports, TLC

CONSTANTS first, second, worker, other

(* Rows and workers are told apart by their names only. *)
Alike == Permutations({first, second}) \cup Permutations({worker, other})
=============================================================================

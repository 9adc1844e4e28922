------------------------------ MODULE MCMemory ------------------------------
(***************************************************************************)
(* Two threads and a store that is full with two of four runs: it has room *)
(* for a pair that a third run pushes out one after the other.             *)
(***************************************************************************)
EXTENDS MemoryRunStore

TwoRetained == 2
=============================================================================

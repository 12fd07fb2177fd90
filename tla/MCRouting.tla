------------------------------ MODULE MCRouting ------------------------------
(* A small instance of NativeRouting for TLC. *)
EXTENDS NativeRouting

CONSTANTS poll1, poll2
=============================================================================

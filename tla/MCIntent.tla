------------------------------ MODULE MCIntent ------------------------------
(* A small instance of ControlIntent for TLC. *)
EXTENDS ControlIntent

MCChoices == {[key |-> "charging", value |-> TRUE], [key |-> "charging", value |-> FALSE],
              [key |-> "mode", value |-> TRUE], [key |-> "power", value |-> TRUE],
              [key |-> "power", value |-> FALSE]}
=============================================================================

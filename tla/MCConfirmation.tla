--------------------------- MODULE MCConfirmation ---------------------------
(* A small instance of WriteConfirmation for TLC: Start and Stop, whose report is
   telemetry, and two fields of the configuration, one written like a mode and one
   by CloudSettings. *)
EXTENDS WriteConfirmation

CONSTANTS charging, power, limit, on, off

MCFields   == {charging, power, limit}
MCValues   == {on, off}
MCSettings == {limit}
MCSlots    == {1, 2}
\* Two of one field, or of both sources, with either kind of writer.
MCWrites   == <<{<<charging, on>>}, {<<charging, off>>, <<power, on>>, <<limit, on>>}>>
MCOneWrite == <<{<<power, on>>, <<limit, on>>, <<charging, on>>}>>

\* Where the wallbox starts; the requests take it on.
MCInit     == Init /\ device = [f \in Fields |-> off]
MCSpec     == MCInit /\ [][Next]_vars
MCFairSpec == MCSpec /\ Fairness
=============================================================================

---------------------------- MODULE MCTransport ----------------------------
(* A small instance of NativeTransport for TLC. *)
EXTENDS NativeTransport

Control(act, power, mode) == [act |-> act, power |-> power, mode |-> mode]
MCUsers == {"user"}
Says(state, mode, limit, load) ==
    [state |-> state, mode |-> mode, limit |-> limit, load |-> load]
\* Both modes, limits raised and lowered, loads under, at and over them.
MCControls == {Control("start", 1, Fast), Control("start", 2, PV), Control("power", 1, Fast),
               Control("power", 2, Fast), Control("mode", 1, Fast), Control("stop", 1, Fast)}
MCReported == {Says(0, Fast, 1, 0), Says(0, Fast, 2, 0), Says(3, Fast, 1, 0),
               Says(2, Fast, 1, 1), Says(2, Fast, 1, 2), Says(2, PV, 2, 0)}

\* As little as an alarm needs: a Start, and a limit that may be changed or exceeded.
MCFewControls == {Control("start", 1, Fast), Control("power", 1, Fast)}
MCFewReported == {Says(0, Fast, 1, 0), Says(2, Fast, 1, 1), Says(2, Fast, 1, 2)}

MCSpec == Init /\ [][Next]_vars
MCFairSpec == MCSpec /\ Fairness
=============================================================================

----------------------------- MODULE MCSession -----------------------------
(* A small instance of SemsSession for TLC. *)
EXTENDS SemsSession

Nowhere == [f \in Fields |-> None]
Setting(kind, field, value) == [kind |-> kind, vals |-> [Nowhere EXCEPT ![field] = value]]
Plain(kind) == [kind |-> kind, vals |-> Nowhere]
Energy == Setting("edit", "energy", 1)
Soc    == Setting("edit", "soc", 1)
Mode   == Setting("mode", "mode", 0)
Floor  == Setting("floor", "floor", 1)

\* A write, then one that meets its fence, a close or new credentials.
MCCalls == 1..3
MCRequests ==
    << {Energy, Floor, Mode, Plain("command")},
       {Soc} \cup {Plain(k) : k \in Reads \cup {"config", "replace"}},
       {Energy, Plain("close")} >>
MCFirst == [mode |-> 1, energy |-> 0, soc |-> 0, floor |-> 0]
=============================================================================

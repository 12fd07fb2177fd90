------------------------------ MODULE MCPolicy ------------------------------
(* Small instances for TLC that share one run, a part each: ChargeModePolicy over the
   cloud, where a report may be stale, and Presentation, the entities and what the policy
   does for them seen from their side.  One part moves; the other rests in an initial state
   of its own. *)
EXTENDS ChargeModePolicy

CONSTANTS low, high, fast, pv

Ask(kind, arg) == [kind |-> kind, arg |-> arg]

MCPowers == {low, high}
MCModes  == {fast, pv}
MCOps    == {Ask(k, None) : k \in {"start", "stop", "setting", "adopt", "close"}}
            \cup {Ask("mode", m) : m \in MCModes} \cup {Ask("remember", pv)}
            \cup {Ask("power", p) : p \in MCPowers}

\* Where the charger and the remembered intent start; the requests take it on.
MCInit == /\ Init
          /\ device.power = low /\ device.session = "idle"
          /\ desired \in {[mode |-> fast, power |-> low], [mode |-> None, power |-> None]}

CONSTANTS MaxCalls, MaxReports
VARIABLES part, play, enabled, wanted, reported, data, fresh, pend, live, owner, shown, writes,
          calling, sent, reports

Entities == INSTANCE Presentation
            WITH desired <- wanted, report <- reported, version <- calling, device <- sent

ASSUME Entities!PresentationConstants

entities == <<play, enabled, wanted, reported, data, fresh, pend, live, owner, shown, writes,
              calling, sent, reports>>

PolicyRests  == MCInit /\ device.mode = fast /\ desired.mode = None
EntitiesRest == /\ Entities!Init /\ play = {Entities!ConfigSwitch} /\ ~enabled /\ wanted = None
                /\ data["own"] = 0

PartsInit == \/ part = "policy" /\ MCInit /\ EntitiesRest
             \/ part = "entities" /\ PolicyRests /\ Entities!Init
PartsNext == \/ part = "policy" /\ Next /\ UNCHANGED <<part, entities>>
             \/ part = "entities" /\ Entities!Next /\ UNCHANGED <<part, vars>>
MCSpec == PartsInit /\ [][PartsNext]_<<part, vars, entities>>

\* What the entities show, as Presentation states it: the newest write for as long as it
\* waits, nothing of a failed one, and the power that was chosen last.
NewestShown          == Entities!NewestShown
FailureLeavesNothing == Entities!FailureLeavesNothing
NewestPowerStands    == Entities!NewestPowerStands
=============================================================================

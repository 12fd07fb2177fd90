------------------------------ MODULE MCParts ------------------------------
(* Small instances for TLC that share one run, a part each: EndpointManager; the policy
   over TCP and one request's readback, whose callers and readbacks must come to an end.
   One part moves; the others rest in an initial state of theirs. *)
EXTENDS EndpointManager, Sequences

CONSTANTS l1, l2, cloud, other,                              \* of the endpoint
          low, high, fast, pv,                               \* of the policy
          charging, limit, on, off, alarm                    \* of the readback

MCLocals  == {l1, l2}
MCRemotes == {cloud, other}

VARIABLES part
VARIABLES called, op, place, ver, intent, version, startIntent, refusing, startQueue, queue,
          powerRequest, desired, dropped, expired, job, plan, charger, report, advanced, delivered
VARIABLES wallbox, st, req, lock, local, transitioning, routing, restored, success, tokens, pending,
          results, timer, busy, ended, ref, due, poll, readback, task, valid, held, heldSince, after

policyVars == <<called, op, place, ver, intent, version, startIntent, refusing, startQueue, queue,
                powerRequest, desired, dropped, expired, job, plan, charger, report, advanced, delivered>>
readbackVars == <<wallbox, st, req, lock, local, transitioning, routing, restored, success, tokens,
                  pending, results, timer, busy, ended, ref, due, poll, readback, task, valid, held,
                  heldSince, after>>

Ask(what, arg) == [kind |-> what, arg |-> arg]

\* Direct reports, and a ceiling that every mode keeps.
Policy == INSTANCE ChargeModePolicy
    WITH N <- 2, Modes <- {fast, pv}, Fast <- fast, Powers <- {low, high},
         Ops <- {Ask("start", None), Ask("stop", None), Ask("power", high), Ask("power", low)},
         RememberMode <- TRUE, PreservesAll <- TRUE, RequiresAdvance <- FALSE,
         pc <- place, closed <- refusing, cancelled <- dropped, device <- charger

Readback == INSTANCE WriteConfirmation
    WITH N <- 1, Fields <- {charging, limit}, Values <- {on, off}, Charging <- charging,
         On <- on, Alarm <- alarm, Settings <- {limit}, Slots <- {1, 2}, Deadline <- 2, MaxHandovers <- 1,
         Writes <- <<{<<limit, on>>, <<charging, on>>}>>,
         device <- wallbox, epoch <- routing, closed <- ended, read <- readback, since <- heldSince

PolicyInit == /\ Policy!Init /\ charger.power = low /\ charger.session = "idle"
              /\ desired \in {[mode |-> fast, power |-> low], [mode |-> None, power |-> None]}
ReadbackInit == Readback!Init /\ wallbox = [f \in {charging, limit} |-> off]

EndpointRests == Init /\ socketA = cloud /\ ~socketB /\ config = l1
PolicyRests   == PolicyInit /\ charger.mode = fast /\ desired.mode = None

PartsInit ==
    \/ part = "endpoint" /\ Init /\ PolicyRests /\ ReadbackInit
    \/ part = "policy" /\ EndpointRests /\ PolicyInit /\ ReadbackInit
    \/ part = "readback" /\ EndpointRests /\ PolicyRests /\ ReadbackInit

PartsNext ==
    \/ part = "endpoint" /\ Next /\ UNCHANGED <<part, policyVars, readbackVars>>
    \/ part = "policy" /\ Policy!Next /\ UNCHANGED <<part, vars, readbackVars>>
    \/ part = "readback" /\ Readback!Next /\ UNCHANGED <<part, vars, policyVars>>

PartsSpec == PartsInit /\ [][PartsNext]_<<part, vars, policyVars, readbackVars>>
             /\ Fairness /\ Policy!Fairness /\ Readback!Fairness

\* Every request of the policy is answered, as ChargeModePolicy states it.
EveryRequestEnds == Policy!EveryRequestEnds

\* No readback is owed for ever, as WriteConfirmation states it.
ReadbacksEnd == Readback!ReadbacksEnd
=============================================================================

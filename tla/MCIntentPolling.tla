-------------------------- MODULE MCIntentPolling --------------------------
(* Two parts for TLC that share one run: CloudPolling, how it is noticed that the cloud has
   become silent, and ControlIntent, what a control does when the cloud does not answer.
   One part moves; the other rests in an initial state of its own. *)
EXTENDS CloudPolling

CONSTANTS None, Choices, MaxChoices, Handovers
VARIABLES part, pending, version, newest, deadline, error, task, preparing, path, able, rests,
          unloaded, sent, moves

MCChoices == {[key |-> "charging", value |-> TRUE], [key |-> "charging", value |-> FALSE],
              [key |-> "mode", value |-> TRUE], [key |-> "power", value |-> TRUE],
              [key |-> "power", value |-> FALSE]}

Intent == INSTANCE ControlIntent WITH route <- path, closed <- unloaded, MaxMoves <- Handovers

ASSUME Intent!IntentConstants

intent == <<pending, version, newest, deadline, error, task, preparing, path, able, rests,
            unloaded, sent, moves>>

PollingRests == Init /\ kind = "cloud"
IntentRests  == Intent!Init /\ ~path.local /\ ~able

PartsInit == \/ part = "polling" /\ Init /\ IntentRests
             \/ part = "intent" /\ PollingRests /\ Intent!Init
PartsNext == \/ part = "polling" /\ Next /\ UNCHANGED <<part, intent>>
             \/ part = "intent" /\ Intent!Next /\ UNCHANGED <<part, vars>>
PartsSpec == PartsInit /\ [][PartsNext]_<<part, vars, intent>> /\ Intent!Fairness

\* What a control may do again, what newer ones replace, and that all of them end: the
\* properties of ControlIntent, as it states them.
AgainOnlyOverTCP == Intent!AgainOnlyOverTCP
NewestCarriedOut == Intent!NewestCarriedOut
StopKept         == Intent!StopKept
ChoicesEnd       == Intent!ChoicesEnd
=============================================================================

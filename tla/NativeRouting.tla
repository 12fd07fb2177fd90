---------------------------- MODULE NativeRouting ----------------------------
(***************************************************************************)
(* native_coordinator.py with native_connection_intent.py and               *)
(* native_fallback.py: handovers of Socket A between SEMS and this host, by *)
(* the user, by the automatic fallback, at startup and at shutdown, while   *)
(* polls of either transport are under way.  Custody of the endpoint itself *)
(* is EndpointManager's; here an activation or a restoration succeeds, or   *)
(* fails with its write landed or not.                                      *)
(*                                                                         *)
(* A handover holds the policy's lock from Begin to Finish; "writer" says   *)
(* where it stands.  The newest request supersedes the one that waits.      *)
(***************************************************************************)
EXTENDS Naturals, Sequences

CONSTANTS Enabled,     \* native_auto_fallback
          Limit,       \* failed polls before the fallback acts (three)
          Polls,       \* coordinator refreshes that may be under way together
          SavesFail,   \* whether saving the handover marker can fail
          MaxOps,      \* bound on startups and requested handovers
          MaxCrashes   \* bound on crashes

ASSUME RoutingAssumption ==
    /\ Enabled \in BOOLEAN /\ SavesFail \in BOOLEAN
    /\ Limit \in Nat \ {0} /\ MaxOps \in Nat /\ MaxCrashes \in Nat
    /\ Polls \cap {"nobody", "writer"} = {}

VARIABLES disk,        \* durable: connection intent, handover marker, endpoint journal
          saving,      \* connection intents being saved, in the order of the calls
          up,          \* the life of the config entry
          intent,      \* connection_intent.manual_tcp, .automatic_tcp
          restoredAt,  \* cloud_restored_at, 0 for None
          local, transitioning, epoch,
          paused, trial, failures, localFailures,   \* AutomaticFallback
          tick,        \* where its tick stands, with the epoch it looked at
          asked,       \* the handover that waits for the policy's lock
          writer,      \* the handover that has it
          marking,     \* who has _handover_lock
          poll,        \* the refreshes under way
          published,   \* what entities show as available
          socket,      \* where the wallbox reports to
          spell,       \* how often it has come to this host
          report,      \* the newest report SEMS has
          clock,       \* time.time(), as far as handovers and reports are apart
          ops, crashes,
          choice       \* history: the last explicit choice and what became of it

durable == <<disk, saving>>
memory  == <<intent, restoredAt>>
route   == <<local, transitioning, epoch>>
timers  == <<paused, trial, failures, localFailures>>
world   == <<socket, spell, report>>
bounds  == <<ops, crashes>>
vars    == <<durable, up, memory, route, timers, tick, asked, writer, marking, poll, published,
             world, clock, bounds, choice>>

Ask(who, target, recovery) == [who |-> who, target |-> target, recovery |-> recovery]
At(ask, place) == [who |-> ask.who, target |-> ask.target, recovery |-> ask.recovery, at |-> place]

NoAsk    == Ask("nobody", FALSE, FALSE)
Idle     == At(NoAsk, "idle")
TickIdle == [at |-> "idle", epoch |-> 0]
Never    == [time |-> 0, spell |-> 0]
NoPoll   == [at |-> "idle", epoch |-> 0, kind |-> "cloud", report |-> Never]
Nothing  == [kind |-> "nothing", spell |-> 0]
NoChoice == [target |-> FALSE, state |-> "none"]

Callers == {"nobody", "user", "auto", "stop", "boot"}
Places  == {"idle", "choose", "save", "prerestore", "activate", "connect", "mark", "marking",
            "restore", "hint", "failed"}
Stamps  == [time : Nat, spell : Nat]

\* manual_tcp and automatic_tcp are never both set.
Preferences == {i \in [manual : BOOLEAN, automatic : BOOLEAN] : ~(i.manual /\ i.automatic)}

\* All variables have their types, and an outage hint never stands beside a manual choice.
TypeOK ==
    /\ disk \in [intent : Preferences, marker : Nat, journal : BOOLEAN]
    /\ saving \in Seq([who : Polls \cup {"writer"}, intent : Preferences])
    /\ up \in {"down", "booting", "up", "closing", "leaving", "stopped", "stuck"}
    /\ intent \in Preferences
    /\ restoredAt \in Nat /\ local \in BOOLEAN /\ transitioning \in BOOLEAN /\ epoch \in Nat
    /\ paused \in BOOLEAN /\ trial \in {"none", "running", "expired"}
    /\ failures \in 0..Limit /\ localFailures \in 0..Limit
    /\ tick \in [at : {"idle", "refresh", "probe", "asked", "won", "recovered"}, epoch : Nat]
    /\ asked \in [who : Callers, target : BOOLEAN, recovery : BOOLEAN]
    /\ writer \in [who : Callers, target : BOOLEAN, recovery : BOOLEAN, at : Places]
    /\ marking \in Polls \cup {"nobody", "writer"}
    /\ poll \in [Polls -> [at : {"idle", "read", "answered", "clear", "clearing", "last", "hint"},
                           epoch : Nat, kind : {"cloud", "tcp"}, report : Stamps]]
    /\ published \in [kind : {"nothing", "cloud", "tcp"}, spell : Nat]
    /\ socket \in {"cloud", "host"} /\ spell \in Nat /\ report \in Stamps /\ clock \in Nat
    /\ ops \in 0..MaxOps /\ crashes \in 0..MaxCrashes
    /\ choice \in [target : BOOLEAN, state : {"none", "asked", "done", "failed"}]

\* The coordinator exists and _closed is not set.
Running == up \in {"up", "closing", "leaving", "stuck"}

Init ==
    /\ disk \in [intent : Preferences, marker : {0}, journal : {FALSE}]
    /\ saving = <<>> /\ up = "down"
    /\ intent = [manual |-> FALSE, automatic |-> FALSE]
    /\ restoredAt = 0 /\ local = FALSE /\ transitioning = FALSE /\ epoch = 0
    /\ paused = FALSE /\ trial = "none" /\ failures = 0 /\ localFailures = 0
    /\ tick = TickIdle /\ asked = NoAsk /\ writer = Idle /\ marking = "nobody"
    /\ poll = [p \in Polls |-> NoPoll] /\ published = Nothing
    /\ socket = "cloud" /\ spell = 0 /\ report = [time |-> 1, spell |-> 0] /\ clock = 1
    /\ ops = 0 /\ crashes = 0 /\ choice = NoChoice

\* A new process, or a new coordinator, knows what is durable and nothing else.
Forget ==
    /\ intent' = disk.intent /\ restoredAt' = disk.marker
    /\ local' = FALSE /\ transitioning' = FALSE /\ epoch' = 0
    /\ paused' = FALSE /\ trial' = "none" /\ failures' = 0 /\ localFailures' = 0
    /\ tick' = TickIdle /\ asked' = NoAsk /\ marking' = "nobody"
    /\ poll' = [p \in Polls |-> NoPoll] /\ published' = Nothing /\ choice' = NoChoice

-----------------------------------------------------------------------------
(* _set_local, and the end of who called it *)

\* Who asked goes on: a startup to its next part or to its teardown, a shutdown
\* to a closed coordinator or to an entry that could not be unloaded, the tick
\* to what it does after its handover.
End(ask, ok) ==
    /\ writer' = IF ask.who # "boot" \/ (ok /\ ask.target) THEN Idle
                 ELSE At(ask, IF ok THEN "choose" ELSE "failed")
    /\ up' = CASE ask.who = "boot" /\ ok /\ ask.target -> "up"
               [] ask.who = "stop" -> IF up = "booting" THEN "down"
                                      ELSE IF ok THEN "stopped" ELSE "stuck"
               [] OTHER -> up
    /\ tick' = IF ask.who # "auto" THEN tick
               ELSE [tick EXCEPT !.at = IF ok /\ ask.target THEN "won"
                                        ELSE IF ok /\ ask.recovery THEN "recovered" ELSE "idle"]
    /\ choice' = IF ask.who = "user" /\ choice.state = "asked" /\ asked.who # "user"
                 THEN [choice EXCEPT !.state = IF ok THEN "done" ELSE "failed"] ELSE choice

Finish(ok) == transitioning' = FALSE /\ End(writer, ok)

Proceed(place) == /\ writer' = [writer EXCEPT !.at = place]
                  /\ UNCHANGED <<up, tick, choice, transitioning>>

\* Mutant: only a difference of transports is worth a handover.
RouteIgnoresJournal(ask) ==
    IF ask.target = local
    THEN End(ask, TRUE) /\ UNCHANGED <<transitioning, epoch, published>>
    ELSE /\ epoch' = epoch + 1 /\ published' = Nothing /\ transitioning' = TRUE
         /\ writer' = At(ask, IF ~ask.target THEN "mark"
                              ELSE IF disk.journal THEN "prerestore" ELSE "activate")
         /\ UNCHANGED <<up, tick, choice>>

\* The first part of _set_local, up to its first await.
Route(ask) ==
    IF ask.target = local /\ ~disk.journal
    THEN End(ask, TRUE) /\ UNCHANGED <<transitioning, epoch, published>>
    ELSE /\ epoch' = epoch + 1 /\ published' = Nothing
         /\ IF ask.target /\ local THEN transitioning' = FALSE /\ End(ask, TRUE)
            ELSE /\ transitioning' = TRUE
                 /\ writer' = At(ask, IF ~ask.target THEN "mark"
                                      ELSE IF disk.journal THEN "prerestore" ELSE "activate")
                 /\ UNCHANGED <<up, tick, choice>>

\* What _set_local leaves alone between two awaits.
KeepsRest == UNCHANGED <<memory, timers, asked, poll, bounds>>

RestoreFirst ==
    /\ writer.at = "prerestore"
    /\ \/ /\ disk' = [disk EXCEPT !.journal = FALSE] /\ socket' = "cloud" /\ Proceed("activate")
       \/ /\ UNCHANGED disk /\ socket' \in {socket, "cloud"} /\ Finish(FALSE)
    /\ KeepsRest
    /\ UNCHANGED <<saving, local, epoch, marking, published, spell, report, clock>>

\* Socket A comes to this host once the journal is durable.
ToHost(s) == socket' = s /\ spell' = IF s # socket /\ s = "host" THEN spell + 1 ELSE spell

Activate ==
    /\ writer.at = "activate"
    /\ disk' = [disk EXCEPT !.journal = TRUE] /\ ToHost("host") /\ Proceed("connect")
    /\ KeepsRest
    /\ UNCHANGED <<saving, local, epoch, marking, published, report, clock>>

ActivateFails ==
    /\ writer.at = "activate"
    /\ \E journal \in BOOLEAN, s \in {socket, "host"} :
          /\ s = "host" => journal
          /\ disk' = [disk EXCEPT !.journal = journal] /\ ToHost(s)
    /\ Proceed("mark") /\ KeepsRest
    /\ UNCHANGED <<saving, local, epoch, marking, published, report, clock>>

\* async_automatic writes only what it changes, and never over a manual choice.
Hints(automatic) == ~intent.manual /\ intent.automatic # automatic

SaveHint(who, automatic) ==
    saving' = Append(saving, [who |-> who,
                              intent |-> [manual |-> FALSE, automatic |-> automatic]])

\* The wallbox connects and answers a status command.
Connect ==
    /\ writer.at = "connect" /\ socket = "host"
    /\ local' = TRUE
    /\ IF writer.who = "auto" /\ Hints(TRUE)
       THEN /\ SaveHint("writer", TRUE) /\ writer' = [writer EXCEPT !.at = "hint"]
            /\ transitioning' = FALSE /\ UNCHANGED <<up, tick, choice>>
       ELSE Finish(TRUE) /\ UNCHANGED saving
    /\ KeepsRest /\ UNCHANGED <<disk, epoch, marking, published, world, clock>>

\* Mutant: a takeover that fails is rolled back without a freshness boundary.
RollBackUnmarked ==
    /\ writer.at = "connect" /\ Proceed("restore")
    /\ KeepsRest /\ UNCHANGED <<durable, local, epoch, marking, published, world, clock>>

\* No connection within 35 seconds, an error, a cancelled or expired request.
ConnectFails ==
    /\ writer.at = "connect" /\ Proceed("mark")
    /\ KeepsRest /\ UNCHANGED <<durable, local, epoch, marking, published, world, clock>>

\* _mark_cloud_handover has the lock: the boundary holds at once, in memory.
Mark ==
    /\ writer.at = "mark" /\ marking = "nobody"
    /\ marking' = "writer" /\ clock' = clock + 1 /\ restoredAt' = clock + 1
    /\ Proceed("marking")
    /\ UNCHANGED <<durable, intent, local, epoch, timers, asked, poll, published, world, bounds>>

\* async_initialize marks once more before a trial; every other mark restores.
BeforeTrial == writer.who = "boot" /\ writer.recovery

Marked ==
    /\ writer.at = "marking"
    /\ disk' = [disk EXCEPT !.marker = restoredAt] /\ marking' = "nobody"
    /\ IF BeforeTrial
       THEN /\ trial' = "running" /\ up' = "up" /\ writer' = Idle
            /\ UNCHANGED <<tick, choice, transitioning>>
       ELSE Proceed("restore") /\ UNCHANGED trial
    /\ UNCHANGED <<saving, memory, local, epoch, paused, failures, localFailures, asked, poll,
                   published, world, clock, bounds>>

MarkFails ==
    /\ SavesFail /\ writer.at = "marking"
    /\ disk' \in {disk, [disk EXCEPT !.marker = restoredAt]} /\ marking' = "nobody"
    /\ Finish(FALSE) /\ KeepsRest
    /\ UNCHANGED <<saving, local, epoch, published, world, clock>>

\* The end of a hand-back, of a rollback and of the recovery at startup.
Restore ==
    /\ writer.at = "restore"
    /\ disk' = [disk EXCEPT !.journal = FALSE] /\ socket' = "cloud" /\ local' = FALSE
    /\ IF writer.target THEN Finish(FALSE) ELSE Finish(TRUE)
    /\ KeepsRest /\ UNCHANGED <<saving, epoch, marking, published, spell, report, clock>>

\* The endpoint may be restored all the same, or the disconnection after it fail.
RestoreFails ==
    /\ writer.at = "restore" /\ disk.journal
    /\ \E journal \in BOOLEAN, s \in {socket, "cloud"} :
          /\ journal \/ s = "cloud"
          /\ disk' = [disk EXCEPT !.journal = journal] /\ socket' = s
    /\ Finish(FALSE) /\ KeepsRest
    /\ UNCHANGED <<saving, local, epoch, marking, published, spell, report, clock>>

-----------------------------------------------------------------------------
(* Startup, shutdown, crash *)

NoPreference == [manual |-> FALSE, automatic |-> FALSE]

\* async_initialize up to its first await; polls of an earlier coordinator are over.
Start ==
    /\ up \in {"down", "stopped"} /\ writer = Idle /\ ops < MaxOps
    /\ \A p \in Polls : poll[p].at = "idle"
    /\ ops' = ops + 1 /\ up' = "booting" /\ Forget
    /\ LET recordsHint == disk.journal /\ Enabled /\ disk.intent = NoPreference
       IN  /\ writer' = At(Ask("boot", FALSE, FALSE), IF ~disk.journal THEN "choose"
                                                      ELSE IF recordsHint THEN "hint" ELSE "mark")
           /\ saving' = IF recordsHint
                        THEN <<[who |-> "writer", intent |-> [manual |-> FALSE, automatic |-> TRUE]]>>
                        ELSE <<>>
    /\ UNCHANGED <<disk, world, clock, crashes>>

\* A manual selection of TCP is carried out again.
ChooseTcp ==
    /\ writer.at = "choose" /\ intent.manual
    /\ paused' = TRUE /\ Route(Ask("boot", TRUE, FALSE))
    /\ UNCHANGED <<durable, memory, local, trial, failures, localFailures, asked, marking, poll,
                   world, clock, bounds>>

\* A known outage is not debounced again: the cloud has one trial.
ChooseTrial ==
    /\ writer.at = "choose" /\ ~intent.manual /\ intent.automatic /\ Enabled
    /\ IF restoredAt = 0
       THEN writer' = At(Ask("boot", FALSE, TRUE), "mark") /\ UNCHANGED <<trial, up>>
       ELSE writer' = Idle /\ trial' = "running" /\ up' = "up"
    /\ UNCHANGED <<durable, memory, route, paused, failures, localFailures, tick, asked, marking,
                   poll, published, world, clock, bounds, choice>>

ChooseCloud ==
    /\ writer.at = "choose" /\ ~intent.manual /\ ~(intent.automatic /\ Enabled)
    /\ writer' = Idle /\ up' = "up"
    /\ UNCHANGED <<durable, memory, route, timers, tick, asked, marking, poll, published, world,
                   clock, bounds, choice>>

\* The listener cannot be opened, or the charging intent not be read.
StartFails ==
    /\ writer.at = "choose" /\ Proceed("failed")
    /\ UNCHANGED <<durable, memory, local, epoch, timers, asked, marking, poll, published, world,
                   clock, bounds>>

\* The handover of a request that has the lock, the rest being as it was.
Routed(ask) ==
    /\ Route(ask)
    /\ UNCHANGED <<durable, memory, local, timers, marking, poll, world, clock, bounds>>

\* A failed startup shuts the coordinator down, recovering the endpoint once more.
TearDown == writer.at = "failed" /\ Routed(Ask("stop", FALSE, FALSE)) /\ UNCHANGED asked

\* What becomes of the handover that waits, when a newer request supersedes it.
Dropped ==
    /\ up' = IF asked.who = "stop" THEN "stuck" ELSE up
    /\ tick' = IF asked.who = "auto" THEN TickIdle ELSE tick

ChoiceFails == IF asked.who = "user" THEN [choice EXCEPT !.state = "failed"] ELSE choice

\* async_shutdown ends the supervisor first, cancelling its handover, then asks.
Shutdown ==
    /\ up \in {"up", "stuck"} /\ ops < MaxOps
    /\ ops' = ops + 1 /\ up' = "closing"
    /\ asked' = IF asked.who = "auto" THEN NoAsk ELSE asked
    /\ tick' = IF writer.who = "auto" THEN tick ELSE TickIdle
    /\ UNCHANGED <<durable, memory, route, timers, writer, marking, poll, published, world, clock,
                   crashes, choice>>

StopAsks ==
    /\ up = "closing" /\ writer.who # "auto"
    /\ asked' = Ask("stop", FALSE, FALSE) /\ up' = "leaving" /\ tick' = TickIdle
    /\ choice' = ChoiceFails
    /\ UNCHANGED <<durable, memory, route, timers, writer, marking, poll, published, world, clock,
                   bounds>>

Crash ==
    /\ up # "down" /\ crashes < MaxCrashes
    /\ crashes' = crashes + 1 /\ up' = "down" /\ writer' = Idle /\ saving' = <<>> /\ Forget
    /\ UNCHANGED <<disk, world, clock, ops>>

-----------------------------------------------------------------------------
(* Requested handovers *)

\* async_set_local: the fallback is paused before anything is awaited.
UserAsks(target) ==
    /\ Running /\ ops < MaxOps
    /\ ops' = ops + 1 /\ paused' = TRUE
    /\ asked' = Ask("user", target, FALSE) /\ choice' = [target |-> target, state |-> "asked"]
    /\ Dropped
    /\ UNCHANGED <<durable, memory, route, trial, failures, localFailures, writer, marking, poll,
                   published, world, clock, crashes>>

\* Any other request of the policy supersedes the handover that waits; the policy
\* that a shutdown has closed refuses it.
OtherRequest ==
    /\ asked # NoAsk
    /\ asked' = NoAsk /\ choice' = ChoiceFails /\ Dropped
    /\ UNCHANGED <<durable, memory, route, timers, writer, marking, poll, published, world, clock,
                   bounds>>

\* The user's choice is stored before anything is moved.
BeginUser ==
    /\ Running /\ writer = Idle /\ asked.who = "user"
    /\ writer' = At(asked, "save") /\ asked' = NoAsk
    /\ saving' = Append(saving, [who |-> "writer",
                                 intent |-> [manual |-> asked.target, automatic |-> FALSE]])
    /\ UNCHANGED <<disk, up, memory, route, timers, tick, marking, poll, published, world, clock,
                   bounds, choice>>

BeginStop == Running /\ writer = Idle /\ asked.who = "stop" /\ Routed(asked) /\ asked' = NoAsk

\* Nothing is left of the reason for a takeover.
Recovered(ask) == ask.target /\ trial = "none" /\ failures < Limit

\* Mutant: a manual selection made while it waited does not stop the fallback.
BeginAutoUnchecked ==
    /\ Running /\ writer = Idle /\ asked.who = "auto" /\ asked' = NoAsk
    /\ ~Recovered(asked) /\ (asked.target \/ asked.recovery \/ published.kind = "tcp")
    /\ Routed(asked)

BeginAuto ==
    /\ Running /\ writer = Idle /\ asked.who = "auto" /\ asked' = NoAsk
    /\ ~paused /\ ~Recovered(asked)
    /\ asked.target \/ asked.recovery \/ published.kind = "tcp"
    /\ Routed(asked)

\* _handover's checks under the lock: superseded, recovered, or charging by now.
AutoDeclines ==
    /\ Running /\ writer = Idle /\ asked.who = "auto" /\ asked' = NoAsk
    /\ \/ (paused \/ Recovered(asked)) /\ UNCHANGED trial
       \/ ~paused /\ ~asked.target /\ ~asked.recovery /\ trial' = "none"
    /\ End(asked, FALSE)
    /\ UNCHANGED <<durable, memory, route, paused, failures, localFailures, marking, poll,
                   published, world, clock, bounds>>

-----------------------------------------------------------------------------
(* AutomaticFallback.tick *)

\* What the tick requires before its first await, and what it goes on with.
MayTick == up = "up" /\ Enabled /\ ~paused /\ ~transitioning /\ tick.at = "idle"
OnTrial == ~local /\ trial # "none"
Due     == tick.at = "refresh" \/ (MayTick /\ ~OnTrial)

TickKeeps == UNCHANGED <<durable, memory, route, paused, failures, writer, marking, poll,
                         published, world, clock, crashes>>

\* A trial under way is polled for; one that has expired is acted upon.
TickRefresh ==
    /\ MayTick /\ ~local /\ trial = "running"
    /\ tick' = [at |-> "refresh", epoch |-> epoch] /\ TickKeeps
    /\ UNCHANGED <<up, trial, localFailures, asked, ops, choice>>

TickAsks(target, recovery) ==
    /\ ops < MaxOps /\ ops' = ops + 1
    /\ asked' = Ask("auto", target, recovery) /\ tick' = [at |-> "asked", epoch |-> epoch]
    /\ up' = IF asked.who = "stop" THEN "stuck" ELSE up
    /\ choice' = ChoiceFails
    /\ TickKeeps /\ UNCHANGED localFailures

\* A lost local connection, a failed trial, a cloud outage.
AskRecovery ==
    /\ Due /\ local /\ localFailures = Limit
    /\ trial' = "running" /\ TickAsks(FALSE, TRUE)

AskTakeover ==
    /\ \/ Due /\ trial = "none" /\ failures = Limit
       \/ (tick.at = "refresh" \/ MayTick) /\ trial = "expired"
    /\ ~local /\ TickAsks(TRUE, FALSE) /\ UNCHANGED trial

Probe ==
    /\ Due /\ local /\ published.kind = "tcp"
    /\ tick' = [at |-> "probe", epoch |-> epoch] /\ TickKeeps
    /\ UNCHANGED <<up, trial, localFailures, asked, ops, choice>>

\* The probe held no lock: its answer counts only on the route it was made for.
Reachable ==
    /\ tick.at = "probe" /\ up = "up" /\ ~paused /\ local /\ ~transitioning /\ tick.epoch = epoch
    /\ trial' = "running" /\ TickAsks(FALSE, FALSE)

\* The cloud was not reachable, or nothing was due after the trial's refresh.
TickReturns ==
    /\ tick.at \in {"refresh", "probe"} /\ tick' = TickIdle /\ TickKeeps
    /\ UNCHANGED <<up, trial, localFailures, asked, ops, choice>>

\* What the tick does when its handover, and the refresh after it, are over.
TickAfter ==
    /\ tick.at \in {"won", "recovered"} /\ up = "up"
    /\ trial' = IF tick.at = "won" THEN "none" ELSE trial
    /\ localFailures' = IF tick.at = "recovered" THEN 0 ELSE localFailures
    /\ tick' = TickIdle /\ TickKeeps /\ UNCHANGED <<up, asked, ops, choice>>

Expire ==
    /\ trial = "running" /\ trial' = "expired"
    /\ UNCHANGED <<durable, up, memory, route, paused, failures, localFailures, tick, asked, writer,
                   marking, poll, published, world, clock, bounds, choice>>

-----------------------------------------------------------------------------
(* _async_update_data and _async_read_data *)

PollKeeps == UNCHANGED <<up, route, paused, tick, asked, writer, world, clock, bounds, choice>>

Place(p, at) == poll' = [poll EXCEPT ![p].at = at]
Ended(p)     == poll' = [poll EXCEPT ![p] = NoPoll]
Current(p)   == Running /\ ~transitioning /\ poll[p].epoch = epoch

\* Failed polls of the transport in use, counted as far as the tick looks at them.
Count(kind) ==
    /\ failures' = IF kind = "cloud" /\ failures < Limit THEN failures + 1 ELSE failures
    /\ localFailures' = IF kind = "tcp" /\ localFailures < Limit THEN localFailures + 1
                        ELSE localFailures

PollStart(p) ==
    /\ Running /\ ~transitioning /\ poll[p].at = "idle"
    /\ local \/ trial # "expired"
    /\ poll' = [poll EXCEPT ![p] = [at |-> "read", epoch |-> epoch,
                                    kind |-> IF local THEN "tcp" ELSE "cloud", report |-> Never]]
    /\ PollKeeps /\ UNCHANGED <<durable, memory, trial, failures, localFailures, marking, published>>

\* The trial's budget is spent: nothing is read.
PollLate(p) ==
    /\ Running /\ ~transitioning /\ poll[p].at = "idle" /\ ~local /\ trial = "expired"
    /\ Count("cloud") /\ published' = Nothing
    /\ PollKeeps /\ UNCHANGED <<durable, memory, trial, marking, poll>>

\* Reads of the shared SEMS session come one at a time (_serialized_web_request),
\* and each poll goes on before the next one's answer is there.
PollAnswers(p) ==
    /\ poll[p].at = "read" /\ poll[p].kind = "cloud"
    /\ \A q \in Polls : poll[q].at # "answered"
    /\ poll' = [poll EXCEPT ![p].at = "answered", ![p].report = report]
    /\ PollKeeps /\ UNCHANGED <<durable, memory, trial, failures, localFailures, marking, published>>

\* Mutant: an established link to the cloud is enough.
PollTrusts(p) ==
    /\ poll[p].at = "answered" /\ poll[p].epoch = epoch
    /\ Place(p, IF restoredAt = 0 THEN "last" ELSE "clear")
    /\ PollKeeps /\ UNCHANGED <<durable, memory, trial, failures, localFailures, marking, published>>

\* A report of before the handover is no report.
PollChecks(p) ==
    /\ poll[p].at = "answered" /\ poll[p].epoch = epoch /\ poll[p].report.time >= restoredAt
    /\ Place(p, IF restoredAt = 0 THEN "last" ELSE "clear")
    /\ PollKeeps /\ UNCHANGED <<durable, memory, trial, failures, localFailures, marking, published>>

PollClears(p) ==
    /\ poll[p].at = "clear" /\ marking = "nobody" /\ poll[p].epoch = epoch
    /\ marking' = p /\ Place(p, "clearing")
    /\ PollKeeps /\ UNCHANGED <<durable, memory, trial, failures, localFailures, published>>

PollCleared(p) ==
    /\ poll[p].at = "clearing"
    /\ disk' = [disk EXCEPT !.marker = 0] /\ restoredAt' = 0 /\ marking' = "nobody"
    /\ Place(p, "last")
    /\ PollKeeps
    /\ UNCHANGED <<saving, intent, trial, failures, localFailures, published>>

\* Mutant: a failed poll does not give _handover_lock back.
PollFailsKeepingLock(p) ==
    /\ poll[p].at \in {"read", "answered", "clear", "clearing", "last"}
    /\ disk' \in IF poll[p].at = "clearing" THEN {disk, [disk EXCEPT !.marker = 0]} ELSE {disk}
    /\ IF Current(p) THEN Count(poll[p].kind) ELSE UNCHANGED <<failures, localFailures>>
    /\ published' = Nothing /\ Ended(p)
    /\ PollKeeps /\ UNCHANGED <<saving, memory, trial, marking>>

\* An error, a timeout, a report too old, another transport by now, a closed
\* coordinator; the last known data count as unavailable whichever it was.
PollFails(p) ==
    /\ poll[p].at \in {"read", "answered", "clear", "clearing", "last"}
    /\ disk' \in IF poll[p].at = "clearing" THEN {disk, [disk EXCEPT !.marker = 0]} ELSE {disk}
    /\ marking' = IF marking = p THEN "nobody" ELSE marking
    /\ IF Current(p) THEN Count(poll[p].kind) ELSE UNCHANGED <<failures, localFailures>>
    /\ published' = Nothing /\ Ended(p)
    /\ PollKeeps /\ UNCHANGED <<saving, memory, trial>>

PollLocal(p) ==
    /\ poll[p].at = "read" /\ poll[p].kind = "tcp" /\ Current(p) /\ socket = "host"
    /\ published' = [kind |-> "tcp", spell |-> spell] /\ localFailures' = 0 /\ Ended(p)
    /\ PollKeeps /\ UNCHANGED <<durable, memory, trial, failures, marking>>

\* observation(True), and the data of a poll that returns.
Publish(p) ==
    /\ published' = [kind |-> "cloud", spell |-> poll[p].report.spell]
    /\ failures' = 0 /\ trial' = "none"

\* The last check before the outage hint is withdrawn.
PollReturns(p) ==
    /\ poll[p].at = "last" /\ Current(p)
    /\ IF Hints(FALSE)
       THEN SaveHint(p, FALSE) /\ Place(p, "hint") /\ UNCHANGED <<published, failures, trial>>
       ELSE Publish(p) /\ Ended(p) /\ UNCHANGED saving
    /\ PollKeeps /\ UNCHANGED <<disk, memory, localFailures, marking>>

\* _async_native_observation: the charger reports by itself.
NativeObservation ==
    /\ Running /\ local /\ ~transitioning /\ socket = "host"
    /\ published' = [kind |-> "tcp", spell |-> spell]
    /\ UNCHANGED <<durable, up, memory, route, timers, tick, asked, writer, marking, poll, world,
                   clock, bounds, choice>>

\* The wallbox reports to SEMS.
Report ==
    /\ socket = "cloud" /\ report' = [time |-> clock, spell |-> spell] /\ report' # report
    /\ UNCHANGED <<durable, up, memory, route, timers, tick, asked, writer, marking, poll, published,
                   socket, spell, clock, bounds, choice>>

-----------------------------------------------------------------------------
(* ConnectionIntent's saves, one at a time in the order of their calls *)

Saving(who) == saving # <<>> /\ Head(saving).who = who
Stored      == disk' = [disk EXCEPT !.intent = Head(saving).intent] /\ saving' = Tail(saving)
MaybeStored == disk' \in {disk, [disk EXCEPT !.intent = Head(saving).intent]} /\ saving' = Tail(saving)

ChoiceStored ==
    /\ Saving("writer") /\ writer.at = "save" /\ Stored
    /\ intent' = Head(saving).intent
    /\ Route(Ask(writer.who, writer.target, writer.recovery))
    /\ UNCHANGED <<restoredAt, local, timers, asked, marking, poll, world, clock, bounds>>

HintStored ==
    /\ Saving("writer") /\ writer.at = "hint" /\ Stored
    /\ intent' = [intent EXCEPT !.automatic = TRUE]
    /\ IF writer.who = "boot" THEN Proceed("mark") ELSE Finish(TRUE)
    /\ UNCHANGED <<restoredAt, local, epoch, timers, asked, marking, poll, published, world, clock,
                   bounds>>

WriterSaveFails ==
    /\ Saving("writer") /\ MaybeStored /\ Finish(FALSE)
    /\ UNCHANGED <<memory, local, epoch, timers, asked, marking, poll, published, world, clock,
                   bounds>>

HintWithdrawn(p) ==
    /\ Saving(p) /\ Stored /\ Ended(p)
    /\ intent' = [intent EXCEPT !.automatic = FALSE]
    /\ IF Current(p) THEN Publish(p) ELSE published' = Nothing /\ UNCHANGED <<failures, trial>>
    /\ PollKeeps /\ UNCHANGED <<restoredAt, localFailures, marking>>

PollSaveFails(p) ==
    /\ Saving(p) /\ MaybeStored /\ Ended(p) /\ published' = Nothing
    /\ PollKeeps /\ UNCHANGED <<memory, trial, failures, localFailures, marking>>

-----------------------------------------------------------------------------
WriterStep == \/ RestoreFirst \/ Activate \/ ActivateFails \/ Connect \/ ConnectFails
              \/ Mark \/ Marked \/ MarkFails \/ Restore \/ RestoreFails
              \/ ChooseTcp \/ ChooseTrial \/ ChooseCloud \/ StartFails \/ TearDown
              \/ ChoiceStored \/ HintStored \/ WriterSaveFails

PollStep(p) == \/ PollAnswers(p) \/ PollChecks(p) \/ PollClears(p) \/ PollCleared(p) \/ PollFails(p)
               \/ PollLocal(p) \/ PollReturns(p) \/ HintWithdrawn(p) \/ PollSaveFails(p)

TickStep == \/ TickRefresh \/ AskRecovery \/ AskTakeover \/ Probe \/ Reachable \/ TickReturns
            \/ TickAfter

Begin == BeginUser \/ BeginStop \/ BeginAuto \/ AutoDeclines

Next == \/ Start \/ Shutdown \/ StopAsks \/ Crash
        \/ (\E target \in BOOLEAN : UserAsks(target)) \/ OtherRequest \/ Begin
        \/ WriterStep \/ TickStep \/ Expire \/ NativeObservation \/ Report
        \/ \E p \in Polls : PollStart(p) \/ PollLate(p) \/ PollStep(p)

Spec == Init /\ [][Next]_vars

\* What has been started goes on, polls recur, time passes.
FairSpec == /\ Spec /\ WF_vars(WriterStep) /\ WF_vars(Expire) /\ WF_vars(StopAsks) /\ WF_vars(Begin)
            /\ \A p \in Polls : /\ WF_vars(PollStep(p))
                                /\ WF_vars(PollStart(p) \/ PollLate(p))

-----------------------------------------------------------------------------
(* Properties *)

\* Entities show a reading of the transport in use, made since Socket A last
\* went where it is: neither a poll that outlived a handover nor a cloud report
\* of before it is published (_async_update_data, _async_read_data).
AvailableIsCurrent ==
    Running /\ ~transitioning => CASE published.kind = "cloud" -> ~local /\ published.spell = spell
                                   [] published.kind = "tcp"   -> local
                                   [] OTHER                    -> TRUE

\* Requests are routed to the cloud (RoutingAdapter._adapter) only when the
\* wallbox is connected to it, whatever failed or crashed before.
CloudControlReachesCloud ==
    Running /\ ~local /\ ~transitioning /\ restoredAt = 0 => socket = "cloud"

\* What the user selected stays selected: no automatic handover that was
\* decided before, or later, moves Socket A elsewhere (AutomaticFallback.pause).
ChoiceStands ==
    up = "up" /\ choice.state = "done" /\ writer = Idle => local = choice.target

\* An unload that succeeds leaves the wallbox with the cloud and nothing to recover.
CleanStop == up = "stopped" => socket = "cloud" /\ ~disk.journal

\* A handover ends: the router does not stay between transports, where every
\* request is refused and every reading dropped.
TransitionsEnd == transitioning ~> ~transitioning

\* "Store the explicit preference before mutation": once a selection has been
\* carried out, a restart finds it (ConnectionIntent.async_manual).
ManualKept == choice.state = "done" /\ saving = <<>> => disk.intent.manual = choice.target

\* "Bounded cloud trials": a trial that the user's selection leaves without its
\* supervisor ends (AutomaticFallback.trial_deadline).
TrialsEnd == (paused /\ trial # "none") ~> (trial = "none" \/ up # "up")
=============================================================================

# Formal model of the GoodWe wallbox integration

This directory holds TLA+ modules that model the control logic of
`custom_components/sems_wallbox` (a Home Assistant integration that drives one
charger through the SEMS cloud, Modbus TCP or its own "native" TCP listener),
TLC configurations that check them on small instances, and theorems TLAPS proves
for every instance.  All paths below are relative to
`custom_components/sems_wallbox/` unless they start with `docs/` or `tests/`.

## 1. Inventory of the system

The integration runs in one asyncio event loop.  Coroutines interleave only at
`await`; blocking HTTP, Modbus and UDP work runs in executor threads that asyncio
cannot cancel; the process may be killed at any point and only Home Assistant
`Store` files survive.

| Component | State it keeps | Operations | Talks to | What makes it correct |
|---|---|---|---|---|
| `native_endpoint.py` endpoint manager | recovery journal (memory and `Store`), lock; on the wallbox: Socket A, Socket B | load, activate, restore, link check | wallbox over UDP, `Store` | the wallbox never points at this host without a durable record of where to point it back; another owner's setting is kept |
| `native_coordinator.py` router | `local`, `transitioning`, `routing_epoch`, `cloud_restored_at` (memory and `Store`) | handover, poll, initialise, shutdown, reauthenticate | every component below | no reading of one transport is published as the other's; no cloud report from before a handover is believed |
| `native_connection_intent.py` | manual/automatic preference (durable) | load, manual, automatic | router, fallback | an outage hint never erases the user's explicit choice |
| `native_fallback.py` automatic fallback | failure counters, trial deadline, backoff, paused/blocked | observation, tick, handover | router, policy lock, cloud | hands over only after a sustained outage; a return to cloud is never made while charging |
| `charge_mode_policy.py` policy | request version, start-intent version, lock, start lock, remembered mode/power (durable), current budget | start, stop, select mode, setting write, adopt, close | adapters, every entity | a Start older than a Stop is never sent after it; one Start per intent; Start only in the verified mode |
| `operation_budget.py` | deadline, cancelled flag, owner task per operation | run in executor, request timeout, retry delay | policy, HTTP clients | a cancelled operation keeps its lock until its thread is done and sends nothing further |
| `native_intent.py` latest intent | pending choice per control, executing request, version, batch deadline | submit, run, fail, close | router, control fallback, policy | newest choice wins, Stop first, nothing is replayed |
| `native_control_fallback.py` | preflight task, preparing flag | submit, prepare, recover, close | router, intent, cloud, transport | a control is moved to TCP only when it was not sent or its outcome was re-read |
| `native_transport.py` | session epoch, latest status, pending future, queue, start/safety-stop fields | serve, command, prepare start, recover start, snapshots, disconnect | wallbox TCP client, guard | one command on the wire, confirmed by its own session's report; a failed Start is followed by Stop |
| `native_session_guard.py` | limit, settling limits, phase, error, tasks | begin, arm, adopt, update limit, observe, protect, disarm, close | transport, router | load above every limit in force is stopped; an unresolved failure is never shown as a confirmed Stop |
| `native_adapter.py`, `charge_mode_adapter.py` | none | read, write mode, start, stop, confirm stopped | transport or API | an idle claim needs consistent evidence; a rejected Stop needs an advancing report |
| `native_idle_polling.py` and its two subclasses | value, session epoch, next read | tick, wake, close | transport | no value of an earlier session is shown |
| `native_cloud_settings.py` | cached settings, revision, validity, next refresh | refresh, write, invalidate | API, policy, write confirmation | no configuration read that crossed a handover or an invalidation is published |
| `write_confirmation.py` | tokens, pending readbacks, results, timer, busy flag | begin, accepted, rejected, observed, failed, cancel, wake, refresh | entities, coordinators | a result always belongs to the newest request; a timer is armed exactly while a readback is owed |
| `optimistic_write.py` | baseline, written fields, presentation | begin, capture, rollback | entities | a failed write never leaves or restores another write's optimistic value |
| `cloud_push.py`, `cloud_push_polling.py` | connection, seen ids, refresh task; samples, hints, extended flag | event, listen, refresh, observed, failed, check | MQTT broker, coordinator | a slower poll only while hints keep producing fresh reports |
| `cloud_rate_limit.py` gate | retry time, delay, lock | request | every HTTP call | no request during a server cooldown |
| `sems_api.py` | web token, login backoff, plant, uncertain mode edit | login, reads, mode/setting/start/stop writes, close | SEMS HTTP | a write after an uncertain one is checked first; credentials change under the request lock |
| `cloud_observation.py`, `cloud_data.py`, `observed_state.py`, `cloud_command.py` | retry time | read, classify | API | unknown is never turned into idle, charging or zero |
| `coordinator.py`, `modbus_coordinator.py` | interval, delayed refresh timer | poll, schedule refresh | API or Modbus, write confirmation | a closed coordinator arms no timer |
| `wallbox_modbus.py` | connection lock, register reads | read, write, start/stop | wallbox Modbus | identity is verified before a write |
| `__init__.py`, `config_flow.py` | runtime record per entry | setup, unload, reload | all | failed setup releases the listener and keeps the journal |
| `switch.py`, `select.py`, `number.py`, `sensor.py`, `button.py`, `binary_sensor.py`, `native_entities.py`, `native_cloud_settings.py` entities | presentation | services, state | policy, intent, confirmation | presentation never passes for a report |
| `native_protocol.py`, `native_faults.py`, `native_energy.py`, `native_configuration.py`, `native_power_limits.py`, `native_discovery.py` | decoder buffer | encode, decode | transport | framing and CRC |
| `diagnostics.py`, `ui_errors.py`, `const.py`, `config_values.py`, translations | none | formatting | - | - |

### What is hard here

- **Interleaving at every `await`.**  The policy's lock orders writes, but the version
  counters, the router's epoch and the write tokens are read before an `await` and
  compared after it; polls, push hints, timers and entity services run in between.
- **Work that cannot be cancelled.**  A cancelled coroutine leaves its executor thread
  running; the thread may still reach the charger or the wallbox.
- **Lost answers.**  A UDP acknowledgement, an HTTP answer or a session may be lost after
  its effect; the code must then treat the outcome as unknown.
- **Stale reports.**  The cloud serves the last report it has, of before a takeover or of
  before a write.
- **Crashes and restarts.**  Three `Store` files (endpoint journal, connection preference,
  handover boundary) are written at different moments of one handover.
- **Other owners.**  The wallbox's sockets can be changed by somebody else at any time.
- **Deadlines.**  Trials, budgets, readbacks and cooldowns expire while answers are late.

## 2. Plan

Done, most important behaviour first:

1. `Custody` (abstract) and `EndpointManager`, with `EndpointProofs`.
2. `ChargeModePolicy`, with `PolicyProofs`.
3. `NativeRouting`: router, connection preference, automatic fallback and polls across
   takeover, hand-back, crash and restart.
4. `WriteConfirmation`: readbacks, the one timer, the configuration cache.
5. `SessionGuard` with `NativeTransport`, and `TransportProofs`: one command at a time per
   session, protective Stop, recovery of a failed Start, limits that settle.
6. `SemsSession`: the lock of the SEMS client, the login, the cooldown, every request and
   the fence after a compound write whose outcome is unknown.
7. `ControlIntent`: deferred choices, the look at the cloud before a control, recovery of
   unsent or uncertain controls over TCP.
8. `Presentation`: what the entities that write show, and what they send again.
9. `CloudPolling`: when the coordinators read, and how far the events of the cloud are
   trusted.
10. Proofs about the modules of steps 3, 4 and 6 to 9: the route, the readbacks, the SEMS
    client, the deferred controls, what the entities show and the polling; and about the
    rest of the policy's properties (section 5).

What could follow is in section 7.

## 3. Modules and the code they model

| Module | Models | State | Actions |
|---|---|---|---|
| `Custody` | the promise of `native_endpoint.py` | Socket A, the durable record | note a baseline, take, point away, forget |
| `EndpointManager` | `native_endpoint.py` | Socket A and B, the datagram under way, `Store`, `journal`, the task in the lock, its worker thread | one per management command of the thread, one per continuation of the task, crash, loss, other owners |
| `ChargeModePolicy` | `charge_mode_policy.py`, `operation_budget.py`, `charge_mode_adapter.py` | both FIFO locks, version counters, budget, the executor job, the charger and what is reported of it | calls, lock acquisition, saves, job steps, continuations, deadline |
| `NativeRouting` | `native_coordinator.py`, `native_connection_intent.py`, `native_fallback.py` | preference, boundary and journal in memory and on disk, route, epoch, fallback timers, polls, wallbox and report | startup, selections, handovers step by step, tick, polls step by step, shutdown, crash |
| `WriteConfirmation` | `write_confirmation.py`, `native_cloud_settings.py`, `confirm_write` as `native_entities.py` uses it | tokens, owed readbacks, timer, `_refresh`, the reads under way, the valid configuration | request begins, gets the lock, is sent, is answered; reads begin and end; wake and refresh; handover; close; time |
| `SessionGuard` | `native_session_guard.py` | one record: limit, allowances, phase, error, tasks | one operator per method |
| `NativeTransport` | `native_transport.py` with the guard inside | connection, latest report, FIFO lock, a command per caller, `_pending`, guard, an expected disconnect | calls, each command from wait to wait, recovery of a failed Start, connection, registration, reports, cleanup, deadline, time |
| `SemsSession` | `sems_api.py`, `cloud_rate_limit.py`, `cloud_observation.py`, `cloud_command.py` | the request in the lock and where its job is, token, account, refused account, plant, delays, the fence, what the cloud still has to hand on, the charger's settings | one per request and answer, login step by step, expiry, cooldown, budget, new credentials, close |
| `ControlIntent` | `native_intent.py`, `native_control_fallback.py` | a pending choice per control, version, batch deadline, the task and the control it carries out, the preflight, the route | submissions, every step of the task and of the preflight, moves of the route, polls, close |
| `Presentation` | `optimistic_write.py` and the entities of `switch.py`, `select.py`, `number.py` | what is shown, the shared data, the writes with their baseline, the power that is wanted | calls of sixteen classes of entities, the policy's lock, answers, reports, the end of a wait |
| `CloudPolling` | `cloud_push.py`, `cloud_push_polling.py`, the timers of `coordinator.py` and `modbus_coordinator.py` | timers, the read under way, trust, subscription, route | polls, reads, refreshes, events, the round of every second, moves of the route, close, one second |
| `MCParts`, `MCPolicy`, `MCIntentPolling` | - | - | small instances of two or three modules that share a run, a part each: in every behaviour one part moves and the others rest in an initial state |
| the other `MC*` | - | - | a small instance of one module |
| `*Proofs` | - | - | theorems and their proofs |

Correspondence.  A coroutine's place between two `await`s is a program counter, and one
action is the code from one `await` to the next, with its early returns as disjuncts.
`asyncio.Lock` is the sequence of its waiters with the holder at the head, or the name of
the holder where the order of the waiters does not matter.  Executor and UDP threads have
their own steps.  Exceptions and cancellations are disjuncts of the action whose `await`
they end.  Versions and epochs are the counters of the code; token identity is the number
of the request.  Times are compared and not counted (`NativeRouting` numbers handovers and
reports, `SemsSession` only knows whether a delay is over), but for `WriteConfirmation`,
which counts the age of a readback in units of its five-second spacing, and
`CloudPolling`, which counts seconds: a second passes when all that is due in it is done.
Definitions whose name begins a `Mutant:` comment are not part of any specification: each
is a plausible slip in the operator after it, and shows that the property named with it in
`PROJECT.json` would notice.

What stands for the environment:

- `Store.async_save` that returns is durable; one that raises or is cut by a crash may have
  been; saves of one store reach the disk in the order of their calls.
- A datagram is applied or lost, and the wallbox deals with commands in order.  Other
  owners move Socket A only to destinations that are not this host's.
- SEMS and Home Assistant agree on the time, as the code's comparison of `lastUpdate` with
  the boundary assumes.
- SEMS applies the writes it accepted in their order, each now, later or never; a write it
  answers with a refusal is not applied; its detail has the charger's settings of now.
- A new coordinator starts after the polls of the old one have ended.

Left out on purpose: the cancellation of a waiter of a lock (Home Assistant does not
cancel a running service), takeovers that a failed control starts
(`native_control_fallback.py`), a second cancellation during the wait for the boundary's
lock, the one-shot refresh that an accepted write cancels, and the wording of outcomes.

## 4. Runs

| Run | Instance and bounds | What it shows |
|---|---|---|
| `parts` | the endpoint with two local endpoints, two others and two actions of other owners; two requests of the policy over TCP; one request's readback over two sources of reports and a handover | Socket A on this host implies a durable way back (`RecoverableOwnership`), a datagram swaps exactly the two ends of the record (`OnlyOwnValuesReplaced`), `Custody` is implemented (`ImplementsCustody`), every operation returns its lock (`LockReturned`); every caller of the policy is answered (`EveryRequestEnds`); no readback is owed for ever (`ReadbacksEnd`) |
| `policy_cloud` | three requests of nine kinds, two modes, two powers, stale reports; entities alone and in the pairs that share what they show, two writes, one report | Starts and Stops reach the charger in the order of their calls, at most once (`InCallOrder`), a Start goes out only in the mode and power that were wanted (`StartAsWanted`), a superseded request does nothing more (`FencedRequests`), nothing is sent after close (`NothingAfterClose`), the last accepted power stands (`PowerStands`); an entity shows its newest write while it waits (`NewestShown`), a failed write leaves nothing (`FailureLeavesNothing`), the newest power is what the charger is left with, unless a report came between or it was chosen after the one repetition of a Fast request had begun (`NewestPowerStands`) |
| `routing` | four startups or requested handovers, one poll, one crash | what is shown as available is from where the wallbox reports now (`AvailableIsCurrent`), a request routed to the cloud finds the wallbox there (`CloudControlReachesCloud`), the user's last selection is not undone by an automatic one (`ChoiceStands`), a finished shutdown leaves Socket A restored (`CleanStop`) |
| `routing_polls` | two overlapping polls, two handovers, one crash, saves of the boundary that fail | every handover ends (`TransitionsEnd`) |
| `confirmation` | two requests, one handover, a deadline of two units with a slot in each | what is owed is the newest request's (`NewestOnly`) on its route (`RouteOfRequest`), the timer is armed exactly while a readback is owed and nobody reads for it (`TimerWhileOwed`), a confirmed value is one the wallbox had since the write was accepted (`ConfirmedByWallbox`), a valid configuration is not older than the last completed write (`ValidIsRecent`) |
| `transport` | a user and the guard, six controls of both modes, six reports, two powers, two Stops, a grace of one unit, any number of connections | a frame goes only to the session its command was called in (`WrittenInSession`), a Start stays supervised (`StartIsSupervised`), "Stop confirmed" is said only after a Stop and a later stopped report (`ConfirmedAfterStop`), an alarm is not cleared while its Stop is due (`AlarmStays`), a load that is let pass was asked for recently (`ToleratedIsRecent`), alarms and starts come to an outcome (`GuardSettles`) |
| `session` | three calls: a write; one that meets its fence, a read or new credentials; another write or a close; two attempts, two rounds of the login, two accounts | no command is done twice or after it was reported refused (`DoneAtMostOnce`), nothing is sent and no session kept for credentials that were replaced (`SessionOfAccount`), no compound write undoes another setting however late it lands (`NothingReverted`), every call ends (`CallsEnd`) |
| `intent` | two choices of five kinds, one move of the route by others; a coordinator of the cloud, of cloud and TCP or of Modbus with an interval of six seconds, reads of one second, the real three reports, one handover | only a Start or Stop whose fate the cloud left open is carried out again, the Start only over TCP (`AgainOnlyOverTCP`), nothing replaced is begun (`NewestCarriedOut`), a pending Stop is not taken along by another control's failure (`StopKept`), every kept choice ends (`ChoicesEnd`); the next read is never farther than one configured interval and what it takes to notice (`SilenceBounded`), a closed entry arms nothing (`ClosedIsQuiet`) |
| `manual_kept`, `trials_end`, `stop_unsent`, `intent_latest` | as small as the counterexample allows | four places where the code does not do what its documentation says (section 6) |

Why the bounds are enough to see the interesting cases.  Two locals and two remotes are a
change of configuration and an owner that is neither.  Three requests are a Start, what
overtakes it and what overtakes that; two modes and two powers tell a stale value from a
wanted one.  Four operations of the router are a startup, a handover, the one that
overtakes or undoes it and a shutdown or another startup; `Limit = 1` makes every failed
poll the one that acts.  Two requests are the older and the newer choice of one field or
one of each source of reports; a deadline of two units has a slot before it and one at it,
and reads and timers may be late by any amount.  Two powers are a limit and one above or
below it; two Stops are a try and a repetition (the code makes three); one unit of grace
tells an allowance that still holds from one that does not.  Reports in `transport` are
chosen so that each test of the guard and of the commands has one that passes it and one
that does not; their order and number are free, and no wait has a length.  Three calls of
the SEMS client are a write, what meets its fence or its session, and what overtakes it.
Two choices are the one under way and the newer one of the same or another control.  Six
seconds of interval with reads of one second leave room for three reports that count, for
one that comes too late and for the doubled interval to run beyond the bound; the trust
takes its real number of reports, and two instead of three would break `SilenceBounded` by
an interleaving the code does not have (section 6).  Every run may legitimately stop (all
requests made, entry unloaded) and says `CHECK_DEADLOCK FALSE`; the liveness properties
are what notices a component that is stuck.

Fairness.  Assumed only of what asyncio, the executor and timers do by themselves: a
started thread ends, a continuation whose `await` is over runs, a deadline that has been
set expires, a timer that is due fires, a lock that is free is taken by its first waiter.
For the transport: the head of the lock's queue goes on or times out, a wait for a report
ends with it or at its timeout, the guard's tasks run, and the cleanup of a connection
ends.  No report and no connection is ever assumed to come.  For the SEMS client: a request
is answered or times out and a free lock is taken; that a login succeeds, a delay ends
or a write lands is not assumed.  For `ControlIntent`: the two tasks run, the batch
deadline expires, a handover that began ends.
Requests, crashes, losses, other owners, handovers of the user and new polls are never
assumed to happen.

## 5. Theorems

The proof modules prove the invariants for every value of the constants: any number of
requests, endpoints, modes, powers and owners, without the bounds of the runs.  They
assume only the `ASSUME`s of the modules, which say what the constants are; in
`ControlIntent` and `Presentation`, which `MCIntentPolling` and `MCPolicy` instantiate, the
same are the definitions `IntentConstants` and `PresentationConstants`, a hypothesis of each
theorem that those two assume of their own constants.  One theorem has a hypothesis beyond
that, `~SavesFail` (`RoutingProofs` below).

`EndpointProofs`: type correctness; `RecoverableOwnership`; `OnlyOwnValuesReplaced`;
`MemoryCoversStore`; and that `EndpointManager` implements `Custody`.  The invariants are
not inductive alone: a datagram may arrive long after the thread that sent it is gone.
The strengthening ties every datagram and every move of the thread to the durable record,
and the record in memory to the one on disk while the lock is held.  Refinement follows
step by step: each action is a step of `Custody` or leaves its two variables alone.

`PolicyProofs`: type correctness (a write always carries a complete target) and all the
safety properties of the `policy_cloud` run that are about the policy: `InCallOrder`,
`StartAsWanted`, `FencedRequests`, `NothingAfterClose`, `PowerStands`.  For `InCallOrder`
the inductive invariant `IInv` is the conjunction of

- `LockInv`: who waits for the lock, in which order, and that only its head works;
- `KindInv`: each place belongs to the kinds of request that have it;
- `StartLockInv`: the start lock holds Starts, in the order of their calls;
- `FenceInv`: how the counters a request remembers relate to the present ones and to what
  was called after it;
- `OrderInv`: what may still be delivered is newer than everything that was.

`OrderInv` alone breaks at the step in which a Start passes its last check: only
`FenceInv` says that an unchanged start intent means no Stop was called since, and only
`LockInv` that nobody else is on the way to the charger then.

The other properties have a strengthening each.

- `BudgetInv`, `CloseInv`: whoever works under a budget is still wanted or its budget has
  been told so; once `async_close` has returned, only a Stop works.  The properties are
  about the step at which a job passes its last check, or leaves this host after it.
- `StartInv`: what a Start has prepared is what is remembered; what a report that advanced
  since its first read says of the charger; and that a Start on its way (`ReadyInv`) finds
  it as it was left.  The confirmation is why: a report that advanced shows the session and
  either the mode of now or the one that was planned, and only the holder writes.
- `PowerInv`: the newest request of the others is the only one that is current
  (`NewestInv`), a power request is pending exactly while it is that one (`PendingInv`), and
  a power that was taken is remembered, or the request it repeated is still to come or has
  failed (`TakenInv`).

`RoutingProofs`: type correctness, `ChoiceStands`, `CleanStop`, `CloudControlReachesCloud`
and `AvailableIsCurrent`, for any number of handovers, crashes and polls that overlap.
`RouteInv` has fifteen parts.  Most say what goes together at one moment: who may hold the
policy's lock in which life of the entry, which save of the preference has somebody that
waits for it, that nothing is shown between two transports, and that a poll of the present
epoch is of the transport in use.  Two ideas carry the rest.

- The wallbox is with the host only under a journal on disk (`JournalInv`), and once a
  return has been *covered* by a boundary, every report of before is older than the boundary
  (`ReachInv`): so a router that is on the cloud with no boundary open is not wrong about it.
- A report that is not older than the boundary is from the present stay (`BoundaryInv`), in
  memory and, for the restart, on disk.  A poll carries its report through three `await`s;
  `AnswerInv`, `PassedInv` and `ReportInv` say what is still known of it at each, and
  `EpochInv` that nothing of another epoch is published.

`BoundaryInv` holds only if the boundary can be saved, so `ReadingsAreCurrent` has the
hypothesis `~SavesFail`; `routing` checks the property under the same condition, and
section 6 says at `native_coordinator.py:263` what happens otherwise.  The other theorems
hold when saves of the boundary fail, too.

`IntentPollingProofs` has the theorems of both parts of `MCIntentPolling`.  Of
`ControlIntent`: type correctness, `AgainOnlyOverTCP`, `NewestCarriedOut` and
`StopKept`, for any number of choices and of moves of the route by others.  `IntentInv` is
the types and `ShapeInv` (what the task, the preparation and the route may be at
together), `NumberInv` (a control that is pending is the newest of its kind; one that is
carried out is, or a newer one of its kind is pending, and it certainly is if nothing was
chosen since the task began), `SentInv` (what a control may
already have done at each stage of its recovery), `AgainInv` (between the status over TCP
and the second command the route is TCP, unless it has moved) and `MovingInv`.  The task has
fourteen actions and they do four things to a control: begin it, give it up, take it back,
or go on with it.  `TaskWays` shows that once for each action; what each of the four keeps
is then shown once.

`TransportProofs`: type correctness and all the safety properties of the `transport` run:
`StartIsSupervised`, `AlarmStays`, `WrittenInSession`, `ConfirmedAfterStop` and
`ToleratedIsRecent`, for any number of callers, powers, reports and write attempts and any
grace.  Only the first is nearly inductive; the others need, in `IInv`,

- `HolderInv`: who waits for more than the lock is its holder, so what one step knows of
  the lock's head it knows of the only command at work;
- `ProtectInv`, `AlarmInv`: the guard's task, its command and its alarm come and go
  together, and `_serve` does not end before the task.  Without them an alarm could be
  cleared under a Stop that is still due;
- `PendingInv`: a report is awaited only in the session of the command that awaits it.
  The later attempts of a write do not look at the epoch again; this is why they need not;
- `StopInv`, `GuardStopInv`: what the last frame was, and whether a stopped report came
  after it, at each place where a Stop is awaited.  `ConfirmedAfterStop` is the step that
  reads them;
- `GraceInv`: every power up to the limit, or up to an allowance that still runs, was asked
  for within the grace.

The proof of each part has a lemma per group of actions (commands, recovery, connection,
guard, time), and `TransportInvariant` puts them together.

`WriteConfirmationProofs`: `NewestOnly`, `TimerWhileOwed` and `RouteOfRequest`, for any
number of requests, fields, sources of reports and handovers and any deadline.  `OwedInv` is
`ShapeInv`, those three, and `NewestInv`: the requests in the lock, their tokens and the
newest token of each field.  Its proof does not look at the actions one by one but at what a
step does to what is owed.  A step *keeps* it or lets some of it fade, *begins* a request,
which takes the older ones of its fields away, or *arms* the readback of a request that is
still the newest.  Each action is one of the three.

The same module proves `ConfirmedByWallbox` and `ValidIsRecent`, which speak of a past the
code does not keep.  `HeldInv` says that a read that will count for a readback has seen
only values the wallbox had since it was armed; `WrittenInv` that between a setting's write
and the read after it, which share the lock, there are only the values that were written;
`ConfigurationInv` that a configuration that may be published is not from before.

`SemsSessionProofs`: type correctness, `DoneAtMostOnce` and `SessionOfAccount`, for any
sequence of calls, number of attempts, accounts and rounds of the login.  `JobInv` says
who has the lock and which request each kind of call may be at, `SentInv` that a command may
have reached the charger only once, and that its call has then ended as done or as unsure.

The same module proves `NothingReverted`.  `FenceInv` says that of the compound writes that are
accepted or lost and not yet applied only the newest, the one the fence is up for, can
change anything, and only the setting it was asked for; and that whoever has read behind the
fence, or is about to write, has only writes before it that change nothing.  The fence is
why one write at most is in doubt, and its read why the next one copies what that one left.

Of `CloudPolling`, in `IntentPollingProofs`, too: `SilenceBounded` and `ClosedIsQuiet`.
`PollingAssumption` is used here: the trust takes more reports than a refresh may wait for
seconds.  `FarInv` says that a poll farther than the interval is there only for trust that
was just confirmed, or with a refresh due; `LateInv` that the refresh of an earlier epoch is
over before enough reports have come, because each takes a second; `TrustInv` and `EpochInv`
how old what is trusted may be and whose it is.  With two reports instead of three `LateInv`
is false (section 6).

`PresentationProofs`: type correctness, `NewestShown`, `FailureLeavesNothing` and
`NewestPowerStands`, for any number of calls, any reports and every set of classes in play.
At its end `PolicyProofs`, which knows `MCPolicy`, restates the last three under the names
that the run checks, of `PresentationProofs` instantiated as `MCPolicy` instantiates
`Presentation`.  `EntitiesInv` is the types and

- `StageInv`, `LockInv`, `OrderInv`: which stages a class of entities knows, that one write
  holds the policy's lock, and that the lock is taken in the order of the calls.  A write
  that overtook an older one of its entity would otherwise be presented under it;
- `OwnerInv`: nobody but the newest write of an entity owns what it presented, and it does
  until it is answered.  So a rollback of an older write finds a token that is not its own;
- `WaitInv`, `FailedInv`: `NewestShown` and the first half of `FailureLeavesNothing` with
  what the entity waits for, which a report reads before the next one is shown;
- `DataInv`: the shared data have the reported power or an accepted one, unless a power is
  on its way; then what was there before it is known, and its rollback puts back just that;
- `NumberedInv`, `PowerInv`: as long as a history is one `NewestPowerStands` speaks of, the
  power in the shared data is the chosen one but for one that is being saved (`Chosen`), a
  Fast request knows what it carries and what was there before it (`Informed`), and the
  charger has the power of the shared data unless a request that will see to it is under
  way (`Left`).

Checked by TLC only: liveness (all of it), which is beyond the prover under fairness, and
the four properties the code violates (section 6).

## 6. Where the code and its documentation differ

- `native_connection_intent.py:29`: a cloud poll that withdraws the outage hint while the
  user's selection of TCP is being saved queues its own save behind it; the selection is
  in memory and carried out, and gone after a restart (`manual_kept`;
  `docs/NATIVE_TCP.md:240`).
- `native_coordinator.py:354`: a selection by the user pauses the supervisor that would
  clear a trial's deadline; once it has passed every cloud poll fails, until the entry is
  reloaded or TCP is selected and left again (`trials_end`; `docs/NATIVE_TCP.md:150`).
- `native_transport.py:88`: the protective Stop waits for the lock of all commands and its
  20 seconds include the wait.  Behind a power command that is not confirmed (30 seconds)
  or a Start that waits for an idle report (60 seconds) it is given up without having been
  sent, although the session is there; the guard says that it could not confirm the Stop
  (`stop_unsent`; `README.md:511`).
- `native_intent.py:146`: a control that is overtaken by a newer choice while it is being
  recovered over TCP was not sent, and should leave the newer one to be carried out.  The
  operation it awaits is wrapped by `NativeEntity.invoke`, which turns `RequestSuperseded`
  into a `HomeAssistantError`; the handler at line 146 knows only the class (the one at
  line 128 knows both), so the newer choice of mode or power is discarded
  (`intent_latest`; `docs/NATIVE_TCP.md:353`).

Observations that no run reports:

- `native_endpoint.py:98`, "never overwrite another owner", holds up to the last read
  before the write at line 155: the wallbox has no compare-and-set.
- `native_transport.py:285`: a command that leaves its quiet moment while the cleanup of
  its connection waits for the guard's tasks can still set the guard's limit, which then
  stands without a session until the next one.
- `native_session_guard.py:188`: when an explicit Stop has disarmed the guard and the session
  ends before the protective Stop got the lock, the alarm stays at "Stop pending".
- `native_coordinator.py:295`: a return to the cloud that fails while the transport is
  unavailable sets the guard's error and leaves its phase; the deadline then does nothing.
- `native_transport.py:622`: a command that fails closes whichever connection is current,
  its own or a newer one.
- `native_coordinator.py:263`: a takeover that first restores the endpoint clears the
  journal without a boundary of its own; if the boundary of the one before could not be
  saved, a crash there leaves nothing that keeps an old report out.
- `native_intent.py`: the deadline is the batch's, so a Stop that joins an old batch may
  expire young; a preparation that fails discards a newer Stop with the rest; a Stop may
  be sent over the cloud again when the user moves the route back during its recovery.
  `docs/NATIVE_TCP.md:354` says that an uncertain Start is never replayed; the recovery
  repeats one over TCP after it has seen a verified idle report there.
- `sems_api.py`: an accepted write that the cloud loses leaves the fence up until the
  entry is reloaded; the fence is not kept across a restart.
- `select.py:262`: a Fast request that finds another power chosen is sent once more and does
  not look again, so a power chosen during the repetition meets it in the executor; the
  requests share the lock at `sems_api.py:127`, which promises no order.
- `charge_mode_policy.py`: a repeated Start under the policy is shown ON at once, before
  anything acknowledged it; a power chosen while the report still shows a PV mode is only
  saved, so a legacy Fast request that is under way keeps the older power; the baseline of
  a write (`optimistic_write.py`) is captured before the wait for the lock, so a report
  that comes between may keep the re-send of `select.py:262` from happening.
- `cloud_push_polling.py`: if a handover out and back and all the reports that renew the
  trust fitted into the two seconds a refresh of the earlier epoch may still wait, the
  refresh that is due would be dropped and the scheduled poll would stay at twice the
  interval.  Two reports fit; three do not, because a subscription takes a second and the times of
  reports are whole seconds.  While a handover is under way a poll may be
  due late.

## 7. Not modelled

- `native_idle_polling.py` and its two subclasses: a read-only loop whose one rule is a
  comparison of epochs around an `await`.
- The classifiers (`cloud_data.py`, `observed_state.py`, `cloud_capabilities.py`,
  `cloud_current_limit.py`): they keep no state; the models take their verdicts as a free
  choice, which includes every verdict they could give.
- `wallbox_modbus.py`: the policy and the entities model what its callers do with an answer
  or a failure; the registers behind it are formats.
- `sensor.py`, `button.py`, `binary_sensor.py`, byte layouts and parsing of frames,
  checksums, HTTP payloads and headers, the forms of the configuration flow, diagnostics
  and constants: they keep no state that outlives a call, or only show state that the
  modules above publish.
- Of the TCP transport: the snapshots of its storage and Auto start, the write of the
  minimum power (checked like a mode), the Start in the foreground that diagnostic tests
  use with its observation window, the idle reads that the adapter repeats, and the limit
  of sixteen queued commands.
- Of the SEMS client: signatures and payloads, a peer reset that repeats a read inside the
  gate, the second detail read of a minimum-power write behind a fence.
- Of the intent: a control given while nothing is pending and no look at the cloud is due;
  it runs at once as the policy's operation.
- Of the entities: ranges, units, rounding and names.
- Of the polling: the cooldown of Home Assistant's debouncer, and a reauthentication that
  replaces the push while the interval is doubled.

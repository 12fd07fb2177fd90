---------------------------- MODULE Presentation ----------------------------
(***************************************************************************)
(* What the entities show while their writes are under way: optimistic_      *)
(* write.py with the entity classes of switch.py, number.py and select.py    *)
(* and the decorators of charge_mode_policy.py they are written with.        *)
(*                                                                         *)
(* One charger, with one or two entities in play.  A write is called, waits  *)
(* for the policy's lock where its class does, is sent, and is answered      *)
(* after it was applied, or fails; a report may say anything, as a cloud     *)
(* that lags does.  The charger's power is followed, because two entities    *)
(* write it: Fast mode carries a power limit.                                *)
(***************************************************************************)
EXTENDS Integers, Sequences, FiniteSets

CONSTANTS None,
          MaxCalls,   \* bound: writes the user asks for
          MaxReports  \* bound: reports that arrive

Fields == {"mode", "power", "own"}
Values == {0, 1}      \* Fast mode is 0, a Start is 1
FastMode == 0

(* The classes: what they show beside a report, how a write goes out, which  *)
(* report they need, and whether a stopped charger ends the wait for a Start. *)
Class(name, field, shows, via, needs) ==
    [name |-> name, field |-> field, shows |-> shows, via |-> via, needs |-> needs]

ModeSelect      == Class("mode", "mode", "pending", "mode", "detail")
PowerNumber     == Class("power", "power", "wanted", "power", "detail")
ChargingSwitch  == Class("charging", "own", "pending", "charging", "update")
ConfigSwitch    == Class("config", "own", "pending", "setting", "detail")
PlugAndCharge   == Class("plug", "own", "report", "setting", "detail")
MinimumPower    == Class("minimum", "own", "report", "setting", "detail")
OutputLimit     == Class("output", "own", "pending", "setting", "detail")
CurrentLimit    == Class("current", "own", "report", "setting", "detail")
ModeParameter   == Class("parameter", "own", "pending", "setting", "detail")
DurationSelect  == Class("duration", "own", "pending", "setting", "detail")
ModbusMode      == Class("modbus mode", "mode", "pending", "mode", "update")
ModbusPower     == Class("modbus power", "power", "wanted", "power", "detail")
ModbusStartStop == Class("modbus charging", "own", "pending", "charging", "update")
ModbusSwitch    == Class("modbus switch", "own", "pending", "setting", "update")
ModbusNumber    == Class("modbus number", "own", "pending", "setting", "update")
ModbusDuration  == Class("modbus duration", "own", "pending", "setting", "detail")

Classes == {ModeSelect, PowerNumber, ChargingSwitch, ConfigSwitch, PlugAndCharge, MinimumPower,
            OutputLimit, CurrentLimit, ModeParameter, DurationSelect, ModbusMode, ModbusPower,
            ModbusStartStop, ModbusSwitch, ModbusNumber, ModbusDuration}
Charging == {ChargingSwitch, ModbusStartStop}

\* In play: a class alone, or two that share what they show.
Plays == {{c} : c \in Classes} \cup {{ModeSelect, PowerNumber}, {ModbusMode, ModbusPower},
                                     {ModeSelect, ChargingSwitch}}

\* Any bounds do; None is no value.
PresentationConstants == MaxCalls \in Nat /\ MaxReports \in Nat /\ None \notin Values

VARIABLES play,     \* the classes in play
          enabled,  \* the policy restores the mode, and every setting takes its lock
          desired,  \* ChargeModePolicy.desired_power
          report,   \* the last report
          data,     \* coordinator.data: the last report, but for a power being written
          fresh,    \* last_update_success
          pend,     \* [Fields -> the value an entity waits to see reported, or None]
          live,     \* [Fields -> whether it still may wait]
          owner,    \* [Fields -> _optimistic_write or command token: a write, or 0]
          shown,    \* [Fields -> the state Home Assistant has]
          writes,   \* the calls, in their order
          version,  \* ChargeModePolicy._version
          device,   \* the power limit last written to the charger, if any was
          reports   \* reports so far

vars == <<play, enabled, desired, report, data, fresh, pend, live, owner, shown, writes,
          version, device, reports>>

Maybe == Values \cup {None}
Ends == {"ok", "failed", "refused"}
Write == [class : Classes, value : Values, at : {"lock", "saving", "policy", "sent", "again"} \cup Ends,
          version : 0..MaxCalls, staged : BOOLEAN, presented : BOOLEAN, settled : BOOLEAN,
          current : BOOLEAN, late : BOOLEAN, before : [Fields -> Maybe], power : Maybe]

TypeOK ==
    /\ play \in Plays /\ enabled \in BOOLEAN /\ fresh \in BOOLEAN
    /\ desired \in Maybe /\ device \in Maybe
    /\ report \in [Fields -> Maybe] /\ data \in [Fields -> Maybe]
    /\ pend \in [Fields -> Maybe] /\ live \in [Fields -> BOOLEAN] /\ shown \in [Fields -> Maybe]
    /\ owner \in [Fields -> 0..MaxCalls]
    /\ writes \in Seq(Write) /\ Len(writes) <= MaxCalls
    /\ version \in 0..MaxCalls /\ reports \in 0..MaxReports

\* A detail read that fails leaves the session's telemetry: only charging is known.
\* What nobody in play looks at is always the same.
Detail   == {r \in [Fields -> Values] :
                /\ (\A c \in play : c.field # "own") => r["own"] = 0
                /\ (\A c \in play : c.field # "power") => r["power"] = 0
                /\ (\A c \in play : c.field = "own") => r["mode"] = 0}
NoDetail == {r \in [Fields -> Maybe] :
                /\ r["mode"] = None /\ r["power"] = None
                /\ IF play \cap Charging # {} THEN r["own"] # None ELSE r["own"] = None}
Reports  == Detail \cup NoDetail

ShownAtFirst(c) == IF c.shows = "wanted" /\ desired # None THEN desired ELSE report[c.field]

Init ==
    /\ play \in Plays /\ enabled \in BOOLEAN
    /\ report \in Detail /\ data = report /\ fresh = TRUE
    /\ desired \in {None, 0}
    /\ pend = [f \in Fields |-> None] /\ live = [f \in Fields |-> FALSE]
    /\ owner = [f \in Fields |-> 0]
    /\ shown = [f \in Fields |-> IF \E c \in play : c.field = f
                                 THEN ShownAtFirst(CHOOSE c \in play : c.field = f) ELSE None]
    /\ writes = << >> /\ version = 0 /\ device = None /\ reports = 0

-----------------------------------------------------------------------------
(* Presentation.                                                             *)

\* What an entity shows for a report, and whether it goes on waiting for another.
Waits(c, d, p, l) == c.shows = "pending" /\ p # None /\ l /\ d[c.field] # p
Show(c, d, p, l) ==
    IF c.shows = "wanted" /\ desired # None THEN desired
    ELSE IF Waits(c, d, p, l) THEN p ELSE d[c.field]

\* The write of a value is presented: by entities that show what they wait for.
Presents(c, v) ==
    IF c.shows = "pending"
    THEN /\ pend' = [pend EXCEPT ![c.field] = v] /\ live' = [live EXCEPT ![c.field] = TRUE]
         /\ shown' = [shown EXCEPT ![c.field] = v]
    ELSE UNCHANGED <<pend, live>> /\ shown' = [shown EXCEPT ![c.field] = Show(c, data, None, FALSE)]

\* Mutant: whichever write fails clears what is presented.
ClearedWhoever(i) ==
    LET w == writes[i] f == w.class.field IN
    /\ data' = IF f = "power" /\ w.current /\ data[f] = w.value THEN [data EXCEPT ![f] = w.before[f]] ELSE data
    /\ pend' = [pend EXCEPT ![f] = None] /\ owner' = [owner EXCEPT ![f] = 0]
    /\ shown' = [shown EXCEPT ![f] = Show(w.class, data', None, FALSE)]

\* Mutant: the value of before the write is put back whatever was reported since.
ClearedBlindly(i) ==
    LET w == writes[i] f == w.class.field IN
    IF owner[f] # i THEN UNCHANGED <<data, pend, owner, shown>>
    ELSE /\ data' = IF f = "power" THEN [data EXCEPT ![f] = w.before[f]] ELSE data
         /\ pend' = [pend EXCEPT ![f] = None] /\ owner' = [owner EXCEPT ![f] = 0]
         /\ shown' = [shown EXCEPT ![f] = Show(w.class, data', None, FALSE)]

\* OptimisticWrite.rollback, and the failure of a direct command: nothing is cleared
\* for a newer write, and a newer report is kept.  Only a power is in shared data.
Cleared(i) ==
    LET w == writes[i] f == w.class.field IN
    IF owner[f] # i THEN UNCHANGED <<data, pend, owner, shown>>
    ELSE /\ data' = IF f = "power" /\ w.current /\ data[f] = w.value THEN [data EXCEPT ![f] = w.before[f]] ELSE data
         /\ pend' = [pend EXCEPT ![f] = None] /\ owner' = [owner EXCEPT ![f] = 0]
         /\ shown' = [shown EXCEPT ![f] = Show(w.class, data', None, FALSE)]

Released(i) == owner' = [f \in Fields |-> IF owner[f] = i THEN 0 ELSE owner[f]]

-----------------------------------------------------------------------------
(* Calls.                                                                    *)

Available(c) == fresh /\ (c.needs = "detail" => data["mode"] # None)

\* The mode goes through the policy when that restores modes, or has a power for Fast.
ByPolicy(c, v) == c.via = "mode" /\ (enabled \/ (v = FastMode /\ desired # None))

NewWrite(c, v, at) ==
    [class |-> c, value |-> v, at |-> at, version |-> version', staged |-> FALSE,
     presented |-> at = "sent", settled |-> FALSE, current |-> TRUE,
     late |-> FALSE, before |-> data, power |-> None]

Added(w) == writes' = Append(writes, w)
Next1 == Len(writes) + 1
Owned(c) == owner' = [owner EXCEPT ![c.field] = Next1]

\* A setting of an entry whose policy is off, and a charging command of one.
CallAtOnce(c, v) ==
    /\ c.via \in {"setting", "charging"} /\ ~enabled
    /\ version' = version /\ Added(NewWrite(c, v, "sent"))
    /\ Owned(c) /\ Presents(c, v)

\* A setting or a power waits for the lock and fences what waits there; a power is
\* only saved while the charger reports another mode than Fast.
CallLocked(c, v) ==
    /\ (c.via = "setting" /\ enabled) \/ c.via = "power"
    /\ version' = version + 1
    /\ Added([NewWrite(c, v, "lock") EXCEPT !.staged = (c.via = "power" /\ data["mode"] # FastMode)])
    /\ UNCHANGED <<owner, pend, live, shown>>

\* A mode owns the presentation from its call on, before it waits for the lock.
CallMode(c, v) ==
    /\ c.via = "mode"
    /\ version' = version + 1 /\ Added(NewWrite(c, v, "lock")) /\ Owned(c)
    /\ UNCHANGED <<pend, live, shown>>

StartUnderWay ==
    \E i \in DOMAIN writes :
        /\ writes[i].at = "policy" /\ writes[i].class \in Charging /\ writes[i].value = 1
        /\ writes[i].version = version

\* A command of the policy is presented when it is through; a Start that repeats one
\* under way is through at once.
CallCharging(c, v) ==
    /\ c.via = "charging" /\ enabled
    /\ version' = IF v = 0 THEN version + 1 ELSE version
    /\ Owned(c)
    /\ IF v = 1 /\ StartUnderWay
       THEN Added([NewWrite(c, v, "ok") EXCEPT !.presented = TRUE]) /\ Presents(c, v)
       ELSE Added(NewWrite(c, v, "policy")) /\ UNCHANGED <<pend, live, shown>>

Call ==
    /\ Len(writes) < MaxCalls
    /\ \E c \in play, v \in Values :
        /\ Available(c)
        /\ CallAtOnce(c, v) \/ CallLocked(c, v) \/ CallMode(c, v) \/ CallCharging(c, v)
    /\ UNCHANGED <<play, enabled, desired, report, data, fresh, device, reports>>

-----------------------------------------------------------------------------
(* The lock of the policy.                                                   *)

Holds(i) ==
    \/ writes[i].at = "saving"
    \/ writes[i].at = "policy" /\ writes[i].class.via = "mode"
    \/ writes[i].at = "sent" /\ (writes[i].class.via = "power" \/ (writes[i].class.via = "setting" /\ enabled))
MayTake(i) ==
    /\ writes[i].at = "lock"
    /\ \A j \in DOMAIN writes : ~Holds(j) /\ (j < i => writes[j].at # "lock")

At(i, at) == writes' = [writes EXCEPT ![i].at = at]

\* A mode is answered for by its presentation even when it is refused at the lock.
Refused(i) ==
    /\ At(i, "refused")
    /\ IF writes[i].class.via = "mode" THEN Cleared(i) ELSE UNCHANGED <<data, pend, owner, shown>>
    /\ UNCHANGED <<desired, live>>

\* The write is presented and sent: a power in the shared data, too.
Sends(i) ==
    LET w == writes[i] c == w.class IN
    /\ data' = IF c = PowerNumber THEN [data EXCEPT !["power"] = w.value] ELSE data
    /\ owner' = [owner EXCEPT ![c.field] = i]
    /\ writes' = [writes EXCEPT ![i].at = "sent", ![i].presented = TRUE,
                      ![i].current = @ \/ c.via # "mode",
                      ![i].late = c = PowerNumber /\ \E j \in DOMAIN writes : writes[j].at = "again",
                      ![i].before = IF c.via = "mode" THEN @ ELSE data,
                      ![i].power = IF c.via = "mode" /\ w.value = FastMode THEN data["power"] ELSE None]
    /\ Presents(c, w.value)

Take ==
    /\ \E i \in DOMAIN writes :
        /\ MayTake(i)
        /\ IF writes[i].version # version THEN Refused(i)
           ELSE \/ /\ writes[i].class.via = "setting"
                   /\ Sends(i) /\ UNCHANGED desired
                \/ /\ writes[i].class.via = "power"
                   /\ desired' = writes[i].value /\ At(i, "saving")
                   /\ UNCHANGED <<data, pend, live, owner, shown>>
                \/ /\ writes[i].class.via = "mode"
                   /\ At(i, "saving") /\ UNCHANGED <<desired, data, pend, live, owner, shown>>
    /\ UNCHANGED <<play, enabled, report, fresh, version, device, reports>>

\* The choice is saved: it may have been overtaken meanwhile.
Saved ==
    /\ \E i \in DOMAIN writes :
        /\ writes[i].at = "saving"
        /\ IF writes[i].version # version THEN Refused(i)
           ELSE IF ByPolicy(writes[i].class, writes[i].value)
           THEN At(i, "policy") /\ UNCHANGED <<data, pend, live, owner, shown, desired>>
           ELSE IF writes[i].staged
           THEN /\ At(i, "ok") /\ shown' = [shown EXCEPT !["power"] = desired]
                /\ UNCHANGED <<data, pend, live, owner, desired>>
           ELSE Sends(i) /\ UNCHANGED desired
    /\ UNCHANGED <<play, enabled, report, fresh, version, device, reports>>

-----------------------------------------------------------------------------
(* Answers.                                                                  *)

PowerOf(w) ==
    IF w.class.via = "power" THEN w.value
    ELSE IF w.class.via = "mode" /\ w.value = FastMode
    THEN (IF w.at = "policy" THEN desired ELSE w.power) ELSE None
Applied(w) == device' = IF PowerOf(w) = None THEN device ELSE PowerOf(w)

\* Mutant: the power chosen during a Fast request is not sent again.
SendsNotAgain(i) == FALSE

\* async_select_option: the power entity wrote another power meanwhile.
SendsAgain(i) ==
    LET w == writes[i] IN
    /\ w.class = ModeSelect /\ w.value = FastMode /\ owner["mode"] = i
    /\ pend["mode"] = FastMode \/ data["mode"] = FastMode
    /\ data["mode"] \in {FastMode, w.before["mode"]}
    /\ data["power"] \notin {None, w.power, w.before["power"]}

Succeeds ==
    /\ \E i \in DOMAIN writes :
        /\ writes[i].at \in {"sent", "again"}
        /\ Applied(writes[i])
        /\ IF writes[i].at = "sent" /\ SendsAgain(i)
           THEN /\ writes' = [writes EXCEPT ![i].at = "again", ![i].power = data["power"]]
                /\ UNCHANGED owner
           ELSE At(i, "ok") /\ Released(i)
    /\ UNCHANGED <<play, enabled, desired, report, data, fresh, pend, live, shown, version, reports>>

\* A policy that is through: the mode is not presented but read back, a command only
\* when no newer one was called.
PolicySucceeds ==
    /\ \E i \in DOMAIN writes :
        LET w == writes[i] IN
        /\ w.at = "policy" /\ Applied(w)
        /\ IF w.class.via = "mode"
           THEN /\ pend' = [pend EXCEPT !["mode"] = None] /\ UNCHANGED <<live, shown>>
                /\ At(i, "ok") /\ Released(i)
           ELSE IF owner["own"] = i
           THEN /\ Presents(w.class, w.value) /\ UNCHANGED owner
                /\ writes' = [writes EXCEPT ![i].at = "ok", ![i].presented = TRUE]
           ELSE At(i, "ok") /\ UNCHANGED <<pend, live, shown, owner>>
    /\ UNCHANGED <<play, enabled, desired, report, data, fresh, version, reports>>

\* A refusal, an unknown outcome or a timeout; a command of the policy presented
\* nothing yet.
Fails ==
    /\ \E i \in DOMAIN writes :
        LET w == writes[i] IN
        /\ w.at \in {"sent", "again", "policy"}
        /\ Applied(w) \/ UNCHANGED device
        /\ At(i, "failed")
        /\ IF w.at = "policy" /\ w.class.via = "charging"
           THEN UNCHANGED <<data, pend, owner, shown>> ELSE Cleared(i)
    /\ UNCHANGED <<play, enabled, desired, report, fresh, live, version, reports>>

-----------------------------------------------------------------------------
(* Reports and time.                                                         *)

\* A report replaces the data; a charger that stopped ends the wait for a Start.
Report ==
    /\ reports < MaxReports /\ reports' = reports + 1 /\ fresh' = TRUE
    /\ \E r \in Reports, stopped \in BOOLEAN :
        /\ stopped => ModbusStartStop \in play /\ r["own"] = 0
        /\ report' = r /\ data' = r
        /\ LET p == IF stopped /\ pend["own"] = 1 THEN [pend EXCEPT !["own"] = None] ELSE pend
               waits(f) == \E c \in play : c.field = f /\ Waits(c, r, p[f], live[f]) IN
           /\ pend' = [f \in Fields |-> IF waits(f) THEN p[f] ELSE None]
           /\ shown' = [f \in Fields |-> IF \E c \in play : c.field = f
                        THEN LET c == CHOOSE x \in play : x.field = f IN Show(c, r, p[f], live[f])
                        ELSE None]
           /\ writes' = [i \in DOMAIN writes |->
                [writes[i] EXCEPT !.current = FALSE,
                    !.settled = @ \/ (writes[i].presented /\
                                     (r[writes[i].class.field] = writes[i].value
                                      \/ (stopped /\ writes[i].value = 1)))]]
    /\ UNCHANGED <<play, enabled, desired, live, owner, version, device>>

ReportFails ==
    /\ fresh /\ fresh' = FALSE
    /\ UNCHANGED <<play, enabled, desired, report, data, pend, live, owner, shown, writes, version, device, reports>>

\* The time an entity waits is over; it shows so with the next report.
WaitOver ==
    /\ \E f \in Fields :
        /\ pend[f] # None /\ live[f] /\ live' = [live EXCEPT ![f] = FALSE]
        /\ writes' = [i \in DOMAIN writes |->
               [writes[i] EXCEPT !.settled = @ \/ (writes[i].presented /\ writes[i].class.field = f)]]
    /\ UNCHANGED <<play, enabled, desired, report, data, fresh, pend, owner, shown, version, device, reports>>

Next == \/ Call \/ Take \/ Saved \/ Succeeds \/ PolicySucceeds \/ Fails
        \/ Report \/ ReportFails \/ WaitOver

Spec == Init /\ [][Next]_vars

-----------------------------------------------------------------------------
(* Properties.                                                               *)

Newest(i) == \A j \in DOMAIN writes : writes[j].class = writes[i].class => j <= i
Rests == \A i \in DOMAIN writes : writes[i].at \in Ends

\* The newest write of an entity is what it shows until a report confirms it or the
\* wait is over: no older write that fails or ends late takes it away, nor does a
\* report that lags.
NewestShown ==
    \A i \in DOMAIN writes :
        LET w == writes[i] IN
        /\ Newest(i) /\ w.class.shows = "pending"
        /\ w.presented /\ w.at \in {"sent", "again", "ok"} /\ ~w.settled
        => shown[w.class.field] = w.value

\* A write that failed leaves nothing of itself: the entity shows the last report, for
\* as long as no other write is asked for.
FailedNotShown ==
    \A i \in DOMAIN writes :
        LET w == writes[i] IN
        /\ Newest(i) /\ w.class.shows # "wanted" /\ w.presented /\ w.at = "failed"
        => shown[w.class.field] = report[w.class.field]

\* With no power on its way, the shared data have the power of the last report or one
\* the charger accepted since: a failure neither leaves its own there nor takes a
\* report's away.
PowerReported ==
    Rests => \/ data["power"] = report["power"]
             \/ \E i \in DOMAIN writes :
                    /\ writes[i].class = PowerNumber /\ writes[i].value = data["power"]
                    /\ writes[i].at = "ok" /\ writes[i].current /\ ~writes[i].staged

\* Neither on the entity nor in the shared data.
FailureLeavesNothing == FailedNotShown /\ PowerReported

\* The newest power chosen during a Fast request is the one the charger is left with,
\* unless a report came between or the power was only saved: a request that carries an
\* older one is followed by another.  Only one: nothing answers for a power chosen while
\* that other is under way, nor for two requests of the mode that end in either order.
NewestPowerStands ==
    /\ Rests
    /\ \E i \in DOMAIN writes : writes[i].class = PowerNumber
    /\ \A i, j \in DOMAIN writes : writes[i].class = ModeSelect /\ writes[j].class = ModeSelect => i = j
    /\ \A i \in DOMAIN writes :
           writes[i].at = "ok" /\ writes[i].current /\ ~writes[i].staged /\ ~writes[i].late
    => device = desired
=============================================================================

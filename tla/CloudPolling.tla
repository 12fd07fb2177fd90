---------------------------- MODULE CloudPolling ----------------------------
(***************************************************************************)
(* When a coordinator reads: cloud_push.py and cloud_push_polling.py with    *)
(* the timers of coordinator.py and modbus_coordinator.py.                   *)
(*                                                                         *)
(* Polling is authoritative.  Events of the cloud's broker only hint that a  *)
(* read is due, and while they prove themselves the interval is doubled; a   *)
(* check every second takes that back.  Time is counted in those seconds; a  *)
(* second passes when everything that is due in it has been done.            *)
(***************************************************************************)
EXTENDS Integers

CONSTANTS Base,       \* the configured interval
          ReadTime,   \* how long a read may take
          HintLife,   \* how old a hint may be that counts for a report
          Spacing,    \* MIN_REFRESH_INTERVAL
          Retry,      \* the pause after a broken subscription or a Modbus failure
          Required,   \* REQUIRED_REPORTS
          MaxMoves    \* bound: changes of the route

\* The trust takes more reports than a refresh may wait for seconds: three and two in
\* cloud_push_polling.py and cloud_push.py.
Times == /\ Base \in Nat \ {0} /\ ReadTime \in Nat /\ HintLife \in Nat
         /\ Spacing \in Nat \ {0} /\ Retry \in Nat \ {0} /\ MaxMoves \in Nat
         /\ Required \in Nat /\ Required > Spacing
ASSUME PollingAssumption == Times

Never == -1      \* no timer, no age
Kinds == {"cloud", "native", "modbus"}
Routes == {"cloud", "unverified", "local", "toLocal", "toCloud"}

VARIABLES kind,      \* the coordinator: of the cloud, of the cloud and TCP, of Modbus
          route,     \* where the wallbox is, or on its way to
          epoch,     \* routing_epoch
          double,    \* update_interval is twice the configured one
          next,      \* seconds until the scheduled poll
          timer,     \* seconds until the delayed refresh
          reading,   \* the read under way: its age and epoch, or Never
          again,     \* a refresh was requested during it
          silence,   \* seconds since a read was begun
          ok,        \* last_update_success
          trust,     \* CloudPushPolling: samples, verified, hint age, extended, epoch
          listener,  \* CloudPush._run: where, connected, epoch
          pause,     \* seconds until the next subscription
          refresh,   \* CloudPush._refresh: seconds left and epoch
          since,     \* seconds since the last refresh of an event
          checked,   \* _run has done this second's round
          closed

vars == <<kind, route, epoch, double, next, timer, reading, again, silence, ok, trust,
          listener, pause, refresh, since, checked, closed>>

NoRefresh == [left |-> Never, epoch |-> 0]
NoReading == [age |-> Never, epoch |-> 0]
NoTrust(e) == [samples |-> 0, verified |-> Never, hint |-> Never, extended |-> FALSE, epoch |-> e]
Idle      == [at |-> "idle", connected |-> FALSE, epoch |-> 0]

Longest == Base + ReadTime + 1 + Spacing
TypeOK ==
    /\ kind \in Kinds /\ route \in Routes /\ epoch \in 0..MaxMoves
    /\ double \in BOOLEAN /\ again \in BOOLEAN /\ ok \in BOOLEAN
    /\ checked \in BOOLEAN /\ closed \in BOOLEAN
    /\ next \in -1..(2 * Base) /\ timer \in -1..Retry
    /\ reading \in [age : -1..ReadTime, epoch : -1..MaxMoves]
    /\ silence \in 0..(Longest + 1)
    /\ trust \in [samples : 0..Required, verified : -1..(Base + 1), hint : -1..(HintLife + 1),
                  extended : BOOLEAN, epoch : 0..MaxMoves]
    /\ listener \in [at : {"idle", "joining", "listening", "broken"}, connected : BOOLEAN, epoch : 0..MaxMoves]
    /\ pause \in 0..Retry
    /\ refresh \in [left : -1..Spacing, epoch : 0..MaxMoves] /\ since \in 0..Spacing

Init ==
    /\ kind \in Kinds /\ route \in (IF kind = "native" THEN {"cloud", "local"} ELSE {"cloud"})
    /\ epoch = 0
    /\ double = FALSE /\ next = Base /\ timer = Never /\ reading = NoReading /\ again = FALSE
    /\ silence = 0 /\ ok = TRUE /\ trust = NoTrust(0) /\ listener = Idle /\ pause = 0
    /\ refresh = NoRefresh /\ since = Spacing /\ checked = (kind = "modbus") /\ closed = FALSE

Eligible == ~closed /\ route = "cloud"
Transitioning == route \in {"toLocal", "toCloud"}
Older(age, limit) == IF age = Never \/ age = limit THEN age ELSE age + 1
Larger(a, b) == IF a > b THEN a ELSE b

-----------------------------------------------------------------------------
(* Reads.                                                                    *)

\* async_refresh: a read begins, unless one is under way, after which it is repeated.
\* One that begins while the route moves is of no transport.
NewReading == [age |-> 0, epoch |-> IF Transitioning THEN Never ELSE epoch]
Reads == IF reading.age = Never
         THEN reading' = NewReading /\ silence' = 0 /\ next' = Never /\ UNCHANGED again
         ELSE again' = TRUE /\ UNCHANGED <<reading, silence, next>>

Poll ==
    /\ ~closed /\ next = 0 /\ Reads
    /\ UNCHANGED <<kind, route, epoch, double, timer, ok, trust, listener, pause, refresh, since, checked, closed>>

TimerFires ==
    /\ timer = 0 /\ timer' = Never /\ Reads
    /\ UNCHANGED <<kind, route, epoch, double, ok, trust, listener, pause, refresh, since, checked, closed>>

\* The next poll is armed with the interval the read chose; a request made meanwhile
\* is due at once.
Armed(interval) ==
    IF again
    THEN reading' = NewReading /\ silence' = 0 /\ next' = Never /\ again' = FALSE
    ELSE reading' = NoReading /\ next' = interval /\ UNCHANGED <<again, silence>>

\* Mutant: a closed coordinator arms its timer too.
ScheduledAlways(delay) == timer' = delay

\* schedule_delayed_refresh: the newest replaces an older one; none after the close.
Scheduled(delay) == timer' = IF closed THEN timer ELSE delay

Distrusted == NoTrust(trust.epoch)

\* observed: what a report adds to the trust in the stream.  Reports have the second they
\* are of, so the newer one is of a later second.
Observed(usable, newer) ==
    LET t == IF trust.epoch = epoch THEN trust ELSE NoTrust(epoch)
        lapsed == t.verified = Never \/ t.verified > Base
        counts == /\ listener.connected /\ Eligible /\ usable
                  /\ t.hint \in 0..HintLife
                  /\ t.verified = Never \/ (newer /\ t.verified > 0)
        revoked == \/ ~usable \/ ~listener.connected
                   \/ t.verified = Never \/ t.verified >= Base
        more == IF lapsed THEN 1 ELSE IF t.samples < Required THEN t.samples + 1 ELSE Required
        samples == IF counts THEN more ELSE IF revoked THEN 0 ELSE t.samples
    IN  [samples |-> samples, extended |-> samples >= Required, hint |-> Never, epoch |-> epoch,
         verified |-> IF counts THEN 0 ELSE IF revoked THEN Never ELSE t.verified]

\* Mutant: the first report that counts doubles the interval.
DoubledEarly(t) == t.samples > 0

Doubled(t) == t.extended

\* A report of the cloud chooses the interval; one that is fresh ends the wait after
\* a return to the cloud.
ReadOfCloud ==
    /\ reading.age # Never /\ ~closed /\ route \in {"cloud", "unverified"} /\ reading.epoch = epoch /\ kind # "modbus"
    /\ \E usable, newer \in BOOLEAN :
        /\ trust' = Observed(usable, newer)
        /\ route' = IF route = "unverified" /\ usable THEN "cloud" ELSE route
    /\ double' = Doubled(trust')
    /\ Armed(IF double' THEN 2 * Base ELSE Base) /\ ok' = TRUE
    /\ UNCHANGED <<kind, epoch, timer, listener, pause, refresh, since, checked, closed>>

\* A read over TCP says nothing of the cloud; nor does one of the Modbus registers.
ReadElsewhere ==
    /\ reading.age # Never /\ ~closed /\ reading.epoch = epoch
    /\ route = "local" \/ kind = "modbus"
    /\ double' = FALSE /\ Armed(Base) /\ ok' = TRUE
    /\ UNCHANGED <<kind, route, epoch, timer, trust, listener, pause, refresh, since, checked, closed>>

\* A read that fails ends the trust, unless it belongs to an earlier route; one of the
\* registers is repeated soon.
ReadFails ==
    /\ reading.age # Never
    /\ \/ ~closed /\ ~Transitioning /\ reading.epoch = epoch /\ kind # "modbus"
          /\ trust' = Distrusted /\ double' = (double /\ ~Eligible)
       \/ (closed \/ Transitioning \/ reading.epoch # epoch \/ kind = "modbus")
          /\ UNCHANGED <<trust, double>>
    /\ IF kind = "modbus" THEN Scheduled(Retry) ELSE UNCHANGED timer
    /\ IF closed THEN reading' = NoReading /\ UNCHANGED <<again, next, silence>>
       ELSE Armed(IF double' THEN 2 * Base ELSE Base)
    /\ ok' = FALSE
    /\ UNCHANGED <<kind, route, epoch, listener, pause, refresh, since, checked, closed>>

\* An entity asks for a read in a while, after a write; of the native coordinator for one
\* at once.
Asks ==
    /\ ~closed
    /\ \/ kind # "native" /\ timer = Never /\ Scheduled(1) /\ UNCHANGED <<reading, silence, next, again>>
       \/ kind = "native" /\ Reads /\ UNCHANGED timer
    /\ UNCHANGED <<kind, route, epoch, double, ok, trust, listener, pause, refresh, since, checked, closed>>

-----------------------------------------------------------------------------
(* Events.                                                                   *)

\* _refresh, for the events of one epoch: some time after the last one.
Refreshes(e) ==
    refresh' = IF refresh.left # Never THEN refresh
               ELSE [left |-> Larger(1, Spacing - since), epoch |-> e]

Hint ==
    /\ Eligible /\ listener.connected /\ listener.epoch = epoch
    /\ \E telemetry \in BOOLEAN : trust' = IF telemetry THEN [trust EXCEPT !.hint = 0] ELSE trust
    /\ Refreshes(epoch)
    /\ UNCHANGED <<kind, route, epoch, double, next, timer, reading, again, silence, ok,
                   listener, pause, since, checked, closed>>

RefreshFires ==
    /\ refresh.left = 0 /\ refresh' = NoRefresh
    /\ IF Eligible /\ refresh.epoch = epoch
       THEN since' = 0 /\ Reads
       ELSE UNCHANGED <<since, reading, again, silence, next>>
    /\ UNCHANGED <<kind, route, epoch, double, timer, ok, trust, listener, pause, checked, closed>>

Expired ==
    \/ ~listener.connected \/ ~Eligible \/ ~ok \/ trust.epoch # epoch
    \/ trust.verified = Never \/ trust.verified >= Base

\* _check_polling: expired trust restores the interval, and one read is due.
Checks ==
    IF ~(trust.extended /\ Expired) THEN UNCHANGED <<trust, double, refresh>>
    ELSE /\ trust' = Distrusted
         /\ IF Eligible THEN double' = FALSE /\ (IF ok THEN Refreshes(epoch) ELSE UNCHANGED refresh)
            ELSE UNCHANGED <<double, refresh>>

\* A subscription that ended is checked for as a lost one.
ChecksLost ==
    IF ~trust.extended THEN UNCHANGED <<trust, double, refresh>>
    ELSE /\ trust' = Distrusted
         /\ IF Eligible THEN double' = FALSE /\ (IF ok THEN Refreshes(epoch) ELSE UNCHANGED refresh)
            ELSE UNCHANGED <<double, refresh>>

\* One round of _run: to subscribe, to go on, or to give up a subscription that broke or
\* whose route is gone, which is followed by another round at once.
Round ==
    /\ ~closed /\ ~checked
    /\ \/ /\ listener.at = "idle" /\ Checks /\ checked' = TRUE
          /\ IF Eligible /\ pause = 0
             THEN listener' = [at |-> "joining", connected |-> FALSE, epoch |-> epoch]
             ELSE UNCHANGED listener
          /\ UNCHANGED pause
       \/ /\ listener.at \in {"joining", "listening"} /\ Eligible /\ listener.epoch = epoch
          /\ Checks /\ checked' = TRUE /\ UNCHANGED <<listener, pause>>
       \/ /\ listener.at # "idle"
          /\ listener.at = "broken" \/ ~Eligible \/ listener.epoch # epoch
          /\ listener' = Idle /\ ChecksLost /\ UNCHANGED checked
          /\ pause' = IF listener.at = "broken" THEN Retry ELSE 0
    /\ UNCHANGED <<kind, route, epoch, next, timer, reading, again, silence, ok, since, closed>>

\* The broker's settings, the connection and the subscription take some time.
Subscribed ==
    /\ listener.at = "listening" /\ ~listener.connected /\ Eligible /\ listener.epoch = epoch
    /\ listener' = [listener EXCEPT !.connected = TRUE]
    /\ UNCHANGED <<kind, route, epoch, double, next, timer, reading, again, silence, ok, trust,
                   pause, refresh, since, checked, closed>>

\* The broker, its settings or the network fail: connected is cleared by the next round.
SubscriptionBreaks ==
    /\ listener.at \in {"joining", "listening"} /\ ~closed
    /\ listener' = [listener EXCEPT !.at = "broken"]
    /\ UNCHANGED <<kind, route, epoch, double, next, timer, reading, again, silence, ok, trust,
                   pause, refresh, since, checked, closed>>

-----------------------------------------------------------------------------
(* Everything else.                                                          *)

\* A handover begins with the interval of TCP, whichever way it goes ...
RouteMoves ==
    /\ kind = "native" /\ ~closed /\ ~Transitioning /\ epoch < MaxMoves /\ epoch' = epoch + 1
    /\ route' = IF route = "local" THEN "toCloud" ELSE "toLocal"
    /\ ok' = FALSE /\ double' = FALSE
    /\ UNCHANGED <<kind, next, timer, reading, again, silence, trust, listener, pause, refresh, since,
                   checked, closed>>

\* ... and ends there or where it came from, with a read.
RouteMoved ==
    /\ ~closed
    /\ \/ route = "toLocal" /\ route' \in {"local", "cloud", "unverified"}
       \/ route = "toCloud" /\ route' \in {"unverified", "local"}
    /\ IF reading.age = Never
       THEN reading' = [age |-> 0, epoch |-> epoch] /\ silence' = 0 /\ next' = Never /\ UNCHANGED again
       ELSE again' = TRUE /\ UNCHANGED <<reading, silence, next>>
    /\ UNCHANGED <<kind, epoch, double, timer, ok, trust, listener, pause, refresh, since, checked, closed>>

\* Unloading cancels both tasks, the timer and the schedule; a read may be under way.
Close ==
    /\ ~closed /\ closed' = TRUE
    /\ listener' = Idle /\ refresh' = NoRefresh /\ timer' = Never /\ next' = Never /\ again' = FALSE
    /\ UNCHANGED <<kind, route, epoch, double, reading, silence, ok, trust, pause, since, checked>>

Second ==
    /\ ~closed /\ checked /\ next # 0 /\ timer # 0 /\ refresh.left # 0 /\ reading.age < ReadTime
    /\ checked' = (kind = "modbus")
    /\ next' = IF next = Never THEN Never ELSE next - 1
    /\ timer' = IF timer = Never THEN Never ELSE timer - 1
    /\ refresh' = IF refresh.left = Never THEN refresh ELSE [refresh EXCEPT !.left = @ - 1]
    /\ reading' = IF reading.age = Never THEN reading ELSE [reading EXCEPT !.age = @ + 1]
    /\ silence' = Older(silence, Longest + 1)
    /\ since' = Older(since, Spacing)
    /\ pause' = IF pause = 0 THEN 0 ELSE pause - 1
    /\ trust' = [trust EXCEPT !.verified = Older(@, Base + 1), !.hint = Older(@, HintLife + 1)]
    /\ listener' = IF listener.at = "joining" THEN [listener EXCEPT !.at = "listening"] ELSE listener
    /\ UNCHANGED <<kind, route, epoch, double, again, ok, closed>>

Next == \/ Poll \/ TimerFires \/ ReadOfCloud \/ ReadElsewhere \/ ReadFails \/ Asks
        \/ Hint \/ RefreshFires \/ Round \/ Subscribed \/ SubscriptionBreaks
        \/ RouteMoves \/ RouteMoved \/ Close \/ Second

Spec == Init /\ [][Next]_vars

-----------------------------------------------------------------------------
(* Properties.                                                               *)

\* However the stream of events goes, breaks or lies, and wherever the route moved
\* before, the next read begins within the configured interval (plus a read, the check
\* and the spacing of refreshes) though the one that is scheduled may be due later.
SilenceBounded == ~closed /\ ~Transitioning => silence <= Longest

\* A closed entry never reads again: no timer is armed by what was under way.
ClosedIsQuiet == closed => timer = Never /\ next = Never /\ refresh = NoRefresh
=============================================================================

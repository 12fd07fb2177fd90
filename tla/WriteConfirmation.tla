-------------------------- MODULE WriteConfirmation --------------------------
(***************************************************************************)
(* write_confirmation.py with native_cloud_settings.py: what an accepted     *)
(* write is compared with, and when.  Requests write fields of the wallbox;  *)
(* readbacks of the newest accepted ones are owed; one timer starts one      *)
(* refresh for all of them; normal polls and configuration reads satisfy     *)
(* them too; a handover between the transports ends them.                    *)
(*                                                                         *)
(* Time is the age of a readback, in units of five seconds.  Timers and      *)
(* reads may be late by any amount.  A read returns, for every field, a      *)
(* value the wallbox had while it was under way ("saw").                     *)
(***************************************************************************)
EXTENDS Integers, FiniteSets

CONSTANTS N,            \* bound on the number of requests
          Fields, Values, None,
          Charging,     \* the field of Start and Stop; telemetry reports it
          On, Alarm,    \* a Start's value; what a wallbox that refuses it reports
          Settings,     \* fields written by CloudSettings.write
          Writes,       \* what each request may ask for, as pairs of field and value
          Slots,        \* ages at which an unanswered readback is read again
          Deadline,     \* and the age at which it is given up
          MaxHandovers  \* bound on handovers

Requests == 1..N
Reported == Values \cup {Alarm}

ASSUME ConfirmationAssumption ==
    /\ N \in Nat /\ MaxHandovers \in Nat
    /\ Charging \in Fields \ Settings /\ Settings \subseteq Fields
    /\ Writes \in [Requests -> SUBSET (Fields \X Values)]
    /\ On \in Values /\ Alarm \notin Values /\ None \notin Reported \cup Nat
    /\ Deadline \in Nat /\ Slots \subseteq 1..Deadline /\ Deadline \in Slots

VARIABLES device,              \* what the wallbox would report
          st, req,             \* the requests: where each stands, what it asks for
          lock,                \* the request that has the policy's lock, or 0
          local, transitioning, epoch, restored, success,   \* the router
          tokens,              \* the newest request of each field, until its outcome
          pending, results,    \* owed readbacks; the last outcome of each field
          timer,               \* time left, or None
          busy, closed,
          ref, due,            \* _refresh: where it stands, the sources it found due
          poll, read,          \* a telemetry read and a configuration read under way
          task,                \* CloudSettings._task is alive
          valid,               \* its values, None when CloudSettings.valid is not set
          held, since, after   \* history: values the wallbox had since the readback
                               \* was armed, since the last write of the field, and
                               \* since the present request was sent

route    == <<local, transitioning, epoch, restored>>
monitor  == <<tokens, pending, results, timer>>
refresh  == <<busy, ref, due>>
settings == <<task, valid>>
history  == <<held, since, after>>
vars     == <<device, st, req, lock, route, success, monitor, closed, refresh, poll, read,
              settings, history>>

Source(f) == IF f = Charging THEN "telemetry" ELSE "settings"
Sources   == {"telemetry", "settings"}

Readback == [value : Values, epoch : Nat, age : 0..Deadline + 1, readAge : 0..Deadline + 1]

ASSUME NoneIsNoReadback == None \notin Readback

Reading  == [who : {"nobody", "timer", "refresh", "task", "write"}, current : BOOLEAN,
             old : SUBSET Fields, saw : [Fields -> SUBSET Reported]]
NoRead   == [who |-> "nobody", current |-> FALSE, old |-> {}, saw |-> [f \in Fields |-> {}]]

\* "over" stands for every outcome that confirms nothing, and for none yet.
Outcomes == {"writing", "pending", "confirmed", "over"}
InLock   == {"begun", "first", "checked", "refused", "last", "sent"}

TypeOK ==
    /\ device \in [Fields -> Reported]
    /\ st \in [Requests -> {"new", "waiting", "over"} \cup InLock]
    /\ req \in [Requests -> [field : Fields, value : Values, epoch : Nat] \cup {None}]
    /\ lock \in 0..N
    /\ local \in BOOLEAN /\ transitioning \in BOOLEAN /\ epoch \in Nat
    /\ restored \in BOOLEAN /\ success \in BOOLEAN
    /\ tokens \in [Fields -> 0..N]
    /\ pending \in [Fields -> Readback \cup {None}] /\ results \in [Fields -> Outcomes]
    /\ timer \in 0..Deadline \cup {None}
    /\ busy \in BOOLEAN /\ closed \in BOOLEAN
    /\ ref \in {"idle", "start", "telemetry", "polling", "next", "join", "own", "finish"}
    /\ due \subseteq Sources
    /\ poll \in Reading /\ read \in Reading
    /\ task \in BOOLEAN /\ valid \in [Fields -> Reported \cup {None}] \cup {None}
    /\ after \subseteq Reported
    /\ held \in [Fields -> SUBSET Reported] /\ since \in [Fields -> SUBSET Reported]

Init ==
    /\ device \in [Fields -> Values]
    /\ st = [r \in Requests |-> "new"]
    /\ req = [r \in Requests |-> None]
    /\ lock = 0
    /\ local = FALSE /\ transitioning = FALSE /\ epoch = 0 /\ restored = FALSE /\ success = TRUE
    /\ tokens = [f \in Fields |-> 0]
    /\ pending = [f \in Fields |-> None] /\ results = [f \in Fields |-> "over"]
    /\ timer = None /\ busy = FALSE /\ closed = FALSE /\ ref = "idle" /\ due = {}
    /\ poll = NoRead /\ read = NoRead
    /\ task = FALSE /\ valid = None
    /\ after = {} /\ held = [f \in Fields |-> {}] /\ since = [f \in Fields |-> {device[f]}]

-----------------------------------------------------------------------------
(* The scheduler *)

Least(S)    == CHOOSE x \in S : \A y \in S : x <= y
Larger(a, b) == IF a < b THEN b ELSE a

\* Slots after the last read, as ages.
Candidates(t) == {s \in Slots : s > t.age - t.readAge}
Rerouted(t)   == local \/ t.epoch # epoch
Expired(t)    == t.age > Deadline \/ Candidates(t) = {}
\* Time left until the next read of t, five seconds after the last one at least.
DueIn(t) == Larger(0, Least({Deadline, Larger(Least(Candidates(t)), t.age - t.readAge + 1)}) - t.age)

\* _schedule over the readbacks p and the outcomes rs.
Schedule(p, rs, isBusy, isClosed) ==
    LET kept == {f \in Fields : p[f] # None /\ ~Rerouted(p[f]) /\ ~Expired(p[f])}
    IN  /\ pending' = [f \in Fields |-> IF f \in kept THEN p[f] ELSE None]
        /\ results' = [f \in Fields |-> IF p[f] = None \/ f \in kept THEN rs[f] ELSE "over"]
        /\ timer' = IF kept = {} \/ isBusy \/ isClosed THEN None
                    ELSE Least({DueIn(p[f]) : f \in kept})

\* failed(): every readback, of either source.
Failed(isBusy) ==
    Schedule([f \in Fields |-> None],
             [f \in Fields |-> IF pending[f] = None THEN results[f] ELSE "over"],
             isBusy, closed)

\* Mutant: the report is consumed whenever its read began.
ObservedAnyRead(source, got, old, isBusy) ==
    LET seen == {f \in Fields : pending[f] # None /\ Source(f) = source}
        Met(f) == pending[f].value = got[f]
    IN  Schedule([f \in Fields |-> IF f \notin seen THEN pending[f]
                                   ELSE IF Met(f) THEN None ELSE [pending[f] EXCEPT !.readAge = 0]],
                 [f \in Fields |-> IF f \in seen /\ Met(f) THEN "confirmed" ELSE results[f]],
                 isBusy, closed)

\* observed(): the readbacks of this source armed before the read began.
Observed(source, got, old, isBusy) ==
    LET seen    == {f \in Fields \ old : pending[f] # None /\ Source(f) = source}
        Refused(f) == f = Charging /\ pending[f].value = On /\ got[f] = Alarm
        Met(f)  == pending[f].value = got[f]
    IN  Schedule([f \in Fields |-> IF f \notin seen THEN pending[f]
                                   ELSE IF Met(f) \/ Refused(f) THEN None
                                   ELSE [pending[f] EXCEPT !.readAge = 0]],
                 [f \in Fields |-> IF f \notin seen THEN results[f]
                                   ELSE IF Refused(f) THEN "over"
                                   ELSE IF Met(f) THEN "confirmed" ELSE results[f]],
                 isBusy, closed)

\* Mutant: what is owed is left to the next _schedule.
CancelTimerOnly ==
    /\ timer' = None /\ tokens' = [f \in Fields |-> 0]
    /\ results' = [f \in Fields |-> IF tokens[f] # 0 THEN "over" ELSE results[f]]
    /\ UNCHANGED pending

\* cancel(): readbacks and writes under way.
CancelAll ==
    /\ pending' = [f \in Fields |-> None] /\ timer' = None
    /\ results' = [f \in Fields |-> IF pending[f] # None \/ tokens[f] # 0 THEN "over"
                                    ELSE results[f]]
    /\ tokens' = [f \in Fields |-> 0]

-----------------------------------------------------------------------------
(* Requests.  confirm_write begins before the request waits for the policy's *)
(* lock; CloudSettings.write reads the configuration before and after it.    *)

Ready == ~closed /\ ~local /\ ~transitioning /\ ~restored        \* cloud_ready

Goto(r, place) == st' = [st EXCEPT ![r] = place]

\* A read of this source, if one is under way, also sees v, or is older than
\* the readback of f, or does not count any more.
Sees(x, source, f, v) ==
    IF x.who # "nobody" /\ Source(f) = source THEN [x EXCEPT !.saw[f] = @ \cup {v}] ELSE x
Precedes(x, f)  == IF x.who # "nobody" THEN [x EXCEPT !.old = @ \cup {f}] ELSE x
Discarded(x)    == [x EXCEPT !.current = FALSE]

\* Field f of the wallbox becomes v.
Becomes(f, v) ==
    /\ device' = [device EXCEPT ![f] = v]
    /\ held' = [held EXCEPT ![f] = IF pending[f] = None THEN {} ELSE @ \cup {v}]
    /\ since' = IF Source(f) = "settings" THEN [since EXCEPT ![f] = @ \cup {v}] ELSE since
    /\ poll' = Sees(poll, "telemetry", f, v)
    /\ read' = Sees(read, "settings", f, v)

Begin ==
    \E r \in Requests : \E w \in Writes[r] :
        LET f == w[1]
            v == w[2] IN
        /\ st[r] = "new" /\ \A q \in Requests : q < r => st[q] # "new"
        /\ ~local
        /\ req' = [req EXCEPT ![r] = [field |-> f, value |-> v, epoch |-> epoch]]
        /\ tokens' = [tokens EXCEPT ![f] = r]
        /\ Schedule([pending EXCEPT ![f] = None], [results EXCEPT ![f] = "writing"], busy, closed)
        /\ Goto(r, "waiting")
        /\ UNCHANGED <<device, lock, route, success, closed, refresh, poll, read, settings,
                       history>>

Acquire ==
    \E r \in Requests :
        /\ st[r] = "waiting" /\ lock = 0 /\ ~transitioning
        /\ \A q \in Requests : q < r => st[q] # "waiting"
        /\ lock' = r
        /\ Goto(r, IF req[r].field \notin Settings THEN "begun"
                   ELSE IF Ready /\ success THEN "first" ELSE "refused")
        /\ UNCHANGED <<device, req, route, success, monitor, closed, refresh, poll, read,
                       settings, history>>

\* The wallbox takes the value or not, or cannot charge.
Send ==
    /\ lock # 0
    /\ LET f == req[lock].field
       IN  /\ st[lock] = "begun" \/ (st[lock] = "checked" /\ Ready)
           /\ \E now \in {device[f], req[lock].value}
                         \cup (IF f = Charging /\ req[lock].value = On THEN {Alarm} ELSE {}) :
                 Becomes(f, now) /\ after' = {now}
           /\ Goto(lock, IF f \in Settings THEN "last" ELSE "sent")
           /\ valid' = IF f \in Settings THEN None ELSE valid
    /\ UNCHANGED <<req, lock, route, success, monitor, closed, refresh, task>>

\* Mode and power: update_setting's finally invalidates the configuration.
Control(r) == req[r].field \notin Settings \cup {Charging}

\* Mutant: the read under way still counts.
ReadAfterKept(r) == IF lock = r /\ read.who = "write" THEN NoRead ELSE read

\* A cancelled CloudSettings.write gives its read up.
ReadAfter(r) == IF Control(r) /\ ~local THEN Discarded(read)
                ELSE IF lock = r /\ read.who = "write" THEN NoRead ELSE read

Ends(r) ==
    LET f == req[r].field
    IN  /\ Goto(r, "over") /\ lock' = IF lock = r THEN 0 ELSE lock
        /\ valid' = IF Control(r) /\ ~local THEN None ELSE valid
        /\ since' = IF Control(r) /\ ~local THEN [since EXCEPT ![f] = {device[f]}]
                    ELSE IF f \in Settings /\ st[r] = "sent" THEN [since EXCEPT ![f] = after]
                    ELSE since
        /\ after' = IF lock = r THEN {} ELSE after
        /\ UNCHANGED <<device, req, route, success, closed, refresh, task>>

\* What arms a readback of r, on the present route.
Armed(r) ==
    LET f == req[r].field
    IN  /\ Schedule([pending EXCEPT ![f] = [value |-> req[r].value, epoch |-> epoch,
                                            age |-> 0, readAge |-> 0]],
                    [results EXCEPT ![f] = "pending"], busy, closed)
        /\ poll' = Precedes(poll, f) /\ read' = Precedes(ReadAfter(r), f)
        /\ held' = [held EXCEPT ![f] = {device[f]}]

TokenUsed(r, f) == tokens' = [tokens EXCEPT ![f] = IF @ = r THEN 0 ELSE @]

NotArmed(r, outcome) ==
    LET f == req[r].field
    IN  /\ results' = IF tokens[f] = r THEN [results EXCEPT ![f] = outcome] ELSE results
        /\ read' = ReadAfter(r)
        /\ UNCHANGED <<pending, timer, poll, held>>

\* Mutant: the answer to an older request counts too.
AcceptedOfAny(r) ==
    /\ TokenUsed(r, req[r].field)
    /\ IF ~closed /\ ~local /\ ~transitioning /\ req[r].epoch = epoch
       THEN Armed(r) ELSE NotArmed(r, "over")

\* accepted(), certain or uncertain.
Accepted(r) ==
    /\ TokenUsed(r, req[r].field)
    /\ IF /\ tokens[req[r].field] = r
          /\ ~closed /\ ~local /\ ~transitioning /\ req[r].epoch = epoch
       THEN Armed(r) ELSE NotArmed(r, "over")

Answered == \E r \in Requests : st[r] = "sent" /\ Ends(r) /\ Accepted(r)

\* A timeout, before or after the write was sent; of Start and Stop only after.
Uncertain ==
    \E r \in Requests :
        /\ st[r] \in InLock /\ (req[r].field = Charging => st[r] = "sent")
        /\ Ends(r) /\ Accepted(r)

\* Superseded, refused or cancelled.
Rejected ==
    \E r \in Requests :
        /\ st[r] \in InLock \cup {"waiting"}
        /\ Ends(r)
        /\ TokenUsed(r, req[r].field) /\ NotArmed(r, "over")

-----------------------------------------------------------------------------
(* Reads *)

\* What a read may return: for every field of its source a value it saw.
Returns(x, source) ==
    {g \in [Fields -> Reported] : \A f \in Fields : IF Source(f) = source THEN g[f] \in x.saw[f]
                                                    ELSE g[f] = device[f]}

NewRead(who, source, isCurrent) ==
    [who |-> who, current |-> isCurrent, old |-> {},
     saw |-> [f \in Fields |-> IF Source(f) = source THEN {device[f]} ELSE {}]]

\* A telemetry read by the coordinator's own timer or asked for by _refresh; it
\* starts a configuration read beside it when one is due.
PollBegins ==
    /\ poll.who = "nobody" /\ ~closed
    /\ \/ poll' = NewRead("timer", "telemetry", ~transitioning) /\ UNCHANGED ref
       \/ /\ ref = "telemetry" /\ ref' = "polling"
          /\ poll' = NewRead("refresh", "telemetry", ~transitioning)
    /\ task' \in IF Ready THEN {task, TRUE} ELSE {task}
    /\ valid' = IF Ready THEN valid ELSE None
    /\ UNCHANGED <<device, st, req, lock, route, success, monitor, closed, busy, due, read, history>>

PollEnds ==
    /\ poll.who # "nobody" /\ poll' = NoRead
    /\ ref' = IF poll.who = "refresh" THEN "next" ELSE ref
    /\ UNCHANGED <<device, st, req, lock, local, transitioning, epoch, tokens, closed, busy, due,
                   read, settings, history>>

\* A report ends the wait for one that postdates the handover.
PollReturns ==
    /\ PollEnds /\ poll.current /\ ~closed
    /\ success' = TRUE /\ restored' = FALSE
    /\ \E got \in Returns(poll, "telemetry") : Observed("telemetry", got, poll.old, busy)

PollFails == PollEnds /\ success' = FALSE /\ Failed(busy) /\ UNCHANGED restored

\* Whoever awaited CloudSettings.refresh goes on; v says whether it is valid.
ReadGoesOn(who, v) ==
    /\ task' = (task /\ who # "task")
    /\ ref' = IF who = "refresh" THEN "finish" ELSE ref
    /\ st' = IF who # "write" THEN st
             ELSE [st EXCEPT ![lock] = IF @ = "last" THEN "sent"
                                       ELSE IF v THEN "checked" ELSE "refused"]

\* CloudSettings.refresh by whoever waits for its lock.
ReadBegins ==
    \E who \in {"task", "refresh", "write"} :
        /\ read.who = "nobody"
        /\ \/ who = "task" /\ task
           \/ who = "refresh" /\ ref = "own"
           \/ who = "write" /\ lock # 0 /\ st[lock] \in {"first", "last"}
        /\ \/ Ready /\ read' = NewRead(who, "settings", TRUE) /\ UNCHANGED <<valid, st, ref, task>>
           \/ ~Ready /\ valid' = None /\ ReadGoesOn(who, FALSE) /\ UNCHANGED read
        /\ UNCHANGED <<device, req, lock, route, success, monitor, closed, busy, due, poll,
                       history>>

ReadEnds ==
    /\ read.who # "nobody" /\ read' = NoRead
    /\ UNCHANGED <<device, req, lock, route, success, tokens, closed, busy, due, poll, history>>

\* A read that crossed a handover or an invalidation tells nobody anything.
ReadCrossed ==
    /\ ReadEnds /\ ~(Ready /\ read.current)
    /\ valid' = None /\ ReadGoesOn(read.who, FALSE)
    /\ UNCHANGED <<pending, results, timer>>

ReadReturns ==
    /\ ReadEnds /\ Ready /\ read.current
    /\ \E got \in Returns(read, "settings") :
          /\ valid' = [f \in Fields |-> IF Source(f) = "settings" THEN got[f] ELSE None]
          /\ Observed("settings", got, read.old, busy)
    /\ ReadGoesOn(read.who, TRUE)

ReadFails ==
    /\ ReadEnds /\ Ready /\ read.current
    /\ valid' = None /\ ReadGoesOn(read.who, FALSE)
    /\ Failed(busy)

-----------------------------------------------------------------------------
(* The one refresh, _refresh *)

Owed == \E f \in Fields : pending[f] # None

Wake ==
    /\ timer = 0 /\ timer' = None
    /\ IF busy \/ closed \/ ~Owed THEN UNCHANGED <<busy, ref>>
       ELSE busy' = TRUE /\ ref' = "start"
    /\ UNCHANGED <<device, st, req, lock, route, success, tokens, pending, results, closed, due,
                   poll, read, settings, history>>

RefreshKeeps == UNCHANGED <<device, st, req, lock, route, success, closed, poll, read, settings, history>>

Over == busy' = FALSE /\ ref' = "idle" /\ due' = {}

\* Mutant: finally does not schedule what is still owed.
FinallyForgets(attempted) ==
    /\ Over
    /\ pending' = [f \in Fields |-> IF pending[f] # None /\ Source(f) \in attempted
                                    THEN [pending[f] EXCEPT !.readAge = 0] ELSE pending[f]]
    /\ UNCHANGED <<results, timer>>

\* finally: what was attempted counts as read, answered or not.
Finally(attempted) ==
    /\ Over
    /\ Schedule([f \in Fields |-> IF pending[f] # None /\ Source(f) \in attempted
                                  THEN [pending[f] EXCEPT !.readAge = 0] ELSE pending[f]],
                results, FALSE, closed)

\* The configuration part, for the sources d: joins a task that is under way.
AfterTelemetry(d) ==
    IF "settings" \in d /\ Owed
    THEN ref' = (IF task THEN "join" ELSE "own") /\ due' = d /\ UNCHANGED <<busy, pending, results, timer>>
    ELSE Finally(d \ {"settings"})

RefreshStarts ==
    LET d == {Source(f) : f \in {g \in Fields : pending[g] # None /\ pending[g].readAge >= 1}}
    IN  /\ ref = "start"
        /\ IF closed \/ transitioning THEN CancelAll /\ Over
           ELSE /\ UNCHANGED tokens
                /\ IF "telemetry" \in d
                   THEN ref' = "telemetry" /\ due' = d /\ UNCHANGED <<busy, pending, results, timer>>
                   ELSE AfterTelemetry(d)
        /\ RefreshKeeps

\* The debouncer need not read at once.
Debounced ==
    /\ ref = "telemetry" /\ ref' = "next"
    /\ UNCHANGED <<monitor, busy, due>> /\ RefreshKeeps

RefreshGoesOn ==
    /\ ref = "next"
    /\ IF success THEN AfterTelemetry(due) ELSE Over /\ Failed(FALSE)
    /\ UNCHANGED tokens /\ RefreshKeeps

RefreshEnds ==
    /\ ref = "finish" \/ (ref = "join" /\ ~task)
    /\ Finally(due)
    /\ UNCHANGED tokens /\ RefreshKeeps

\* An error of the coordinator or of the task that was joined.
RefreshRaises ==
    /\ ref \in {"telemetry", "join"}
    /\ Over /\ Failed(FALSE)
    /\ UNCHANGED tokens /\ RefreshKeeps

Refresher == RefreshStarts \/ Debounced \/ RefreshGoesOn \/ RefreshEnds \/ RefreshRaises

-----------------------------------------------------------------------------
(* The router, the end of the entry, the wallbox, time *)

HandoverBegins ==
    /\ lock = 0 /\ ~transitioning /\ ~closed /\ epoch < MaxHandovers
    /\ transitioning' = TRUE /\ epoch' = epoch + 1 /\ success' = FALSE
    /\ CancelAll
    /\ valid' = None /\ read' = Discarded(read) /\ poll' = Discarded(poll)
    /\ since' = [f \in Fields |-> {device[f]}]
    /\ UNCHANGED <<device, st, req, lock, local, restored, closed, refresh, task, held, after>>

\* Either way it may fail; on the cloud a report of after it is awaited.
HandoverEnds ==
    /\ transitioning /\ transitioning' = FALSE /\ success' = FALSE
    /\ local' \in BOOLEAN
    /\ restored' = (restored \/ ~local')
    /\ UNCHANGED <<device, st, req, lock, epoch, monitor, closed, refresh, poll, read, settings, history>>

Close ==
    /\ ~closed /\ closed' = TRUE
    /\ CancelAll
    /\ UNCHANGED <<device, st, req, lock, route, success, refresh, poll, read, settings, history>>

\* Five seconds pass.
Older(age) == IF age > Deadline THEN age ELSE age + 1
Tick ==
    /\ Owed
    /\ pending' = [f \in Fields |-> IF pending[f] = None THEN None
                                    ELSE [pending[f] EXCEPT !.age = Older(@), !.readAge = Older(@)]]
    /\ timer' = IF timer \in {None, 0} THEN timer ELSE timer - 1
    /\ UNCHANGED <<device, st, req, lock, route, success, tokens, results, closed, refresh, poll,
                   read, settings, history>>

Next == \/ Begin \/ Acquire \/ Send \/ Answered \/ Uncertain \/ Rejected
        \/ PollBegins \/ PollReturns \/ PollFails
        \/ ReadBegins \/ ReadCrossed \/ ReadReturns \/ ReadFails
        \/ Wake \/ Refresher
        \/ HandoverBegins \/ HandoverEnds \/ Close \/ Tick

Spec == Init /\ [][Next]_vars

\* Timers fire, reads and awaited tasks end, time passes.
Fairness == /\ WF_vars(Tick) /\ WF_vars(Wake) /\ WF_vars(Refresher)
            /\ WF_vars(PollReturns \/ PollFails) /\ WF_vars(ReadBegins)
            /\ WF_vars(ReadCrossed \/ ReadReturns \/ ReadFails)

-----------------------------------------------------------------------------
(* Properties *)

\* The newest request of f, or 0.
Newest(f) == LET asked == {r \in Requests : st[r] # "new" /\ req[r].field = f}
             IN  IF asked = {} THEN 0 ELSE CHOOSE r \in asked : \A q \in asked : q <= r

\* accepted(), "Arm readback for the newest accepted or uncertain setting
\* request": what is owed is what the newest request of the field asked for,
\* whatever the order of the answers.
NewestOnly ==
    \A f \in Fields :
        /\ tokens[f] \in {0, Newest(f)}
        /\ pending[f] # None => pending[f].value = req[Newest(f)].value /\ tokens[f] = 0

\* _schedule: the one timer is armed exactly while a readback is owed and
\* nobody is reading for it.
TimerWhileOwed == (timer # None) <=> (Owed /\ ~busy /\ ~closed)

\* "cancel: Invalidate waiting commands and reads on a transport change": no
\* readback is owed but on the cloud route of its own request.
RouteOfRequest ==
    \A f \in Fields : pending[f] # None =>
        /\ ~local /\ ~transitioning /\ ~closed
        /\ pending[f].epoch = epoch /\ req[Newest(f)].epoch = epoch

\* observed(), "Consume a successful authoritative read": a confirmed value is
\* one the wallbox had since the readback was armed.
ConfirmedByWallbox ==
    [][\A f \in Fields : pending[f] # None /\ results'[f] = "confirmed" =>
           pending[f].value \in held[f]]_vars

\* CloudSettings.refresh and write: a valid configuration is not one of before
\* the last completed write of a setting, mode or power, or the last handover,
\* whichever reads were under way then.
ValidIsRecent ==
    \A f \in Fields : valid # None /\ Source(f) = "settings" => valid[f] \in since[f]

\* "Bounded readback": no readback is owed for ever.
ReadbacksEnd == \A f \in Fields : pending[f] # None ~> pending[f] = None
=============================================================================

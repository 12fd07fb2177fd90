-------------------------- MODULE ChargeModePolicy --------------------------
(***************************************************************************)
(* charge_mode_policy.py with operation_budget.py and charge_mode_adapter.py:*)
(* Start, Stop, mode, power and other requests racing for one charger.      *)
(* Requests are numbered in the order of their calls.  asyncio.Lock serves  *)
(* its waiters first in, first out, so each lock is the sequence of its     *)
(* waiters with the holder at the head.  The holder's current executor job  *)
(* passes its last budget check and reaches the charger in two steps, with  *)
(* the event loop free to run in between.                                   *)
(***************************************************************************)
EXTENDS Integers, Sequences

CONSTANTS N,               \* bound on the number of requests
          Ops,             \* what may be requested: records [kind, arg]
          Modes, Fast, Powers, None,
          RememberMode,    \* policy.remember_mode
          PreservesAll,    \* adapter.preserves_power_all_modes (native TCP)
          RequiresAdvance  \* cloud: reports may be stale, a newer one is needed

Requests == 1..N
Kinds    == {"start", "stop", "mode", "power", "setting", "remember", "adopt", "close"}
Intent   == [mode : Modes \cup {None}, power : Powers \cup {None}]
Charger  == [mode : Modes, power : Powers, session : {"idle", "preparing", "charging"}]

ASSUME PolicyAssumption ==
    /\ N \in Nat
    /\ Ops \subseteq [kind : Kinds, arg : Modes \cup Powers \cup {None}]
    /\ \A o \in Ops : /\ o.kind \in {"mode", "remember"} => o.arg \in Modes
                      /\ o.kind = "power" => o.arg \in Powers
    /\ None \notin Modes \cup Powers \cup Ops \cup (Nat \X Powers)
    /\ {RememberMode, PreservesAll, RequiresAdvance} \subseteq BOOLEAN

VARIABLES called,      \* requests 1..called have been made
          op,          \* what each asked for
          pc,          \* where each stands
          ver,         \* the local `version` of each
          intent,      \* the local `start_intent` of each Start
          version,     \* self._version
          startIntent, \* self._start_intent_version
          closed,      \* self._closed
          startQueue,  \* self._start_lock
          queue,       \* self._lock
          powerRequest,\* self._pending_power_request: None or <<version, power>>
          desired,     \* self.desired_mode, self.desired_power
          cancelled,   \* self._budget.cancelled
          expired,     \* the budget's deadline has passed
          job,         \* the lock holder's executor job
          plan,        \* the mode and power being verified, or adopt's old intent
          device,      \* the charger
          report,      \* the report a read returns
          advanced,    \* that report is newer than the first one read
          delivered    \* history: Starts and Stops that reached the charger

calls == <<called, op, intent>>
locks == <<startQueue, queue>>
fence == <<version, startIntent, closed>>
scope == <<cancelled, expired>>
box   == <<device, report, advanced, delivered>>
vars  == <<calls, pc, ver, fence, locks, powerRequest, desired, scope, job, plan, box>>

Budgeted == {"read", "write", "confirm", "start", "operate", "capture"}
Working  == Budgeted \cup {"stop"}
Over     == {"done", "failed"}
Jobs     == {"none", "queued", "committed", "refused", "answered", "lost"}
States   == {"new", "startWait", "lockWait", "save", "adoptSave", "retry"} \cup Working \cup Over

TypeOK ==
    /\ called \in 0..N
    /\ op \in [Requests -> Ops \cup {None}]
    /\ pc \in [Requests -> States]
    /\ ver \in [Requests -> Nat] /\ intent \in [Requests -> Nat]
    /\ version \in Nat /\ startIntent \in Nat /\ closed \in BOOLEAN
    /\ startQueue \in Seq(Requests) /\ queue \in Seq(Requests)
    /\ powerRequest \in (Nat \X Powers) \cup {None}
    /\ desired \in Intent /\ plan \in Intent
    /\ cancelled \in BOOLEAN /\ expired \in BOOLEAN
    /\ job \in Jobs
    /\ device \in Charger /\ report \in Charger /\ advanced \in BOOLEAN
    /\ delivered \in Seq(Requests)

Init ==
    /\ called = 0 /\ op = [r \in Requests |-> None] /\ pc = [r \in Requests |-> "new"]
    /\ ver = [r \in Requests |-> 0] /\ intent = [r \in Requests |-> 0]
    /\ version = 0 /\ startIntent = 0 /\ closed = FALSE
    /\ startQueue = <<>> /\ queue = <<>> /\ powerRequest = None
    /\ desired \in Intent /\ plan = [mode |-> None, power |-> None]
    /\ cancelled = FALSE /\ expired = FALSE /\ job = "none"
    /\ device \in Charger /\ report = device /\ advanced = FALSE /\ delivered = <<>>

Holder  == Head(queue)
Kind(r) == op[r].kind
Arg(r)  == op[r].arg

\* The lock holder is at one of the places S.
At(S) == queue # <<>> /\ pc[Holder] \in S

PendingIntents == {intent[startQueue[i]] : i \in DOMAIN startQueue}

\* self._starting with an active intent that is still current.
StartUnderWay == /\ startQueue # <<>>
                 /\ pc[Head(startQueue)] # "startWait"
                 /\ intent[Head(startQueue)] = startIntent

-----------------------------------------------------------------------------
(* Calls *)

\* Mutant: the budget under way is not told.
InvalidateVersionOnly(cancelStart) ==
    /\ version' = version + 1
    /\ startIntent' = IF cancelStart THEN startIntent + 1 ELSE startIntent
    /\ UNCHANGED cancelled

Invalidate(cancelStart) ==
    /\ version' = version + 1
    /\ startIntent' = IF cancelStart THEN startIntent + 1 ELSE startIntent
    /\ cancelled' = (cancelled \/ At(Budgeted))

\* Call number r = called + 1 asks for o and is put at the given place.
Called(o, place, v) ==
    /\ called < N
    /\ called' = called + 1
    /\ op' = [op EXCEPT ![called + 1] = o]
    /\ pc' = [pc EXCEPT ![called + 1] = place]
    /\ ver' = [ver EXCEPT ![called + 1] = v]
    /\ UNCHANGED <<desired, expired, job, plan, box>>

CallStart ==
    \E o \in Ops :
        /\ o.kind = "start"
        /\ intent' = [intent EXCEPT ![called + 1] = startIntent]
        /\ \/ closed /\ Called(o, "failed", 0) /\ UNCHANGED startQueue
           \/ ~closed /\ startIntent \in PendingIntents
              /\ Called(o, "done", 0) /\ UNCHANGED startQueue
           \/ ~closed /\ startIntent \notin PendingIntents
              /\ Called(o, "startWait", 0)
              /\ startQueue' = Append(startQueue, called + 1)
        /\ UNCHANGED <<fence, queue, powerRequest, cancelled>>

\* Mutant: a request like a Stop leaves the intent of a pending Start alone.
CallOtherKeepsStart ==
    \E o \in Ops :
        /\ o.kind \notin {"start", "power"}
        /\ Invalidate(FALSE)
        /\ Called(o, "lockWait", version + 1)
        /\ closed' = (closed \/ o.kind = "close")
        /\ queue' = Append(queue, called + 1)
        /\ UNCHANGED <<intent, startQueue, powerRequest>>

\* Mutant: async_close returns without waiting for the lock.
CloseWithoutWaiting ==
    \E o \in Ops :
        /\ o.kind \notin {"start", "power"}
        /\ Invalidate(TRUE)
        /\ Called(o, IF o.kind = "close" THEN "done" ELSE "lockWait", version + 1)
        /\ closed' = (closed \/ o.kind = "close")
        /\ queue' = IF o.kind = "close" THEN queue ELSE Append(queue, called + 1)
        /\ UNCHANGED <<intent, startQueue, powerRequest>>

CallOther ==
    \E o \in Ops :
        /\ o.kind \notin {"start", "power"}
        /\ Invalidate(TRUE)
        /\ Called(o, "lockWait", version + 1)
        /\ closed' = (closed \/ o.kind = "close")
        /\ queue' = Append(queue, called + 1)
        /\ UNCHANGED <<intent, startQueue, powerRequest>>

\* Mutant: the request still waiting for the lock is overlooked.
RepeatedOfDesired(p) == StartUnderWay /\ p = desired.power

\* A repetition of the newest power request must not starve a Start.
Repeated(p) ==
    /\ StartUnderWay
    /\ p = IF powerRequest # None /\ powerRequest[1] = version
           THEN powerRequest[2] ELSE desired.power

CallPower ==
    \E o \in Ops :
        /\ o.kind = "power"
        /\ \/ /\ Repeated(o.arg)
              /\ Called(o, "done", 0)
              /\ UNCHANGED <<fence, cancelled, queue, powerRequest>>
           \/ /\ ~Repeated(o.arg)
              /\ Invalidate(FALSE)
              /\ Called(o, "lockWait", version + 1)
              /\ queue' = Append(queue, called + 1)
              /\ powerRequest' = <<version + 1, o.arg>>
              /\ UNCHANGED closed
        /\ UNCHANGED <<intent, startQueue>>

-----------------------------------------------------------------------------
(* Steps of the lock holder *)

Goto(place) == pc' = [pc EXCEPT ![Holder] = place]

\* Awaits a call of the adapter; a budgeted operation begins with a new budget.
Await(place, newBudget) ==
    /\ Goto(place)
    /\ job' = "queued"
    /\ IF newBudget THEN cancelled' = FALSE /\ expired' = FALSE ELSE UNCHANGED scope
    /\ UNCHANGED <<calls, ver, fence, locks, powerRequest>>

\* Mutant: a request that fails does not release the lock.
LeaveUnlessFailed(outcome) ==
    /\ Goto(outcome)
    /\ queue' = IF outcome = "failed" THEN queue ELSE Tail(queue)
    /\ startQueue' = IF Kind(Holder) = "start" THEN Tail(startQueue) ELSE startQueue
    /\ powerRequest' = IF /\ Kind(Holder) = "power"
                          /\ powerRequest = <<ver[Holder], Arg(Holder)>>
                       THEN None ELSE powerRequest
    /\ job' = "none" /\ cancelled' = FALSE /\ expired' = FALSE
    /\ UNCHANGED <<calls, ver, fence>>

\* Leaves the lock(s) and tells the caller.
Leave(outcome) ==
    /\ Goto(outcome)
    /\ queue' = Tail(queue)
    /\ startQueue' = IF Kind(Holder) = "start" THEN Tail(startQueue) ELSE startQueue
    /\ powerRequest' = IF /\ Kind(Holder) = "power"
                          /\ powerRequest = <<ver[Holder], Arg(Holder)>>
                       THEN None ELSE powerRequest
    /\ job' = "none" /\ cancelled' = FALSE /\ expired' = FALSE
    /\ UNCHANGED <<calls, ver, fence>>

Valid == ~closed /\ ver[Holder] = version                    \* _check(version)
StartValid == ~closed /\ intent[Holder] = startIntent

\* RequestSuperseded: a Start whose intent still stands prepares again, unless
\* its own deadline has passed; everything else gives up.
Superseded ==
    \/ Leave("failed") /\ UNCHANGED <<desired, plan>>
    \/ /\ Kind(Holder) = "start" /\ StartValid
       /\ Goto("retry")
       /\ queue' = Tail(queue)
       /\ job' = "none" /\ cancelled' = FALSE /\ expired' = FALSE
       /\ UNCHANGED <<calls, ver, fence, startQueue, powerRequest, desired, plan>>

Fail == Leave("failed") /\ UNCHANGED <<desired, plan>>

\* async_start takes _start_lock; a Start that prepares again only wants _lock.
BeginStart ==
    \E r \in Requests :
        /\ startQueue # <<>> /\ Head(startQueue) = r
        /\ pc[r] \in {"startWait", "retry"}
        /\ \/ /\ pc[r] = "startWait" /\ (closed \/ intent[r] # startIntent)
              /\ pc' = [pc EXCEPT ![r] = "failed"]
              /\ startQueue' = Tail(startQueue)
              /\ UNCHANGED <<ver, queue>>
           \/ /\ pc[r] = "retry" \/ (~closed /\ intent[r] = startIntent)
              /\ pc' = [pc EXCEPT ![r] = "lockWait"]
              /\ ver' = [ver EXCEPT ![r] = version]
              /\ queue' = Append(queue, r)
              /\ UNCHANGED startQueue
        /\ UNCHANGED <<calls, fence, powerRequest, desired, scope, job, plan, box>>

Acquire ==
    /\ At({"lockWait"})
    /\ CASE Kind(Holder) = "start" ->
              \/ ~StartValid /\ Fail
              \/ StartValid /\ ~Valid /\ Superseded
              \/ Valid /\ StartValid /\ Await("read", TRUE) /\ UNCHANGED <<desired, plan>>
         [] Kind(Holder) = "stop" -> Await("stop", FALSE) /\ UNCHANGED <<desired, plan>>
         [] Kind(Holder) = "close" -> Leave("done") /\ UNCHANGED <<desired, plan>>
         [] OTHER ->
              \/ ~Valid /\ Fail
              \/ /\ Valid /\ Kind(Holder) \in {"setting", "adopt"}
                 /\ Await(IF Kind(Holder) = "adopt" THEN "capture" ELSE "operate", TRUE)
                 /\ UNCHANGED <<desired, plan>>
              \/ /\ Valid /\ Kind(Holder) \in {"mode", "remember", "power"}
                 /\ desired' = IF Kind(Holder) = "power"
                               THEN [desired EXCEPT !.power = Arg(Holder)]
                               ELSE [desired EXCEPT !.mode = Arg(Holder)]
                 /\ Goto("save")
                 /\ UNCHANGED <<calls, ver, fence, locks, powerRequest, scope, job, plan>>
    /\ UNCHANGED box

\* _save_intent returns, or raises.
Save ==
    /\ At({"save"})
    /\ \/ Fail
       \/ /\ Valid /\ Kind(Holder) = "remember"
          /\ Leave("done") /\ UNCHANGED <<desired, plan>>
       \/ /\ Valid /\ Kind(Holder) \in {"mode", "power"}
          /\ Await(IF Kind(Holder) = "mode" THEN "read" ELSE "operate", TRUE)
          /\ UNCHANGED <<desired, plan>>
    /\ UNCHANGED box

\* async_adopt_current_mode forgets the new mode when it could not be saved.
AdoptSave ==
    /\ At({"adoptSave"})
    /\ \/ Leave("done") /\ UNCHANGED <<desired, plan>>
       \/ Leave("failed") /\ desired' = plan /\ UNCHANGED plan
    /\ UNCHANGED box

-----------------------------------------------------------------------------
(* The executor job of the lock holder *)

\* OperationBudget.remaining: the last look at the budget before a request.
Commit ==
    /\ job = "queued"
    /\ job' = IF pc[Holder] \in Budgeted /\ cancelled THEN "refused" ELSE "committed"
    /\ UNCHANGED <<calls, pc, ver, fence, locks, powerRequest, desired, scope, plan, box>>

KeepsPower(mode) == mode = Fast \/ PreservesAll

\* What the request does to the charger d; a failed one may have done any part.
Effect(d) ==
    CASE pc[Holder] = "write" ->
           {[d EXCEPT !.mode = plan.mode],
            [d EXCEPT !.mode = plan.mode,
                      !.power = IF KeepsPower(plan.mode) THEN plan.power ELSE d.power]}
      [] pc[Holder] = "start" -> {[d EXCEPT !.session = s] : s \in {"preparing", "charging"}}
      [] pc[Holder] = "stop" -> {[d EXCEPT !.session = "idle"]}
      [] pc[Holder] = "operate" /\ Kind(Holder) = "power" ->
           {d, [d EXCEPT !.power = Arg(Holder)]}   \* in a PV mode the power is only staged
      [] OTHER -> {d}

\* True is reported only for all of it.
Complete(d) == pc[Holder] = "write" /\ KeepsPower(plan.mode) => d.power = plan.power

Send ==
    /\ job = "committed"
    /\ \/ /\ job' = "answered"
          /\ device' \in {d \in Effect(device) : Complete(d)}
       \/ /\ job' = "lost"
          /\ device' \in Effect(device) \cup {device}
    /\ delivered' = IF pc[Holder] \in {"start", "stop"}
                    THEN Append(delivered, Holder) ELSE delivered
    /\ report' = IF RequiresAdvance THEN report ELSE device'
    /\ UNCHANGED <<calls, pc, ver, fence, locks, powerRequest, desired, scope, plan, advanced>>

\* The charger's next report reaches the cloud.
Refresh ==
    /\ RequiresAdvance
    /\ report # device \/ ~advanced
    /\ report' = device /\ advanced' = TRUE
    /\ UNCHANGED <<calls, pc, ver, fence, locks, powerRequest, desired, scope, job, plan,
                   device, delivered>>

\* asyncio.timeout, or a cancellation of the caller, in a budgeted operation.
Expire ==
    /\ At(Budgeted) /\ ~expired
    /\ expired' = TRUE /\ cancelled' = TRUE
    /\ UNCHANGED <<calls, pc, ver, fence, locks, powerRequest, desired, job, plan, box>>

-----------------------------------------------------------------------------
(* The job is over and the holder goes on.  It never goes on before. *)

Bad == expired \/ job = "lost"

\* Anything but a good answer to a request that is still valid.
Unanswered == \/ Bad /\ Fail
              \/ job = "refused" /\ ~expired /\ Superseded

Target == IF Kind(Holder) = "mode" THEN Arg(Holder)
          ELSE IF RememberMode /\ desired.mode # None THEN desired.mode ELSE report.mode

\* The verification of _verify_inner ends with or without a running charge.
Verified(charging) ==
    IF Kind(Holder) = "mode" \/ charging
    THEN Leave("done") /\ UNCHANGED <<desired, plan>>
    ELSE Await("start", TRUE) /\ UNCHANGED <<desired, plan>>

\* The configured power is read from the settings, and only believed when their
\* mode is the reported one.
ReadPower == IF report.mode = device.mode THEN device.power ELSE None

PowerKept(mode, power) == KeepsPower(mode) /\ power # None => ReadPower = power

FirstRead ==
    LET mismatch == ~PowerKept(Target, desired.power)
        running  == report.session = "charging" /\ report.mode = Target /\ ~mismatch
        planned  == [mode |-> Target,
                     power |-> IF KeepsPower(Target) /\ desired.power # None
                               THEN desired.power ELSE ReadPower]
        writing  == report.mode # Target \/ mismatch
        \* The adapter has no power to write, or the charger must be stopped first.
        refused  == writing /\ \/ KeepsPower(Target) /\ planned.power = None
                               \/ PreservesAll /\ report.session # "idle"
    IN  /\ advanced' = FALSE
        /\ IF refused \/ (report.session # "idle" /\ Kind(Holder) = "start" /\ ~running)
           THEN Fail
           ELSE IF writing
           THEN Await("write", FALSE) /\ plan' = planned /\ UNCHANGED desired
           ELSE IF RequiresAdvance
           THEN Await("confirm", FALSE) /\ plan' = planned /\ UNCHANGED desired
           ELSE Verified(running)

\* Mutant: any matching report confirms, even the one read first.
NextReadAnyReport ==
    LET matches == report.mode = plan.mode /\ PowerKept(plan.mode, plan.power)
    IN  IF /\ report.session # "idle" /\ Kind(Holder) = "start"
           /\ ~(report.session = "charging" /\ matches)
        THEN Fail
        ELSE IF matches
        THEN Verified(report.session = "charging")
        ELSE Await("confirm", FALSE) /\ UNCHANGED <<desired, plan>>

NextRead ==
    LET matches == report.mode = plan.mode /\ PowerKept(plan.mode, plan.power)
    IN  IF /\ report.session # "idle" /\ Kind(Holder) = "start"
           /\ ~(report.session = "charging" /\ matches)
        THEN Fail
        ELSE IF matches /\ (advanced \/ ~RequiresAdvance)
        THEN Verified(report.session = "charging")
        ELSE Await("confirm", FALSE) /\ UNCHANGED <<desired, plan>>

Continue ==
    CASE pc[Holder] = "read" ->
           IF Valid THEN FirstRead ELSE Superseded /\ UNCHANGED advanced
      [] pc[Holder] = "write" ->
           /\ IF Valid THEN Await("confirm", FALSE) /\ UNCHANGED <<desired, plan>> ELSE Superseded
           /\ UNCHANGED advanced
      [] pc[Holder] = "confirm" ->
           (IF Valid THEN NextRead ELSE Superseded) /\ UNCHANGED advanced
      [] pc[Holder] = "capture" ->
           /\ IF Valid
              THEN /\ Goto("adoptSave")
                   /\ desired' = [desired EXCEPT !.mode = report.mode] /\ plan' = desired
                   /\ job' = "none"
                   /\ UNCHANGED <<calls, ver, fence, locks, powerRequest, scope>>
              ELSE Superseded
           /\ UNCHANGED advanced
      [] OTHER -> Leave("done") /\ UNCHANGED <<desired, plan, advanced>>

Return ==
    /\ job \in {"refused", "answered", "lost"}
    /\ \/ Unanswered /\ UNCHANGED advanced
       \/ job = "answered" /\ ~expired /\ Continue
    /\ UNCHANGED <<device, report, delivered>>

HolderNext == Acquire \/ Save \/ AdoptSave \/ Commit \/ Send \/ Return

Next == \/ CallStart \/ CallOther \/ CallPower
        \/ BeginStart \/ HolderNext \/ Refresh \/ Expire

Spec == Init /\ [][Next]_vars

\* The loop schedules ready tasks, HTTP and socket calls time out, and so does
\* every budget.  Nobody has to make a call, and no report has to arrive.
Fairness == WF_vars(BeginStart) /\ WF_vars(HolderNext) /\ WF_vars(Expire)

FairSpec == Spec /\ Fairness

-----------------------------------------------------------------------------
(* Correctness *)

\* Starts and Stops reach the charger at most once each and in the order in
\* which they were asked for: no Start follows a newer Stop, whatever retries
\* its preparation went through, and no answer, lost or late, causes a replay.
InCallOrder ==
    \A i, j \in DOMAIN delivered : i < j => delivered[i] < delivered[j]

\* A Start goes out only to an idle charger that really is in the wanted mode
\* with the wanted ceiling at that moment, not to one that a stale report or
\* another request's leftovers describe.
StartAsWanted ==
    [][job = "committed" /\ job' # job /\ pc[Holder] = "start" =>
         /\ device.session = "idle"
         /\ RememberMode => desired.mode \in {None, device.mode}
         /\ KeepsPower(device.mode) => desired.power \in {None, device.power}]_vars

\* A budgeted request passes its last check only while nothing newer has been
\* asked for: every invalidation reaches the budget of whoever runs then.
FencedRequests ==
    [][job = "queued" /\ job' = "committed" /\ pc[Holder] \in Budgeted => Valid]_vars

\* Once async_close has returned only a Stop may still reach the charger.
NothingAfterClose ==
    [][job = "committed" /\ job' # job /\ Kind(Holder) # "stop" =>
         ~ \E c \in 1..called : Kind(c) = "close" /\ pc[c] = "done"]_vars

\* A power request reported as done, by its own write or because it repeated
\* one under way, is what is remembered in the end, unless something else was
\* asked for later or the request it repeated reported a failure.
PowerStands ==
    (\A r \in 1..called : pc[r] \in Over) =>
        \A r \in 1..called :
            /\ Kind(r) = "power" /\ pc[r] = "done"
            /\ \A q \in (r + 1)..called : Kind(q) = "start" \/ op[q] = op[r]
            => \/ desired.power = Arg(r)
               \/ \E q \in 1..called : op[q] = op[r] /\ pc[q] = "failed"

\* Every request is answered: no lock is kept, no Start prepares for ever.
EveryRequestEnds ==
    \A r \in Requests : pc[r] # "new" ~> pc[r] \in Over
=============================================================================

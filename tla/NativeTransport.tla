--------------------------- MODULE NativeTransport ---------------------------
(***************************************************************************)
(* native_transport.py with its SessionGuard: one TCP client at a time, the  *)
(* commands that share its lock, and the protective Stop.                    *)
(*                                                                         *)
(* Users call commands: controls, which charge_mode_policy.py lets through    *)
(* one at a time, and polls.  "guard" is the task of _protect.  A report may   *)
(* say anything at any time: it may be older than a frame that was sent, and *)
(* the wallbox may ignore frames or be used by somebody else.                *)
(***************************************************************************)
EXTENDS SessionGuard, Sequences

CONSTANTS Attempts,     \* the Stops of one protection or recovery
          Users,        \* those who call commands,
          Controls,     \* and what they may ask for: records of act, power and mode
          Reported      \* what the wallbox reports

Callers == Users \cup {"guard"}
Acts    == {"status", "power", "mode", "start", "stop"}

ASSUME TransportAssumption ==
    /\ Attempts \in Nat \ {0}
    /\ "guard" \notin Users
    /\ Reported \subseteq Report
    /\ Controls \subseteq [act : Acts, power : Powers, mode : Modes]

VARIABLES writer,     \* "none", "open" or "closing"
          serve,      \* where _serve is: "none", "reading", or its cleanup
          latest,
          lock,       \* the callers that wait for _lock, its holder first
          cmd,        \* the commands under way
          pending,    \* _pending: "none", "open", "matched" or "lost"
          guard,
          expected,   \* expected_disconnect: a return to the cloud is under way
          last,       \* history: the last Start or Stop sent on this connection, and
                      \* whether the end of charging was reported after the Start
          seen,       \* history: and after the Stop came a report of a stopped wallbox
          recent      \* history: how long ago the guard's limit was a power or more

session  == <<writer, serve, latest>>
commands == <<lock, cmd, pending>>
history  == <<last, seen, recent>>
vars     == <<session, commands, guard, expected, history>>

\* "idle", waiting for the lock, for a quiet moment, for the two reports of
\* _prepare_start, for delivery, for confirmation; in _stop_failed_start.
Places == {"idle", "waiting", "quiet", "idleCheck", "powerCheck", "delivery", "sent",
           "recovery"}
Command == [at : Places, act : Acts, power : Powers, mode : Modes, same : BOOLEAN,
            tries : 0..Attempts]
NoCommand == [at |-> "idle", act |-> "status", power |-> 1, mode |-> Fast, same |-> FALSE,
              tries |-> 0]

TypeOK ==
    /\ writer \in {"none", "open", "closing"} /\ serve \in {"none", "reading", "guard", "task"}
    /\ latest \in Report \cup {None}
    /\ lock \in Seq(Callers) /\ cmd \in [Callers -> Command]
    /\ pending \in {"none", "open", "matched", "lost"}
    /\ guard \in Guard /\ expected \in BOOLEAN
    /\ last \in {"none", "start", "ended", "stop"} /\ seen \in BOOLEAN
    /\ recent \in [Powers -> 0..Grace]

Init ==
    /\ writer = "none" /\ serve = "none" /\ latest = None
    /\ lock = <<>> /\ cmd = [c \in Callers |-> NoCommand] /\ pending = "none"
    /\ guard = NewGuard /\ expected = FALSE
    /\ last = "none" /\ seen = FALSE /\ recent = NoGrace

Available == writer = "open" /\ latest # None
Same(c)   == cmd[c].same /\ Available
Holds(c)  == lock # <<>> /\ Head(lock) = c
AtPlace(c, place) == Holds(c) /\ cmd[c].at = place

-----------------------------------------------------------------------------
(* Steps that end a command *)

Without(c) ==
    LET at == CHOOSE i \in DOMAIN lock : lock[i] = c
    IN  IF \E i \in DOMAIN lock : lock[i] = c
        THEN [i \in 1..(Len(lock) - 1) |-> IF i < at THEN lock[i] ELSE lock[i + 1]]
        ELSE lock

\* The lock goes to the next of its waiters.
Released(c) ==
    /\ lock' = Without(c)
    /\ cmd' = [cmd EXCEPT ![c] = NoCommand]

\* What _protect makes of its Stop.
Outcome(c, g, stopped) ==
    IF c # "guard" THEN g ELSE IF stopped THEN Protected(g) ELSE Unprotected(g)

\* No frame of its own is in doubt: the connection is kept.
Refused(c) ==
    /\ Released(c)
    /\ pending' = IF Holds(c) THEN "none" ELSE pending
    /\ guard' = Outcome(c, guard, FALSE)
    /\ UNCHANGED <<session, expected, history>>

\* A frame of its own may or may not have arrived: the connection is closed,
\* whichever it is by now.
Abandoned(c) ==
    /\ Released(c)
    /\ pending' = "none"
    /\ guard' = Outcome(c, guard, FALSE)
    /\ writer' = IF writer = "none" THEN "none" ELSE "closing"
    /\ UNCHANGED <<serve, latest, expected, history>>

-----------------------------------------------------------------------------
(* async_command *)

\* What goes to the wallbox, as far as history tells frames apart.
Sends(act) ==
    /\ last' = IF act \in {"start", "stop"} THEN act ELSE last
    /\ seen' = (seen /\ last' = last)

\* What is allowed from now on, and what was allowed before if it still counts.
Recalled(powers, before) ==
    [p \in Powers |-> IF \E q \in powers \ {None} : p <= q THEN Grace ELSE before[p]]

Called(c, act, power, mode) ==
    /\ cmd[c].at = "idle"
    /\ cmd' = [cmd EXCEPT ![c] = [NoCommand EXCEPT
                 !.at = "waiting", !.act = act, !.power = power, !.mode = mode,
                 !.same = TRUE]]
    /\ lock' = Append(lock, c)
    /\ UNCHANGED <<session, pending, expected, history>>

\* During a return to the cloud the router routes no control and no poll here.
Calls ==
    /\ ~expected
    /\ \E c \in Users, u \in Controls : Called(c, u.act, u.power, u.mode)
    /\ UNCHANGED guard

GuardCalls ==
    /\ guard.task = "created"
    /\ Called("guard", "stop", 1, Fast)
    /\ guard' = [guard EXCEPT !.task = "running"]

Acquire(c) ==
    /\ AtPlace(c, "waiting")
    /\ IF Same(c)
       THEN /\ cmd' = [cmd EXCEPT ![c].at = "quiet"]
            /\ UNCHANGED <<session, lock, pending, guard, expected, history>>
       ELSE Refused(c)

LostWhileQuiet(c) == AtPlace(c, "quiet") /\ ~Same(c) /\ Refused(c)

\* Mutant: a protective Stop that is due does not stand in the way of a power.
BehindPowers(c) == cmd[c].act \notin {"status", "stop", "power"} => ~TaskPending(guard)

BehindProtection(c) == cmd[c].act \notin {"status", "stop"} => ~TaskPending(guard)

\* The conditions of a command after the quiet moment.
Allowed(c) ==
    LET u == cmd[c]
    IN  /\ BehindProtection(c)
        /\ u.act = "start" => /\ guard.phase \notin {"starting", "waiting"}
                              /\ Stopped(latest) /\ latest.mode = u.mode
        /\ u.act = "mode" => Stopped(latest) /\ guard.phase \notin Supervising

\* A newer intent (start_allowed, intent_allowed) may have arrived.
NotAllowed(c) ==
    /\ AtPlace(c, "quiet") /\ Same(c)
    /\ ~Allowed(c) \/ cmd[c].act \in {"power", "start"}
    /\ Refused(c)

Ceiling == IF latest.load > latest.limit THEN latest.load ELSE latest.limit
Adopts(c) == cmd[c].act = "power" /\ guard.limit = None /\ Charging(latest)

\* The guard learns of a power before the wallbox does.
Supervised(c) ==
    IF Adopts(c) THEN Adopt(guard, cmd[c].power, Ceiling, latest.mode)
    ELSE IF cmd[c].act = "power" THEN UpdateLimit(guard, cmd[c].power)
    ELSE guard

Send(c) ==
    LET u == cmd[c] IN
    /\ AtPlace(c, "quiet") /\ Same(c) /\ Allowed(c) /\ u.act # "start"
    /\ pending' = "open"
    /\ guard' = Supervised(c)
    /\ Sends(u.act)
    /\ cmd' = [cmd EXCEPT ![c].at = "sent",
                          ![c].mode = IF u.act = "power" THEN latest.mode ELSE @,
                          ![c].tries = IF c = "guard" THEN 1 ELSE 0]
    /\ recent' = IF Adopts(c) THEN Recalled({Ceiling, guard'.limit}, NoGrace)
                 ELSE Recalled({guard'.limit}, recent)
    /\ UNCHANGED <<session, lock, expected>>

\* A Start first asks for an idle report, then restores the power.
PrepareStart(c) ==
    /\ AtPlace(c, "quiet") /\ Same(c) /\ Allowed(c) /\ cmd[c].act = "start"
    /\ pending' = "open"
    /\ cmd' = [cmd EXCEPT ![c].at = "idleCheck"]
    /\ UNCHANGED <<session, lock, guard, expected, history>>

\* Mutant: recovery takes any stopped report for the end of its Stop.
StoppedUnasked(c, r) == Stopped(r)

StoppedSince(c, r) == cmd[c].tries > 0 /\ Stopped(r)

\* The report that the holder of the lock waits for.
Matches(c, r) ==
    LET u == cmd[c] IN
    \/ u.at = "idleCheck"  /\ r.state = 0 /\ Stopped(r) /\ r.mode = u.mode
    \/ u.at = "powerCheck" /\ r.state = 0 /\ Stopped(r) /\ r.mode = u.mode /\ r.limit = u.power
    \/ u.at = "recovery"   /\ StoppedSince(c, r)
    \/ /\ u.at = "sent"
       /\ \/ u.act = "status"
          \/ u.act = "mode"  /\ r.mode = u.mode
          \/ u.act = "power" /\ r.mode = u.mode /\ r.limit = u.power
          \/ u.act = "stop"  /\ Stopped(r)

\* Mutant: the session is not looked at again after the wait.
PreparedOnce(c, place) ==
    /\ AtPlace(c, place) /\ pending = "matched"
    /\ latest # None /\ Matches(c, latest)

Prepared(c, place) ==
    /\ AtPlace(c, place) /\ pending = "matched"
    /\ Same(c) /\ Matches(c, latest)

RestorePower(c) ==
    /\ Prepared(c, "idleCheck")
    /\ Sends("power")
    /\ pending' = "open"
    /\ cmd' = [cmd EXCEPT ![c].at = "powerCheck"]
    /\ UNCHANGED <<session, lock, guard, expected, recent>>

\* _prepare_start ends without a Start.
Superseded(c) == (AtPlace(c, "idleCheck") \/ AtPlace(c, "powerCheck")) /\ Refused(c)

Unprepared(c) == (AtPlace(c, "idleCheck") \/ AtPlace(c, "powerCheck")) /\ Abandoned(c)

\* The guard supervises before the Start is on the wire.
Deliver(c) ==
    /\ Prepared(c, "powerCheck") /\ ~TaskPending(guard)
    /\ guard' = Begin(guard, cmd[c].power, cmd[c].mode)
    /\ recent' = Recalled({guard'.limit}, NoGrace)
    /\ Sends("start")
    /\ pending' = "open"
    /\ cmd' = [cmd EXCEPT ![c].at = "delivery"]
    /\ UNCHANGED <<session, lock, expected>>

Returned(c, g) ==
    /\ Released(c) /\ pending' = "none" /\ guard' = g
    /\ UNCHANGED <<session, expected, history>>

Delivered(c) == AtPlace(c, "delivery") /\ Returned(c, guard)

MayTry(c) == cmd[c].tries < Attempts

\* A second Stop, and a third.
Retry(c) ==
    /\ AtPlace(c, "sent") /\ c = "guard" /\ pending = "open" /\ writer = "open"
    /\ MayTry(c)
    /\ Sends("stop")
    /\ cmd' = [cmd EXCEPT ![c].tries = @ + 1]
    /\ UNCHANGED <<session, lock, pending, guard, expected, recent>>

Confirmed(c) ==
    /\ AtPlace(c, "sent") /\ pending = "matched"
    /\ Returned(c, IF cmd[c].act = "stop" THEN Outcome(c, Disarm(guard), TRUE) ELSE guard)

Unconfirmed(c) == AtPlace(c, "sent") /\ Abandoned(c)

\* Nothing was sent when its time was up, perhaps while others held the lock.
TimedOut(c) == cmd[c].at \in {"waiting", "quiet"} /\ Refused(c)

-----------------------------------------------------------------------------
(* _stop_failed_start, by the user's Start that failed *)

RecoveryBegins(c) ==
    /\ \/ Prepared(c, "powerCheck") /\ TaskPending(guard)
       \/ AtPlace(c, "delivery")
    /\ pending' = "open"
    /\ guard' = [Disarm(guard) EXCEPT !.error = "pending"]
    /\ cmd' = [cmd EXCEPT ![c].at = "recovery"]
    /\ UNCHANGED <<session, lock, expected, history>>

RecoveryStop(c) ==
    /\ AtPlace(c, "recovery") /\ Same(c) /\ pending = "open"
    /\ MayTry(c)
    /\ Sends("stop")
    /\ cmd' = [cmd EXCEPT ![c].tries = @ + 1]
    /\ UNCHANGED <<session, lock, pending, guard, expected, recent>>

RecoveryConfirms(c) ==
    /\ AtPlace(c, "recovery") /\ Same(c) /\ pending = "matched"
    /\ Returned(c, [guard EXCEPT !.error = "confirmed"])

RecoveryFails(c) ==
    /\ AtPlace(c, "recovery")
    /\ Released(c) /\ pending' = "none"
    /\ guard' = [guard EXCEPT !.error = "unverified"]
    /\ writer' = IF writer = "none" THEN "none" ELSE "closing"
    /\ UNCHANGED <<serve, latest, expected, history>>

-----------------------------------------------------------------------------
(* _serve *)

\* _invalidate: a new epoch, for the commands cs and what the holder waits for.
Invalidates(cs) ==
    /\ latest' = None
    /\ cmd' = [c \in Callers |-> [cs[c] EXCEPT !.same = FALSE]]
    /\ pending' = IF Holds("guard") /\ cs["guard"] = NoCommand THEN "none"
                  ELSE IF pending = "open" THEN "lost" ELSE pending

Connects ==
    /\ serve = "none"
    /\ writer' = "open" /\ serve' = "reading" /\ Invalidates(cmd)
    /\ last' = "none" /\ seen' = FALSE
    /\ UNCHANGED <<lock, guard, expected, recent>>

RegistersAgain ==
    /\ serve = "reading" /\ writer = "open" /\ latest # None
    /\ Invalidates(cmd)
    /\ UNCHANGED <<writer, serve, lock, guard, expected, history>>

\* A status report: the guard sees it before the command that waits for it.
Reports(r) ==
    /\ serve = "reading" /\ writer = "open"
    /\ latest' = r
    /\ guard' = AfterReport(guard, r)
    /\ pending' = IF pending = "open" /\ Matches(Head(lock), r) THEN "matched" ELSE pending
    /\ last' = IF last = "start" /\ r.state = 3 THEN "ended" ELSE last
    /\ seen' = (seen \/ (last = "stop" /\ Stopped(r)))
    /\ UNCHANGED <<writer, serve, lock, cmd, expected, recent>>

Left ==
    /\ writer' = "none" /\ serve' = "none"
    /\ last' = "none" /\ seen' = FALSE

\* The rest of close: _protect is cancelled, its command leaves the queue or closes
\* the connection.  It waits for a task that was ever there.
Closes(g) ==
    LET cs == [cmd EXCEPT !["guard"] = NoCommand] IN
    /\ lock' = Without("guard")
    /\ guard' = [CloseThen(g, expected) EXCEPT !.task = IF @ = "none" THEN "none" ELSE "over"]
    /\ IF g.task = "none" THEN Left /\ Invalidates(cs)
       ELSE /\ serve' = "task" /\ cmd' = cs
            /\ writer' = IF AtPlace("guard", "sent") THEN "closing" ELSE writer
            /\ pending' = IF Holds("guard") THEN "none" ELSE pending
            /\ UNCHANGED <<latest, last, seen>>

SessionEnds ==
    /\ serve = "reading"
    /\ IF guard.deadline = "none" THEN Closes(CloseFirst(guard, expected))
       ELSE /\ serve' = "guard" /\ guard' = CloseFirst(guard, expected)
            /\ UNCHANGED <<writer, latest, commands, last, seen>>
    /\ UNCHANGED <<expected, recent>>

GuardCloses == serve = "guard" /\ Closes(guard) /\ UNCHANGED <<expected, recent>>

PeerLeaves ==
    /\ serve = "task" /\ Left /\ Invalidates(cmd)
    /\ UNCHANGED <<lock, guard, expected, recent>>

-----------------------------------------------------------------------------
(* The router's return to the cloud, as far as this connection knows of it *)

ReturnBegins ==
    /\ ~expected /\ writer = "open" /\ ~TaskPending(guard) /\ \A c \in Users : cmd[c].act \in {"status"}
    /\ expected' = TRUE
    /\ UNCHANGED <<session, commands, guard, history>>

ReturnEnds ==
    /\ expected /\ serve = "none"
    /\ expected' = FALSE
    /\ UNCHANGED <<session, commands, guard, history>>

ReturnFails ==
    /\ expected
    /\ expected' = FALSE
    /\ guard' = IF Available THEN guard ELSE [guard EXCEPT !.error = "unverified"]
    /\ UNCHANGED <<session, commands, history>>

-----------------------------------------------------------------------------
(* Time: every wait has a limit, which may be up at any moment *)

\* The cleanup of a connection is too short for a deadline that began during it.
DeadlineFires ==
    /\ guard.deadline = "running" /\ serve \in {"none", "reading"}
    /\ guard' = DeadlineOver(guard)
    /\ UNCHANGED <<session, commands, expected, history>>

\* Allowances of reductions grow old.
Tick ==
    /\ guard.settling # NoGrace \/ recent # NoGrace
    /\ guard' = Aged(guard)
    /\ recent' = [p \in Powers |->
                    IF recent[p] = 0 \/ (guard.limit # None /\ p <= guard.limit)
                    THEN recent[p] ELSE recent[p] - 1]
    /\ UNCHANGED <<session, commands, expected, last, seen>>

Works(c) ==
    \/ Acquire(c) \/ LostWhileQuiet(c) \/ NotAllowed(c) \/ Send(c) \/ PrepareStart(c)
    \/ RestorePower(c) \/ Superseded(c) \/ Unprepared(c) \/ Deliver(c) \/ Delivered(c)
    \/ Retry(c) \/ Confirmed(c) \/ Unconfirmed(c) \/ TimedOut(c)
    \/ RecoveryBegins(c) \/ RecoveryStop(c) \/ RecoveryConfirms(c) \/ RecoveryFails(c)

Next ==
    \/ Calls \/ GuardCalls
    \/ \E c \in Callers : Works(c)
    \/ Connects \/ RegistersAgain \/ SessionEnds \/ GuardCloses \/ PeerLeaves
    \/ ReturnBegins \/ ReturnEnds \/ ReturnFails
    \/ \E r \in Reported : Reports(r)
    \/ DeadlineFires \/ Tick

Spec == Init /\ [][Next]_vars

\* Every wait ends, and what is ready goes on.
Fairness ==
    /\ \A c \in Callers :
         /\ WF_vars(Acquire(c) \/ TimedOut(c))
         /\ WF_vars(Unprepared(c) \/ Delivered(c) \/ Confirmed(c) \/ Unconfirmed(c))
         /\ WF_vars(RecoveryConfirms(c) \/ RecoveryFails(c))
    /\ WF_vars(GuardCalls) /\ WF_vars(DeadlineFires) /\ WF_vars(GuardCloses)
    /\ WF_vars(PeerLeaves)

FairSpec == Spec /\ Fairness

-----------------------------------------------------------------------------
(* Properties *)

\* c writes a control frame in this step.
Writes(c) ==
    \/ cmd'[c].at # cmd[c].at /\ cmd'[c].at \in {"sent", "powerCheck", "delivery"}
    \/ cmd'[c].tries > cmd[c].tries

\* A frame goes only to the session in which its command was called, while that
\* session reports; a Start never while a protective Stop is due.  The code checks
\* both before waits, and again after them.
WrittenInSession ==
    [][\A c \in Callers : Writes(c) =>
          /\ Same(c)
          /\ cmd'[c].at = "delivery" => ~TaskPending(guard)]_vars

\* On a connection where the last word was a Start of this host, the load is
\* supervised until its end is reported, or the guard says that something is wrong.
StartIsSupervised ==
    serve = "reading" /\ last = "start" => guard.limit # None \/ guard.error # "none"

\* "Stop confirmed" is said only after a Stop on this connection, and a report of a
\* stopped wallbox that came after it.
ConfirmedAfterStop ==
    [][guard'.error = "confirmed" /\ guard.error # "confirmed" => last = "stop" /\ seen]_vars

\* An alarm whose protective Stop is under way is not cleared by a command that arms
\* the guard anew, whatever disarmed it in between.
AlarmStays == [][TaskPending(guard) => guard'.error # "none"]_vars

\* A load that the guard lets pass is not above every limit that was asked for since
\* it was armed, and that still held within the time a reduction may take.
ToleratedIsRecent ==
    [][(latest' # None /\ latest'.load > 0 /\ latest' # latest /\ guard'.limit # None
          /\ guard'.error = "none")
         => recent[latest'.load] > 0]_vars

\* An alarm of a supervised session comes to an outcome, whatever holds the lock, and
\* however the session ends.
AlarmEnds == (guard.error = "pending" /\ guard.limit # None)
                 ~> (guard.error # "pending" \/ guard.limit = None)

\* Fast mode does not wait for ever for a load: it is seen, or an alarm is raised.
StartingEnds == (guard.phase = "starting" /\ guard.error = "none")
                    ~> (guard.phase # "starting" \/ guard.error # "none")

\* Neither waits for ever.
GuardSettles == AlarmEnds /\ StartingEnds

\* NATIVE_TCP: excess load requests Stop.  A protective Stop is not given up in the queue.
StopIsSent ==
    [][(cmd["guard"].at = "waiting" /\ ~Holds("guard") /\ cmd["guard"].same /\ Available)
         => guard'.error # "unverified" \/ guard.error = "unverified"]_vars
=============================================================================

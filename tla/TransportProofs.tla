--------------------------- MODULE TransportProofs ---------------------------
(***************************************************************************)
(* Theorems about NativeTransport for every number of users, every range of *)
(* powers, every choice of reports and any number of protective Stops: its   *)
(* types and its safety properties.                                         *)
(***************************************************************************)
EXTENDS NativeTransport, TLAPS

\* Who waits for more than the lock has it.
HolderInv == \A c \in Callers : cmd[c].at \notin {"idle", "waiting"} => Holds(c)

\* The task of _protect and its command come and go together.
ProtectInv ==
    /\ cmd["guard"].at # "idle" <=> guard.task = "running"
    /\ cmd["guard"].at # "idle" => cmd["guard"].act = "stop"
    /\ cmd["guard"].at \in {"idle", "waiting", "quiet", "sent"}

\* An alarm whose Stop is due is raised, and _serve waits for its end.
AlarmInv ==
    /\ TaskPending(guard) => guard.error # "none"
    /\ TaskPending(guard) => serve # "task"

\* There is a writer as long as _serve runs.
ServeInv == writer = "none" <=> serve = "none"

\* A report is awaited in a session that reports; only recovery looks for itself.
PendingInv ==
    pending = "open" =>
        /\ lock # <<>>
        /\ cmd[Head(lock)].at # "recovery" => cmd[Head(lock)].same /\ latest # None

\* What is known of the last frame while a Stop is awaited, and after it is matched.
StopInv ==
    \A c \in Callers :
        /\ cmd[c].at \notin {"sent", "recovery"} => cmd[c].tries = 0
        /\ cmd[c].at = "sent" /\ cmd[c].act = "stop" => last # "start"
        /\ cmd[c].at = "recovery" /\ cmd[c].same /\ cmd[c].tries > 0
              => last = "stop" /\ (pending = "matched" => seen)
        /\ cmd[c].at = "recovery" /\ pending = "matched" => cmd[c].tries > 0

GuardStopInv ==
    cmd["guard"].at = "sent" =>
        /\ serve # "none" /\ last = "stop"
        /\ pending = "matched" => seen

\* All that is allowed was asked for, and within the time of a reduction.
GraceInv ==
    guard.limit # None =>
        /\ \A q \in Powers : q <= guard.limit => recent[q] = Grace
        /\ \A p, q \in Powers : q <= p => recent[q] >= guard.settling[p]

IInv == /\ TypeOK /\ HolderInv /\ ProtectInv /\ AlarmInv /\ ServeInv /\ PendingInv
        /\ StopInv /\ GuardStopInv /\ GraceInv /\ StartIsSupervised
-----------------------------------------------------------------------------
(* The lock and the guard *)

\* Who leaves the queue leaves the others in it, and its head at the head.
LEMMA WithoutFacts ==
  ASSUME NEW c \in Callers, lock \in Seq(Callers)
  PROVE  /\ Without(c) \in Seq(Callers)
         /\ lock # <<>> /\ Head(lock) # c
               => Without(c) # <<>> /\ Head(Without(c)) = Head(lock)
  <1>1. CASE ~ \E i \in DOMAIN lock : lock[i] = c
    BY <1>1 DEF Without
  <1>2. CASE \E i \in DOMAIN lock : lock[i] = c
    <2> DEFINE at == CHOOSE i \in DOMAIN lock : lock[i] = c
    <2>1. at \in DOMAIN lock /\ lock[at] = c
      BY <1>2
    <2>2. at \in 1..Len(lock) /\ Len(lock) \in Nat /\ \A i \in 1..Len(lock) : lock[i] \in Callers
      BY <2>1
    <2>3. Without(c) = [i \in 1..(Len(lock) - 1) |-> IF i < at THEN lock[i] ELSE lock[i + 1]]
      BY <1>2 DEF Without
    <2> HIDE DEF at
    <2>4. /\ Len(lock) - 1 \in Nat
          /\ \A i \in 1..(Len(lock) - 1) : Without(c)[i] \in Callers
      BY <2>2, <2>3
    <2>5. Without(c) \in Seq(Callers) /\ Len(Without(c)) = Len(lock) - 1
      BY <2>3, <2>4
    <2>6. ASSUME lock # <<>>, Head(lock) # c
          PROVE  Without(c) # <<>> /\ Head(Without(c)) = Head(lock)
      <3>1. at # 1 /\ lock[1] = Head(lock)
        BY <2>1, <2>6
      <3>2. 1 \in 1..(Len(lock) - 1) /\ Without(c)[1] = lock[1]
        BY <2>2, <2>3, <3>1
      <3> QED
        BY <2>5, <3>1, <3>2
    <2> QED
      BY <2>5, <2>6
  <1> QED
    BY <1>1, <1>2

\* Every method of the guard leaves it a guard.
LEMMA GuardTypes ==
  ASSUME NEW g \in Guard
  PROVE  /\ \A p \in Powers, m \in Modes : Begin(g, p, m) \in Guard
         /\ \A p \in Powers : UpdateLimit(g, p) \in Guard
         /\ \A p, q \in Powers, m \in Modes : Adopt(g, p, q, m) \in Guard
         /\ Disarm(g) \in Guard /\ DeadlineOver(g) \in Guard
         /\ \A r \in Report : AfterReport(g, r) \in Guard
         /\ Protected(g) \in Guard /\ Unprotected(g) \in Guard
         /\ \A e \in BOOLEAN : CloseFirst(g, e) \in Guard /\ CloseThen(g, e) \in Guard
         /\ Aged(g) \in Guard
  <1> USE GuardAssumption DEF GuardAssumption
  <1>1. NoGrace \in [Powers -> 0..Grace]
    BY DEF NoGrace
  <1>2. \A p \in Powers : Arm(g, p) \in Guard
    <2> TAKE p \in Powers
    <2>1. Fast \in Modes /\ Cancelled(g.deadline) \in {"none", "running", "over"}
      BY DEF Modes, Guard, Cancelled
    <2> QED
      BY <1>1, <2>1 DEF Arm, Guard, Errors
  <1>3. \A p \in Powers, m \in Modes : Begin(g, p, m) \in Guard
    <2> TAKE p \in Powers, m \in Modes
    <2>1. Arm(g, p) \in Guard
      BY <1>2
    <2> QED
      BY <2>1 DEF Begin, Guard, Phases
  <1>4. \A h \in Guard, p \in Powers : UpdateLimit(h, p) \in Guard
    <2> TAKE h \in Guard, p \in Powers
    <2>1. [h.settling EXCEPT ![h.limit] = IF p < h.limit THEN Grace ELSE @] \in [Powers -> 0..Grace]
      <3>1. h.settling \in [Powers -> 0..Grace] /\ Grace \in 0..Grace
        BY DEF Guard
      <3> QED
        BY ONLY <3>1
    <2>2. [h EXCEPT !.limit = p,
                    !.settling = [h.settling EXCEPT ![h.limit] = IF p < h.limit THEN Grace ELSE @]]
             \in Guard
      BY <2>1 DEF Guard
    <2> QED
      BY <2>2 DEF UpdateLimit
  <1>5. \A p, q \in Powers, m \in Modes : Adopt(g, p, q, m) \in Guard
    <2> TAKE p, q \in Powers, m \in Modes
    <2>1. [Arm(g, q) EXCEPT !.mode = m, !.phase = "charging"] \in Guard
      BY <1>2 DEF Guard, Phases
    <2> QED
      BY <2>1, <1>4 DEF Adopt
  <1>6. Disarm(g) \in Guard /\ Latch(g) \in Guard
    BY DEF Disarm, Latch, Guard, Phases, Errors, Cancelled
  <1>7. DeadlineOver(g) \in Guard
    BY <1>6 DEF DeadlineOver, Guard
  <1>8. \A r \in Report : AfterReport(g, r) \in Guard
    <2> TAKE r \in Report
    <2>1. /\ [g EXCEPT !.phase = "charging", !.deadline = Cancelled(@)] \in Guard
          /\ [g EXCEPT !.phase = "waiting"] \in Guard
      BY DEF Guard, Phases, Cancelled
    <2> QED
      BY <1>6, <2>1 DEF AfterReport
  <1>9. Protected(g) \in Guard /\ Unprotected(g) \in Guard
    BY DEF Protected, Unprotected, Guard, Phases, Errors
  <1>10. \A e \in BOOLEAN : CloseFirst(g, e) \in Guard /\ CloseThen(g, e) \in Guard
    <2> TAKE e \in BOOLEAN
    <2>1. Cancelled(g.deadline) \in {"none", "running", "over"}
      BY DEF Guard, Cancelled
    <2>2. CloseFirst(g, e) \in Guard
      BY <2>1 DEF CloseFirst, Guard, Errors
    <2>3. CloseThen(g, e) \in Guard
      BY DEF CloseThen, Guard, Phases
    <2> QED
      BY <2>2, <2>3
  <1>11. Aged(g) \in Guard
    <2> DEFINE aged == [p \in Powers |-> IF g.settling[p] > 0 THEN g.settling[p] - 1 ELSE 0]
    <2>1. aged \in [Powers -> 0..Grace]
      BY DEF Guard
    <2>2. Aged(g) = [g EXCEPT !.settling = aged]
      BY DEF Aged, Guard
    <2> QED
      BY <2>1, <2>2 DEF Guard
  <1> QED
    BY <1>3, <1>4, <1>5, <1>6, <1>7, <1>8, <1>9, <1>10, <1>11
-----------------------------------------------------------------------------
(* Types *)

\* The last steps of a command.
Ends(c) == Refused(c) \/ (Holds(c) /\ Abandoned(c))

\* The steps of a command, those that only end it put together.
LEMMA WorkCases ==
  ASSUME NEW c \in Callers, Works(c)
  PROVE  \/ Ends(c)
         \/ AtPlace(c, "waiting") /\ Acquire(c) /\ ~Refused(c)
         \/ Send(c) \/ PrepareStart(c) \/ RestorePower(c) \/ Deliver(c) \/ Retry(c)
         \/ Delivered(c) \/ Confirmed(c) \/ RecoveryConfirms(c)
         \/ RecoveryBegins(c) \/ RecoveryStop(c) \/ RecoveryFails(c)
  BY DEF Works, Ends, Acquire, LostWhileQuiet, NotAllowed, Superseded, Unprepared,
         Unconfirmed, TimedOut, AtPlace

LEMMA NoCommandType == NoCommand \in Command /\ NoGrace \in [Powers -> 0..Grace]
  <1>1. 1 \in Powers /\ 0 \in 0..Attempts /\ 0 \in 0..Grace
    BY GuardAssumption, TransportAssumption DEF GuardAssumption, TransportAssumption, Powers
  <1> QED
    BY <1>1 DEF NoCommand, Command, Places, Acts, Modes, NoGrace

\* A command's place, and what it has tried, may change.
LEMMA CommandTypes ==
  ASSUME TypeOK, NEW c \in Callers
  PROVE  /\ cmd[c] \in Command
         /\ \A u \in Command : [cmd EXCEPT ![c] = u] \in [Callers -> Command]
         /\ \A at \in Places : [cmd[c] EXCEPT !.at = at] \in Command
         /\ cmd[c].tries < Attempts => [cmd[c] EXCEPT !.tries = @ + 1] \in Command
  <1>1. cmd[c] \in Command /\ cmd \in [Callers -> Command]
    BY DEF TypeOK
  <1>2. ASSUME cmd[c].tries < Attempts PROVE cmd[c].tries + 1 \in 0..Attempts
    BY <1>1, <1>2, TransportAssumption DEF Command, TransportAssumption
  <1> QED
    BY <1>1, <1>2 DEF Command

LEMMA RecalledType ==
  ASSUME NEW before \in [Powers -> 0..Grace], NEW powers
  PROVE  Recalled(powers, before) \in [Powers -> 0..Grace]
  <1>1. Grace \in 0..Grace
    BY GuardAssumption DEF GuardAssumption
  <1> QED
    BY <1>1 DEF Recalled

LEMMA OutcomeType ==
  ASSUME NEW c, NEW g \in Guard, NEW stopped
  PROVE  Outcome(c, g, stopped) \in Guard
  BY GuardTypes DEF Outcome

LEMMA WorkTypes ==
  ASSUME TypeOK, NEW c \in Callers, Works(c)
  PROVE  TypeOK'
  <1> USE DEF session, commands, history
  <1>1. /\ guard \in Guard /\ cmd \in [Callers -> Command] /\ cmd[c] \in Command
        /\ lock \in Seq(Callers) /\ Without(c) \in Seq(Callers)
        /\ [cmd EXCEPT ![c] = NoCommand] \in [Callers -> Command]
        /\ recent \in [Powers -> 0..Grace] /\ NoGrace \in [Powers -> 0..Grace]
        /\ \A stopped : Outcome(c, guard, stopped) \in Guard
    BY WithoutFacts, NoCommandType, CommandTypes, OutcomeType DEF TypeOK
  <1>2. /\ \A at \in Places : [cmd EXCEPT ![c].at = at] \in [Callers -> Command]
        /\ MayTry(c) => [cmd EXCEPT ![c].tries = @ + 1] \in [Callers -> Command]
    BY <1>1, CommandTypes DEF MayTry
  <1>3. \A act : Sends(act) => last' \in {"none", "start", "ended", "stop"} /\ seen' \in BOOLEAN
    BY DEF Sends, TypeOK
  <1>4. CASE Ends(c)
    BY <1>1, <1>4 DEF Ends, Refused, Abandoned, Released, TypeOK
  <1>5. CASE AtPlace(c, "waiting") /\ Acquire(c) /\ ~Refused(c)
    BY <1>2, <1>5 DEF Acquire, TypeOK, Places
  <1>6. CASE Send(c)
    <2>1. latest \in Report /\ latest.mode \in Modes /\ Ceiling \in Powers
      BY <1>6, GuardAssumption DEF Send, Same, Available, TypeOK, Report, Ceiling, Powers, GuardAssumption
    <2>2. cmd[c].power \in Powers
      BY <1>1 DEF Command
    <2>3. guard' \in Guard
      BY <1>1, <1>6, <2>1, <2>2, GuardTypes DEF Send, Supervised
    <2>4. recent' \in [Powers -> 0..Grace]
      BY <1>1, <1>6, RecalledType DEF Send
    <2>5. cmd' \in [Callers -> Command]
      <3>1. 0 \in 0..Attempts /\ 1 \in 0..Attempts
        BY TransportAssumption DEF TransportAssumption
      <3>2. [cmd[c] EXCEPT !.at = "sent",
                           !.mode = IF cmd[c].act = "power" THEN latest.mode ELSE @,
                           !.tries = IF c = "guard" THEN 1 ELSE 0] \in Command
        BY <1>1, <2>1, <3>1 DEF Command, Places
      <3>3. cmd' = [cmd EXCEPT ![c] =
                [cmd[c] EXCEPT !.at = "sent",
                               !.mode = IF cmd[c].act = "power" THEN latest.mode ELSE @,
                               !.tries = IF c = "guard" THEN 1 ELSE 0]]
        BY <1>1, <1>6 DEF Send
      <3> QED
        BY <1>1, <3>2, <3>3
    <2> QED
      BY <1>3, <1>6, <2>3, <2>4, <2>5 DEF Send, TypeOK
  <1>7. CASE PrepareStart(c) \/ RestorePower(c)
    BY <1>2, <1>3, <1>7 DEF PrepareStart, RestorePower, TypeOK, Places
  <1>8. CASE Deliver(c)
    <2>1. cmd[c].power \in Powers /\ cmd[c].mode \in Modes
      BY <1>1 DEF Command
    <2>2. guard' \in Guard
      BY <1>1, <1>8, <2>1, GuardTypes DEF Deliver
    <2>3. recent' \in [Powers -> 0..Grace]
      BY <1>1, <1>8, RecalledType DEF Deliver
    <2> QED
      BY <1>2, <1>3, <1>8, <2>2, <2>3 DEF Deliver, TypeOK, Places
  <1>9. CASE Retry(c) \/ RecoveryStop(c)
    BY <1>2, <1>3, <1>9 DEF Retry, RecoveryStop, TypeOK
  <1>10. CASE Delivered(c) \/ Confirmed(c) \/ RecoveryConfirms(c)
    <2>1. Disarm(guard) \in Guard
      BY <1>1, GuardTypes
    <2>2. Outcome(c, Disarm(guard), TRUE) \in Guard /\ [guard EXCEPT !.error = "confirmed"] \in Guard
      BY <1>1, <2>1, OutcomeType DEF Guard, Errors
    <2>3. guard' \in Guard
      BY <1>1, <1>10, <2>2 DEF Delivered, Confirmed, RecoveryConfirms, Returned
    <2> QED
      BY <1>1, <1>10, <2>3 DEF Delivered, Confirmed, RecoveryConfirms, Returned, Released, TypeOK
  <1>11. CASE RecoveryBegins(c)
    <2>1. guard' \in Guard
      <3>1. Disarm(guard) \in Guard
        BY <1>1, GuardTypes
      <3> QED
        BY <3>1, <1>11 DEF RecoveryBegins, Guard, Errors
    <2> QED
      BY <1>2, <1>11, <2>1 DEF RecoveryBegins, TypeOK, Places
  <1>12. CASE RecoveryFails(c)
    <2>1. guard' \in Guard
      BY <1>1, <1>12 DEF RecoveryFails, Guard, Errors
    <2> QED
      BY <1>1, <1>12, <2>1 DEF RecoveryFails, Released, TypeOK
  <1> QED
    BY <1>4, <1>5, <1>6, <1>7, <1>8, <1>9, <1>10, <1>11, <1>12, WorkCases

LEMMA SessionTypes ==
  ASSUME TypeOK, Connects \/ RegistersAgain \/ SessionEnds \/ GuardCloses \/ PeerLeaves
  PROVE  TypeOK'
  <1> USE DEF session, commands, history
  <1>1. /\ guard \in Guard /\ cmd \in [Callers -> Command] /\ expected \in BOOLEAN
        /\ lock \in Seq(Callers) /\ "guard" \in Callers /\ Without("guard") \in Seq(Callers)
        /\ [cmd EXCEPT !["guard"] = NoCommand] \in [Callers -> Command]
    BY WithoutFacts, NoCommandType DEF TypeOK, Callers
  <1>2. ASSUME NEW cs \in [Callers -> Command], Invalidates(cs)
        PROVE  /\ latest' \in Report \cup {None} /\ cmd' \in [Callers -> Command]
               /\ pending' \in {"none", "open", "matched", "lost"}
    <2>1. \A c \in Callers : [cs[c] EXCEPT !.same = FALSE] \in Command
      BY DEF Command
    <2> QED
      BY <1>2, <2>1 DEF Invalidates, TypeOK
  <1>3. ASSUME NEW g \in Guard, Closes(g), UNCHANGED <<expected, recent>>
        PROVE  TypeOK'
    <2>1. guard' \in Guard
      <3>1. CloseThen(g, expected) \in Guard
        BY <1>1, GuardTypes
      <3> QED
        BY <1>3, <3>1 DEF Closes, Guard
    <2>2. CASE Left /\ Invalidates([cmd EXCEPT !["guard"] = NoCommand])
      BY <1>1, <1>2, <1>3, <2>1, <2>2 DEF Closes, Left, TypeOK
    <2>3. CASE ~(Left /\ Invalidates([cmd EXCEPT !["guard"] = NoCommand]))
      BY <1>1, <1>3, <2>1, <2>3 DEF Closes, TypeOK
    <2> QED
      BY <2>2, <2>3
  <1>4. CASE Connects \/ RegistersAgain \/ PeerLeaves
    BY <1>1, <1>2, <1>4 DEF Connects, RegistersAgain, PeerLeaves, Left, TypeOK
  <1>5. CASE SessionEnds
    <2>1. CloseFirst(guard, expected) \in Guard
      BY <1>1, GuardTypes
    <2> QED
      BY <1>3, <1>5, <2>1 DEF SessionEnds, TypeOK
  <1>6. CASE GuardCloses
    BY <1>1, <1>3, <1>6 DEF GuardCloses
  <1> QED
    BY <1>4, <1>5, <1>6

\* What calls, reports, the router and time do.
Outside == \/ Calls \/ GuardCalls \/ (\E r \in Reported : Reports(r))
           \/ ReturnBegins \/ ReturnEnds \/ ReturnFails \/ DeadlineFires \/ Tick

LEMMA OutsideTypes ==
  ASSUME TypeOK, Outside
  PROVE  TypeOK'
  <1> USE DEF session, commands, history
  <1>1. guard \in Guard /\ cmd \in [Callers -> Command] /\ lock \in Seq(Callers)
    BY DEF TypeOK
  <1>2. ASSUME NEW c \in Callers, NEW act \in Acts, NEW p \in Powers, NEW m \in Modes,
               Called(c, act, p, m)
        PROVE  lock' \in Seq(Callers) /\ cmd' \in [Callers -> Command]
    <2>1. [NoCommand EXCEPT !.at = "waiting", !.act = act, !.power = p, !.mode = m,
                            !.same = TRUE] \in Command
      BY NoCommandType DEF Command, Places
    <2> QED
      BY <1>1, <1>2, <2>1 DEF Called
  <1>3. CASE Calls
    <2>1. PICK c \in Users, u \in Controls : Called(c, u.act, u.power, u.mode)
      BY <1>3 DEF Calls
    <2>2. c \in Callers /\ u.act \in Acts /\ u.power \in Powers /\ u.mode \in Modes
      BY TransportAssumption DEF TransportAssumption, Callers
    <2>3. lock' \in Seq(Callers) /\ cmd' \in [Callers -> Command]
      BY <1>2, <2>1, <2>2
    <2> QED
      BY <1>3, <2>1, <2>3 DEF Calls, Called, TypeOK
  <1>4. CASE GuardCalls
    <2>1. "guard" \in Callers /\ "stop" \in Acts /\ 1 \in Powers /\ Fast \in Modes
      BY GuardAssumption DEF GuardAssumption, Callers, Acts, Powers, Modes
    <2>2. lock' \in Seq(Callers) /\ cmd' \in [Callers -> Command]
      BY <1>2, <1>4, <2>1 DEF GuardCalls
    <2>3. guard' \in Guard
      BY <1>1, <1>4 DEF GuardCalls, Guard
    <2> QED
      BY <1>4, <2>2, <2>3 DEF GuardCalls, Called, TypeOK
  <1>5. CASE \E r \in Reported : Reports(r)
    <2>1. PICK r \in Report : Reports(r)
      BY <1>5, TransportAssumption DEF TransportAssumption
    <2>2. guard' \in Guard
      BY <1>1, <2>1, GuardTypes DEF Reports
    <2> QED
      BY <2>1, <2>2 DEF Reports, TypeOK
  <1>6. CASE ReturnBegins \/ ReturnEnds \/ ReturnFails
    <2>1. [guard EXCEPT !.error = "unverified"] \in Guard
      BY <1>1 DEF Guard, Errors
    <2> QED
      BY <1>1, <1>6, <2>1 DEF ReturnBegins, ReturnEnds, ReturnFails, TypeOK
  <1>7. CASE DeadlineFires
    BY <1>1, <1>7, GuardTypes DEF DeadlineFires, TypeOK
  <1>8. CASE Tick
    <2>1. recent \in [Powers -> 0..Grace] /\ Grace \in Nat
      BY GuardAssumption DEF TypeOK, GuardAssumption
    <2>2. recent' \in [Powers -> 0..Grace]
      BY <1>8, <2>1 DEF Tick
    <2>3. guard' \in Guard
      BY <1>1, <1>8, GuardTypes DEF Tick
    <2> QED
      BY <1>8, <2>2, <2>3 DEF Tick, TypeOK
  <1> QED
    BY <1>3, <1>4, <1>5, <1>6, <1>7, <1>8 DEF Outside

LEMMA TypeStep == TypeOK /\ [Next]_vars => TypeOK'
  <1> SUFFICES ASSUME TypeOK, [Next]_vars PROVE TypeOK'
    OBVIOUS
  <1>1. CASE \E c \in Callers : Works(c)
    BY <1>1, WorkTypes
  <1>2. CASE Connects \/ RegistersAgain \/ SessionEnds \/ GuardCloses \/ PeerLeaves
    BY <1>2, SessionTypes
  <1>3. CASE Outside
    BY <1>3, OutsideTypes
  <1>4. CASE UNCHANGED vars
    BY <1>4 DEF TypeOK, vars, session, commands, history
  <1> QED
    BY <1>1, <1>2, <1>3, <1>4 DEF Next, Outside
-----------------------------------------------------------------------------
(* The lock, the task of the guard, and the connection *)

\* When c leaves, everybody else is where he was.
LEMMA ReleasedFacts ==
  ASSUME TypeOK, NEW c \in Callers, Released(c)
  PROVE  /\ cmd'[c] = NoCommand
         /\ \A d \in Callers : d # c => cmd'[d] = cmd[d] /\ (Holds(d) => Holds(d)')
  BY WithoutFacts DEF Released, Holds, TypeOK

\* A step of a command is its own, and between its first and its last it has the lock.
LEMMA WorkFrame ==
  ASSUME TypeOK, NEW c \in Callers, Works(c)
  PROVE  /\ \A d \in Callers : d # c => cmd'[d] = cmd[d]
         /\ (cmd'[c] = NoCommand /\ Released(c)) \/ (Holds(c) /\ lock' = lock)
         /\ serve' = serve /\ latest' = latest /\ expected' = expected
         /\ writer' = writer \/ (writer # "none" /\ writer' = "closing")
  <1> USE DEF session, commands, history
  <1>1. cmd \in [Callers -> Command]
    BY DEF TypeOK
  <1>2. CASE Ends(c)
    BY <1>1, <1>2, ReleasedFacts DEF Ends, Refused, Abandoned
  <1>3. CASE AtPlace(c, "waiting") /\ Acquire(c) /\ ~Refused(c)
    BY <1>1, <1>3 DEF Acquire, AtPlace
  <1>4. CASE Send(c) \/ PrepareStart(c) \/ RestorePower(c) \/ Deliver(c) \/ Retry(c)
    BY <1>1, <1>4 DEF Send, PrepareStart, RestorePower, Deliver, Retry, Prepared, AtPlace
  <1>5. CASE Delivered(c) \/ Confirmed(c) \/ RecoveryConfirms(c)
    BY <1>1, <1>5, ReleasedFacts DEF Delivered, Confirmed, RecoveryConfirms, Returned
  <1>6. CASE RecoveryBegins(c) \/ RecoveryStop(c)
    BY <1>1, <1>6 DEF RecoveryBegins, RecoveryStop, Prepared, AtPlace
  <1>7. CASE RecoveryFails(c)
    BY <1>1, <1>7, ReleasedFacts DEF RecoveryFails
  <1> QED
    BY <1>2, <1>3, <1>4, <1>5, <1>6, <1>7, WorkCases

\* What the connection does to a command: it forgets the session, and the guard's
\* may be cancelled.
LEMMA SessionFrame ==
  ASSUME TypeOK, Connects \/ RegistersAgain \/ SessionEnds \/ GuardCloses \/ PeerLeaves
  PROVE  /\ \A c \in Callers : cmd'[c] \in {cmd[c], [cmd[c] EXCEPT !.same = FALSE]}
                                  \/ (c = "guard" /\ cmd'[c].at = "idle" /\ cmd'[c].tries = 0)
         /\ lock' = lock \/ (lock' = Without("guard") /\ cmd'["guard"].at = "idle")
         /\ expected' = expected /\ recent' = recent
         /\ pending' = pending \/ pending' \in {"none", "lost"}
         /\ \/ last' = last /\ seen' = seen
            \/ last' = "none" /\ \A c \in Callers : ~cmd'[c].same
  <1> USE DEF session, commands, history
  <1>1. cmd \in [Callers -> Command] /\ "guard" \in Callers
    BY DEF TypeOK, Callers
  <1>2. ASSUME NEW cs \in [Callers -> Command], Invalidates(cs)
        PROVE  /\ \A c \in Callers : /\ cmd'[c] = [cs[c] EXCEPT !.same = FALSE]
                                     /\ ~cmd'[c].same
               /\ pending' = pending \/ pending' \in {"none", "lost"}
    <2>1. \A c \in Callers : [cs[c] EXCEPT !.same = FALSE].same = FALSE
      BY DEF Command
    <2> QED
      BY <1>2, <2>1 DEF Invalidates
  <1>3. ASSUME NEW g, Closes(g)
        PROVE  /\ \A c \in Callers : cmd'[c] \in {cmd[c], [cmd[c] EXCEPT !.same = FALSE]}
                                  \/ (c = "guard" /\ cmd'[c].at = "idle" /\ cmd'[c].tries = 0)
               /\ lock' = Without("guard") /\ cmd'["guard"].at = "idle"
               /\ pending' = pending \/ pending' \in {"none", "lost"}
               /\ \/ last' = last /\ seen' = seen
                  \/ last' = "none" /\ \A c \in Callers : ~cmd'[c].same
    <2> DEFINE cs == [cmd EXCEPT !["guard"] = NoCommand]
    <2>1. /\ cs \in [Callers -> Command] /\ cs["guard"] = NoCommand
          /\ \A c \in Callers : c # "guard" => cs[c] = cmd[c]
      BY <1>1, NoCommandType
    <2>2. \/ cmd' = cs /\ last' = last /\ seen' = seen /\ pending' \in {pending, "none"}
          \/ Invalidates(cs) /\ last' = "none"
      BY <1>3 DEF Closes, Left
    <2> HIDE DEF cs
    <2>3. /\ NoCommand.at = "idle" /\ NoCommand.tries = 0
          /\ [NoCommand EXCEPT !.same = FALSE].at = "idle"
          /\ [NoCommand EXCEPT !.same = FALSE].tries = 0
      BY DEF NoCommand
    <2>4. CASE cmd' = cs /\ last' = last /\ seen' = seen /\ pending' \in {pending, "none"}
      BY <1>1, <1>3, <2>1, <2>3, <2>4 DEF Closes
    <2>5. CASE Invalidates(cs) /\ last' = "none"
      <3>1. /\ \A c \in Callers : cmd'[c] = [cs[c] EXCEPT !.same = FALSE] /\ ~cmd'[c].same
            /\ pending' = pending \/ pending' \in {"none", "lost"}
        BY <1>2, <2>1, <2>5
      <3> QED
        BY <1>1, <1>3, <2>1, <2>3, <2>5, <3>1 DEF Closes
    <2> QED
      BY <2>2, <2>4, <2>5
  <1>4. CASE Connects \/ RegistersAgain \/ PeerLeaves
    BY <1>1, <1>2, <1>4 DEF Connects, RegistersAgain, PeerLeaves, Left
  <1>5. CASE SessionEnds
    BY <1>3, <1>5 DEF SessionEnds
  <1>6. CASE GuardCloses
    BY <1>3, <1>6 DEF GuardCloses
  <1> QED
    BY <1>4, <1>5, <1>6

LEMMA HolderStep == TypeOK /\ HolderInv /\ [Next]_vars => HolderInv'
  <1> SUFFICES ASSUME TypeOK, HolderInv, [Next]_vars PROVE HolderInv'
    OBVIOUS
  <1> USE DEF session, commands, history
  <1>1. ASSUME NEW c \in Callers, Works(c) PROVE HolderInv'
    <2>1. NoCommand.at = "idle"
      BY DEF NoCommand
    <2>2. CASE cmd'[c] = NoCommand /\ Released(c)
      BY <1>1, <2>1, <2>2, WorkFrame, ReleasedFacts DEF HolderInv
    <2>3. CASE Holds(c) /\ lock' = lock
      BY <1>1, <2>3, WorkFrame DEF HolderInv, Holds
    <2> QED
      BY <1>1, <2>2, <2>3, WorkFrame
  <1>2. CASE Connects \/ RegistersAgain \/ SessionEnds \/ GuardCloses \/ PeerLeaves
    <2>1. \A c \in Callers : cmd[c] \in Command /\ [cmd[c] EXCEPT !.same = FALSE].at = cmd[c].at
      BY DEF TypeOK, Command
    <2>2. ASSUME NEW c \in Callers, cmd'[c].at \notin {"idle", "waiting"} PROVE Holds(c)'
      <3>1. cmd[c].at = cmd'[c].at
        BY <1>2, <2>1, <2>2, SessionFrame
      <3>2. Holds(c)
        BY <2>2, <3>1 DEF HolderInv
      <3>3. CASE lock' = lock
        BY <3>2, <3>3 DEF Holds
      <3>4. CASE lock' = Without("guard") /\ cmd'["guard"].at = "idle"
        <4>1. c # "guard" /\ "guard" \in Callers
          BY <2>2, <3>4 DEF Callers
        <4> QED
          BY <3>2, <3>4, <4>1, WithoutFacts DEF Holds, TypeOK
      <3> QED
        BY <1>2, <3>3, <3>4, SessionFrame
    <2> QED
      BY <2>2 DEF HolderInv
  <1>3. ASSUME NEW c \in Callers, NEW act, NEW p, NEW m, Called(c, act, p, m)
        PROVE  HolderInv'
    <2>1. /\ cmd'[c].at = "waiting" /\ \A d \in Callers : d # c => cmd'[d] = cmd[d]
          /\ lock \in Seq(Callers) /\ lock' = Append(lock, c)
      BY <1>3 DEF Called, TypeOK, NoCommand
    <2>2. lock # <<>> => lock' # <<>> /\ Head(lock') = Head(lock)
      BY <2>1
    <2> QED
      BY <2>1, <2>2 DEF HolderInv, Holds
  <1>4. CASE Outside
    BY <1>3, <1>4 DEF Outside, Calls, GuardCalls, Reports, ReturnBegins, ReturnEnds,
                      ReturnFails, DeadlineFires, Tick, HolderInv, Holds, Callers
  <1>5. CASE UNCHANGED vars
    BY <1>5 DEF HolderInv, Holds, vars
  <1> QED
    BY <1>1, <1>2, <1>4, <1>5 DEF Next, Outside

\* Commands leave the task of _protect alone, and only a new alarm creates one.
LEMMA GuardTask ==
  ASSUME NEW g \in Guard
  PROVE  /\ \A p, m : Begin(g, p, m).task = g.task
         /\ \A h, p : UpdateLimit(h, p).task = h.task /\ UpdateLimit(h, p).error = h.error
         /\ \A p, q, m : Adopt(g, p, q, m).task = g.task
         /\ Disarm(g).task = g.task /\ Disarm(g).error = g.error
         /\ Protected(g).task = "over" /\ Unprotected(g).task = "over"
         /\ \A e : /\ CloseFirst(g, e).task = g.task
                   /\ g.error # "none" => CloseFirst(g, e).error # "none"
                   /\ CloseThen(g, e).task = g.task /\ CloseThen(g, e).error = g.error
         /\ Aged(g).task = g.task /\ Aged(g).error = g.error
         /\ Latch(g).task = "created" /\ Latch(g).error = "pending"
         /\ \A r : \/ AfterReport(g, r) = Latch(g) /\ g.error = "none"
                   \/ AfterReport(g, r).task = g.task /\ AfterReport(g, r).error = g.error
         /\ \/ DeadlineOver(g) = Latch(g) /\ g.error = "none"
            \/ DeadlineOver(g).task = g.task /\ DeadlineOver(g).error = g.error
  <1>1. \A p : Arm(g, p).task = g.task
    BY DEF Arm, Guard
  <1>2. \A p, m : Begin(g, p, m).task = g.task
    BY DEF Begin, Arm, Guard
  <1>3. \A h, p : UpdateLimit(h, p).task = h.task /\ UpdateLimit(h, p).error = h.error
    BY DEF UpdateLimit
  <1>4. \A p, q, m : Adopt(g, p, q, m).task = g.task
    <2> TAKE p, q, m
    <2> DEFINE h == [Arm(g, q) EXCEPT !.mode = m, !.phase = "charging"]
    <2>1. h.task = g.task
      BY DEF Arm, Guard
    <2>2. Adopt(g, p, q, m) = UpdateLimit(h, p)
      BY DEF Adopt
    <2> QED
      BY <1>3, <2>1, <2>2
  <1>5. /\ Disarm(g).task = g.task /\ Disarm(g).error = g.error
        /\ Protected(g).task = "over" /\ Unprotected(g).task = "over"
        /\ Latch(g).task = "created" /\ Latch(g).error = "pending"
    BY DEF Disarm, Protected, Unprotected, Latch, Guard
  <1>6. \A e : /\ CloseFirst(g, e).task = g.task
               /\ g.error # "none" => CloseFirst(g, e).error # "none"
               /\ CloseThen(g, e).task = g.task /\ CloseThen(g, e).error = g.error
    BY DEF CloseFirst, CloseThen, Guard
  <1>7. Aged(g).task = g.task /\ Aged(g).error = g.error
    BY DEF Aged, Guard
  <1>8. \A r : \/ AfterReport(g, r) = Latch(g) /\ g.error = "none"
               \/ AfterReport(g, r).task = g.task /\ AfterReport(g, r).error = g.error
    <2> TAKE r
    <2>1. \/ AfterReport(g, r) = Latch(g) /\ g.error = "none"
          \/ AfterReport(g, r) \in {g, Disarm(g), [g EXCEPT !.phase = "waiting"],
                                   [g EXCEPT !.phase = "charging", !.deadline = Cancelled(@)]}
      BY DEF AfterReport
    <2>2. \A h \in {g, Disarm(g), [g EXCEPT !.phase = "waiting"],
                    [g EXCEPT !.phase = "charging", !.deadline = Cancelled(@)]} :
            h.task = g.task /\ h.error = g.error
      BY <1>5 DEF Guard
    <2> QED
      BY <2>1, <2>2
  <1>9. \/ DeadlineOver(g) = Latch(g) /\ g.error = "none"
        \/ DeadlineOver(g).task = g.task /\ DeadlineOver(g).error = g.error
    BY DEF DeadlineOver, Guard
  <1> QED
    BY <1>2, <1>3, <1>4, <1>5, <1>6, <1>7, <1>8, <1>9

\* What a command makes of the alarm: its own task is over with it, and nobody
\* else's step clears an alarm whose Stop is due.
LEMMA WorkGuard ==
  ASSUME TypeOK, HolderInv, ProtectInv, AlarmInv, NEW c \in Callers, Works(c)
  PROVE  /\ TaskPending(guard) => guard'.error # "none"
         /\ c # "guard" => guard'.task = guard.task
         /\ c = "guard" => IF cmd'[c] = NoCommand THEN guard'.task = "over"
                           ELSE guard' = guard
  <1> USE DEF session, commands, history
  <1>1. guard \in Guard /\ cmd \in [Callers -> Command] /\ NoCommand.at = "idle"
    BY DEF TypeOK, NoCommand
  <1>2. \A stopped : /\ c # "guard" => Outcome(c, guard, stopped) = guard
                     /\ c = "guard" => /\ Outcome(c, guard, stopped).task = "over"
                                       /\ Outcome(c, guard, stopped).error # "none"
    BY <1>1, GuardTask DEF Outcome, Protected, Unprotected, Guard
  <1>3. CASE Ends(c)
    <2>1. guard' = Outcome(c, guard, FALSE) /\ cmd'[c] = NoCommand
      BY <1>1, <1>3 DEF Ends, Refused, Abandoned, Released
    <2> QED
      BY <1>2, <2>1 DEF AlarmInv
  <1>4. CASE AtPlace(c, "waiting") /\ Acquire(c) /\ ~Refused(c)
    <2>1. guard' = guard /\ cmd'[c].at = "quiet"
      BY <1>1, <1>4 DEF Acquire, Command
    <2> QED
      BY <1>1, <2>1 DEF AlarmInv
  <1>5. CASE Send(c)
    <2>1. cmd'[c].at = "sent" /\ guard' = Supervised(c) /\ BehindProtection(c)
      BY <1>1, <1>5 DEF Send, Allowed, Command
    <2>2. c = "guard" => cmd[c].act = "stop"
      BY <1>1, <1>5 DEF Send, AtPlace, ProtectInv
    <2>3. CASE cmd[c].act = "power"
      <3>1. ~TaskPending(guard) /\ c # "guard"
        BY <2>1, <2>2, <2>3 DEF BehindProtection
      <3> QED
        BY <1>1, <2>1, <2>3, <3>1, GuardTask DEF Supervised
    <2>4. CASE cmd[c].act # "power"
      <3>1. guard' = guard
        BY <2>1, <2>4 DEF Supervised, Adopts
      <3> QED
        BY <1>1, <2>1, <3>1 DEF AlarmInv
    <2> QED
      BY <2>3, <2>4
  <1>6. CASE PrepareStart(c) \/ RestorePower(c) \/ Retry(c) \/ RecoveryStop(c)
    <2>1. guard' = guard /\ cmd'[c].at # "idle"
      BY <1>1, <1>6 DEF PrepareStart, RestorePower, Retry, RecoveryStop, Prepared, AtPlace, Command
    <2> QED
      BY <1>1, <2>1 DEF AlarmInv
  <1>7. CASE Deliver(c)
    <2>1. c # "guard"
      BY <1>7 DEF Deliver, Prepared, AtPlace, ProtectInv
    <2> QED
      BY <1>1, <1>7, <2>1, GuardTask DEF Deliver
  <1>8. CASE Delivered(c)
    <2>1. c # "guard" /\ guard' = guard
      BY <1>8 DEF Delivered, AtPlace, ProtectInv, Returned
    <2> QED
      BY <2>1 DEF AlarmInv
  <1>9. CASE Confirmed(c)
    <2>1. /\ cmd'[c] = NoCommand
          /\ c = "guard" => cmd[c].act = "stop"
          /\ guard' = IF cmd[c].act = "stop" THEN Outcome(c, Disarm(guard), TRUE) ELSE guard
      BY <1>1, <1>9 DEF Confirmed, Returned, Released, AtPlace, ProtectInv
    <2>2. c # "guard" => guard' \in {guard, Disarm(guard)}
      BY <2>1 DEF Outcome
    <2>3. ASSUME c = "guard" PROVE guard' = Protected(Disarm(guard))
      <3>1. guard' = Outcome(c, Disarm(guard), TRUE)
        BY <2>1, <2>3
      <3> QED
        BY <2>3, <3>1 DEF Outcome
    <2>4. Disarm(guard) \in Guard
      BY <1>1, GuardTypes
    <2>5. Protected(Disarm(guard)).task = "over" /\ Protected(Disarm(guard)).error = "confirmed"
      BY <2>4 DEF Protected, Guard
    <2> QED
      <3>1. CASE c = "guard"
        BY <2>1, <2>3, <2>5, <3>1
      <3>2. CASE c # "guard"
        <4>1. guard'.task = guard.task /\ guard'.error = guard.error
          BY <1>1, <2>2, <3>2, GuardTask
        <4> QED
          BY <3>2, <4>1 DEF AlarmInv
      <3> QED
        BY <3>1, <3>2
  <1>10. CASE RecoveryBegins(c) \/ RecoveryConfirms(c) \/ RecoveryFails(c)
    <2>1. c # "guard"
      BY <1>10 DEF RecoveryBegins, RecoveryConfirms, RecoveryFails, Prepared, AtPlace, ProtectInv
    <2>2. Disarm(guard) \in Guard
      BY <1>1, GuardTypes
    <2>3. guard'.task = guard.task /\ guard'.error # "none"
      BY <1>1, <1>10, <2>2, GuardTask DEF RecoveryBegins, RecoveryConfirms, RecoveryFails, Returned, Guard
    <2> QED
      BY <2>1, <2>3
  <1> QED
    BY <1>3, <1>4, <1>5, <1>6, <1>7, <1>8, <1>9, <1>10, WorkCases

\* An alarm whose Stop is due stays in this step.
KeepsAlarm == TaskPending(guard) => guard'.error # "none"

LEMMA GuardStep ==
  ASSUME TypeOK, HolderInv, ProtectInv, AlarmInv, [Next]_vars
  PROVE  ProtectInv' /\ AlarmInv' /\ KeepsAlarm
  <1> USE DEF session, commands, history
  <1>1. /\ guard \in Guard /\ cmd \in [Callers -> Command] /\ "guard" \in Callers
        /\ NoCommand.at = "idle"
    BY DEF TypeOK, Callers, NoCommand
  <1>2. ASSUME NEW c \in Callers, Works(c) PROVE ProtectInv' /\ AlarmInv' /\ KeepsAlarm
    <2>1. /\ serve' = serve
          /\ TaskPending(guard) => guard'.error # "none"
          /\ c # "guard" => guard'.task = guard.task /\ cmd'["guard"] = cmd["guard"]
      BY <1>1, <1>2, WorkGuard, WorkFrame
    <2>2. CASE c # "guard"
      BY <2>1, <2>2 DEF KeepsAlarm, ProtectInv, AlarmInv, TaskPending
    <2>3. CASE c = "guard" /\ cmd'[c] = NoCommand
      <3>1. guard'.task = "over"
        BY <1>2, <2>3, WorkGuard
      <3> QED
        BY <1>1, <2>1, <2>3, <3>1 DEF KeepsAlarm, ProtectInv, AlarmInv, TaskPending
    <2>4. CASE c = "guard" /\ cmd'[c] # NoCommand
      <3>1. guard' = guard
        BY <1>2, <2>4, WorkGuard
      <3>2. cmd[c].at # "idle"
        BY <1>1, <1>2 DEF Works, Acquire, LostWhileQuiet, NotAllowed, Send, PrepareStart,
           RestorePower, Superseded, Unprepared, Deliver, Delivered, Retry, Confirmed,
           Unconfirmed, TimedOut, RecoveryBegins, RecoveryStop, RecoveryConfirms,
           RecoveryFails, Prepared, AtPlace
      <3>3. /\ cmd'[c].at \in {"quiet", "sent"} /\ cmd'[c].act = cmd[c].act
        <4>1. cmd[c].act = "stop" /\ cmd[c].at \in {"waiting", "quiet", "sent"}
          BY <2>4, <3>2 DEF ProtectInv
        <4>2. ~Ends(c) /\ ~Delivered(c) /\ ~Confirmed(c) /\ ~RecoveryConfirms(c) /\ ~RecoveryFails(c)
          BY <1>1, <2>4 DEF Ends, Refused, Abandoned, Delivered, Confirmed, RecoveryConfirms,
             RecoveryFails, Returned, Released
        <4> QED
          <5>1. ~PrepareStart(c) /\ ~RestorePower(c) /\ ~Deliver(c) /\ ~RecoveryBegins(c) /\ ~RecoveryStop(c)
            BY <4>1 DEF PrepareStart, RestorePower, Deliver, RecoveryBegins, RecoveryStop,
               Prepared, AtPlace
          <5>2. (Acquire(c) /\ ~Refused(c)) \/ Send(c) \/ Retry(c)
            BY <1>2, <4>2, <5>1, WorkCases
          <5>3. CASE Acquire(c) /\ ~Refused(c)
            BY <1>1, <5>3 DEF Acquire, Command
          <5>4. CASE Send(c)
            BY <1>1, <4>1, <5>4 DEF Send, Command
          <5>5. CASE Retry(c)
            BY <1>1, <5>5 DEF Retry, AtPlace, Command
          <5> QED
            BY <5>2, <5>3, <5>4, <5>5
      <3> QED
        BY <2>4, <3>1, <3>2, <3>3, <2>1 DEF KeepsAlarm, ProtectInv, AlarmInv
    <2> QED
      BY <2>2, <2>3, <2>4
  <1>3. ASSUME NEW g \in Guard, Closes(g), cmd'["guard"].at = "idle",
               guard.error # "none" => g.error # "none"
        PROVE  ProtectInv' /\ AlarmInv' /\ KeepsAlarm
    <2>1. guard'.task \in {"none", "over"} /\ (guard.error # "none" => guard'.error # "none")
      <3>1. CloseThen(g, expected) \in Guard /\ CloseThen(g, expected).error = g.error
        BY GuardTypes, GuardTask DEF TypeOK
      <3> QED
        BY <1>3, <3>1 DEF Closes, Guard
    <2> QED
      BY <1>3, <2>1 DEF KeepsAlarm, ProtectInv, AlarmInv, TaskPending
  <1>4. CASE Connects \/ RegistersAgain \/ PeerLeaves
    <2>1. /\ cmd'["guard"] \in {cmd["guard"], [cmd["guard"] EXCEPT !.same = FALSE]}
          /\ guard' = guard /\ serve' # "task"
      BY <1>1, <1>4 DEF Connects, RegistersAgain, PeerLeaves, Left, Invalidates
    <2>2. cmd'["guard"].at = cmd["guard"].at /\ cmd'["guard"].act = cmd["guard"].act
      BY <1>1, <2>1 DEF Command
    <2> QED
      BY <2>1, <2>2 DEF KeepsAlarm, ProtectInv, AlarmInv
  <1>5. CASE SessionEnds
    <2>1. CASE Closes(CloseFirst(guard, expected))
      <3>1. Holds("guard") \/ ~Holds("guard")
        OBVIOUS
      <3>2. cmd'["guard"].at = "idle"
        BY <1>1, <2>1 DEF Closes, Invalidates, NoCommand
      <3>3. /\ CloseFirst(guard, expected) \in Guard
            /\ guard.error # "none" => CloseFirst(guard, expected).error # "none"
        BY <1>1, GuardTypes, GuardTask DEF TypeOK
      <3> QED
        BY <1>3, <2>1, <3>2, <3>3
    <2>2. CASE ~Closes(CloseFirst(guard, expected))
      <3>1. /\ serve' = "guard" /\ cmd' = cmd /\ guard' = CloseFirst(guard, expected)
        BY <1>5, <2>2 DEF SessionEnds
      <3>2. guard'.task = guard.task /\ (guard.error # "none" => guard'.error # "none")
        BY <1>1, <3>1, GuardTask
      <3> QED
        BY <3>1, <3>2 DEF KeepsAlarm, ProtectInv, AlarmInv, TaskPending
    <2> QED
      BY <2>1, <2>2
  <1>6. CASE GuardCloses
    <2>1. cmd'["guard"].at = "idle"
      BY <1>1, <1>6 DEF GuardCloses, Closes, Invalidates, NoCommand
    <2> QED
      BY <1>1, <1>3, <1>6, <2>1 DEF GuardCloses
  <1>7. CASE Calls
    <2>1. cmd'["guard"] = cmd["guard"]
      BY <1>1, <1>7, TransportAssumption DEF Calls, Called, TransportAssumption
    <2> QED
      BY <1>7, <2>1 DEF Calls, Called, KeepsAlarm, ProtectInv, AlarmInv
  <1>8. CASE GuardCalls
    <2>1. /\ cmd'["guard"].at = "waiting" /\ cmd'["guard"].act = "stop"
          /\ guard'.task = "running" /\ guard'.error = guard.error /\ serve' = serve
      BY <1>1, <1>8 DEF GuardCalls, Called, NoCommand, Guard
    <2> QED
      BY <1>8, <2>1 DEF GuardCalls, KeepsAlarm, ProtectInv, AlarmInv, TaskPending
  <1>9. ASSUME cmd' = cmd, serve' = serve, serve # "task",
               \/ guard' = Latch(guard) /\ guard.error = "none"
               \/ guard'.task = guard.task /\ guard'.error = guard.error
        PROVE  ProtectInv' /\ AlarmInv' /\ KeepsAlarm
    <2>1. CASE guard' = Latch(guard) /\ guard.error = "none"
      <3>1. guard'.task = "created" /\ guard'.error = "pending" /\ guard.task # "running"
        BY <1>1, <2>1, GuardTask DEF AlarmInv, TaskPending
      <3> QED
        BY <1>9, <3>1 DEF KeepsAlarm, ProtectInv, AlarmInv, TaskPending
    <2>2. CASE guard'.task = guard.task /\ guard'.error = guard.error
      BY <1>9, <2>2 DEF KeepsAlarm, ProtectInv, AlarmInv, TaskPending
    <2> QED
      BY <1>9, <2>1, <2>2
  <1>10. CASE \E r \in Reported : Reports(r)
    <2>1. PICK r \in Reported : Reports(r)
      BY <1>10
    <2>2. cmd' = cmd /\ serve' = serve /\ serve # "task" /\ guard' = AfterReport(guard, r)
      BY <2>1 DEF Reports
    <2> QED
      BY <1>1, <1>9, <2>2, GuardTask
  <1>11. CASE DeadlineFires
    <2>1. cmd' = cmd /\ serve' = serve /\ serve # "task" /\ guard' = DeadlineOver(guard)
      BY <1>11 DEF DeadlineFires
    <2> QED
      BY <1>1, <1>9, <2>1, GuardTask
  <1>12. CASE Tick
    <2>1. guard'.task = guard.task /\ guard'.error = guard.error
      BY <1>1, <1>12, GuardTask DEF Tick
    <2> QED
      BY <1>12, <2>1 DEF Tick, KeepsAlarm, ProtectInv, AlarmInv, TaskPending
  <1>13. CASE ReturnBegins \/ ReturnEnds \/ ReturnFails
    <2>1. guard'.task = guard.task /\ (guard.error # "none" => guard'.error # "none")
      BY <1>1, <1>13 DEF ReturnBegins, ReturnEnds, ReturnFails, Guard
    <2> QED
      BY <1>13, <2>1 DEF ReturnBegins, ReturnEnds, ReturnFails, KeepsAlarm, ProtectInv, AlarmInv, TaskPending
  <1>14. CASE UNCHANGED vars
    BY <1>14 DEF vars, KeepsAlarm, ProtectInv, AlarmInv, TaskPending
  <1> QED
    BY <1>2, <1>4, <1>5, <1>6, <1>7, <1>8, <1>10, <1>11, <1>12, <1>13, <1>14 DEF Next

LEMMA ServeStep == TypeOK /\ ServeInv /\ [Next]_vars => ServeInv'
  <1> SUFFICES ASSUME TypeOK, ServeInv, [Next]_vars PROVE ServeInv'
    OBVIOUS
  <1> USE DEF session, commands, history
  <1>1. ASSUME NEW c \in Callers, Works(c) PROVE ServeInv'
    BY <1>1, WorkFrame DEF ServeInv
  <1>2. CASE Connects \/ RegistersAgain \/ PeerLeaves
    BY <1>2 DEF Connects, RegistersAgain, PeerLeaves, Left, ServeInv
  <1>3. ASSUME NEW g, Closes(g), serve # "none" PROVE ServeInv'
    BY <1>3 DEF Closes, Left, ServeInv
  <1>4. CASE SessionEnds \/ GuardCloses
    BY <1>3, <1>4 DEF SessionEnds, GuardCloses, ServeInv
  <1>5. CASE Outside
    BY <1>5 DEF Outside, Calls, GuardCalls, Called, Reports, ReturnBegins, ReturnEnds,
                ReturnFails, DeadlineFires, Tick, ServeInv
  <1>6. CASE UNCHANGED vars
    BY <1>6 DEF vars, ServeInv
  <1> QED
    BY <1>1, <1>2, <1>4, <1>5, <1>6 DEF Next, Outside

-----------------------------------------------------------------------------
(* Awaited reports, and Stops *)

\* Who has not got the lock can only give up.
LEMMA OnlyHolderWorks ==
  ASSUME NEW c \in Callers, Works(c), ~Holds(c)
  PROVE  Refused(c)
  BY WorkCases DEF Ends, Acquire, Send, PrepareStart, RestorePower, Deliver, Retry,
     Delivered, Confirmed, RecoveryConfirms, RecoveryBegins, RecoveryStop, RecoveryFails,
     Prepared, AtPlace

LEMMA PendingStep == TypeOK /\ PendingInv /\ [Next]_vars => PendingInv'
  <1> SUFFICES ASSUME TypeOK, PendingInv, [Next]_vars, pending' = "open"
               PROVE  /\ lock' # <<>>
                      /\ cmd'[Head(lock')].at # "recovery"
                            => cmd'[Head(lock')].same /\ latest' # None
    BY DEF PendingInv
  <1> USE DEF session, commands, history
  <1>1. /\ cmd \in [Callers -> Command] /\ lock \in Seq(Callers)
        /\ lock # <<>> => Head(lock) \in Callers
    BY DEF TypeOK
  <1>2. ASSUME NEW c \in Callers, Works(c)
        PROVE  /\ lock' # <<>>
               /\ cmd'[Head(lock')].at # "recovery"
                     => cmd'[Head(lock')].same /\ latest' # None
    <2>1. CASE ~Holds(c)
      <3>1. Released(c) /\ pending = "open" /\ latest' = latest
        BY <1>2, <2>1, OnlyHolderWorks DEF Refused
      <3>2. Head(lock) # c /\ lock # <<>>
        BY <2>1, <3>1 DEF Holds, PendingInv
      <3>3. lock' # <<>> /\ Head(lock') = Head(lock) /\ cmd'[Head(lock)] = cmd[Head(lock)]
        BY <1>1, <3>1, <3>2, WithoutFacts DEF Released
      <3> QED
        BY <3>1, <3>2, <3>3 DEF PendingInv
    <2>2. CASE Holds(c)
      <3>1. ~Ends(c) /\ ~Delivered(c) /\ ~Confirmed(c) /\ ~RecoveryConfirms(c) /\ ~RecoveryFails(c)
        BY <2>2 DEF Ends, Refused, Abandoned, Delivered, Confirmed, RecoveryConfirms,
           RecoveryFails, Returned
      <3>2. Head(lock) = c /\ lock # <<>>
        BY <2>2 DEF Holds
      <3>3. CASE Acquire(c) /\ ~Refused(c)
        <4>1. /\ lock' = lock /\ latest' = latest /\ pending = "open"
              /\ cmd[c].at = "waiting" /\ cmd'[c].same = cmd[c].same
          BY <1>1, <3>3 DEF Acquire, AtPlace, Command
        <4> QED
          BY <3>2, <4>1 DEF PendingInv
      <3>4. CASE Send(c) \/ PrepareStart(c) \/ RestorePower(c) \/ Deliver(c)
        <4>1. cmd[c].same /\ latest # None /\ lock' = lock /\ latest' = latest
          BY <3>4 DEF Send, PrepareStart, RestorePower, Deliver, Prepared, Same, Available
        <4>2. cmd'[c].same = cmd[c].same
          BY <1>1, <3>4 DEF Send, PrepareStart, RestorePower, Deliver, Command
        <4> QED
          BY <3>2, <4>1, <4>2
      <3>5. CASE Retry(c) \/ RecoveryStop(c)
        <4>1. /\ pending = "open" /\ lock' = lock /\ latest' = latest
              /\ cmd'[c].same = cmd[c].same /\ cmd'[c].at = cmd[c].at
          BY <1>1, <3>5 DEF Retry, RecoveryStop, Command
        <4> QED
          BY <3>2, <4>1 DEF PendingInv
      <3>6. CASE RecoveryBegins(c)
        <4>1. lock' = lock /\ cmd'[c].at = "recovery"
          BY <1>1, <3>6 DEF RecoveryBegins, Command
        <4> QED
          BY <3>2, <4>1
      <3> QED
        BY <1>2, <3>1, <3>3, <3>4, <3>5, <3>6, WorkCases
    <2> QED
      BY <2>1, <2>2
  <1>3. CASE Connects \/ RegistersAgain \/ PeerLeaves
    BY <1>3 DEF Connects, RegistersAgain, PeerLeaves, Invalidates
  <1>4. ASSUME NEW g, Closes(g)
        PROVE  /\ lock' # <<>>
               /\ cmd'[Head(lock')].at # "recovery"
                     => cmd'[Head(lock')].same /\ latest' # None
    <2>1. /\ ~Holds("guard") /\ pending = "open" /\ latest' = latest
          /\ lock' = Without("guard") /\ cmd' = [cmd EXCEPT !["guard"] = NoCommand]
      BY <1>4 DEF Closes, Left, Invalidates
    <2>2. lock # <<>> /\ Head(lock) # "guard" /\ "guard" \in Callers
      BY <2>1 DEF Holds, PendingInv, Callers
    <2>3. lock' # <<>> /\ Head(lock') = Head(lock) /\ cmd'[Head(lock)] = cmd[Head(lock)]
      BY <1>1, <2>1, <2>2, WithoutFacts
    <2> QED
      BY <2>1, <2>3 DEF PendingInv
  <1>5. CASE SessionEnds \/ GuardCloses
    BY <1>4, <1>5 DEF SessionEnds, GuardCloses, PendingInv
  <1>6. ASSUME NEW c \in Callers, NEW act, NEW p, NEW m, Called(c, act, p, m)
        PROVE  /\ lock' # <<>>
               /\ cmd'[Head(lock')].at # "recovery"
                     => cmd'[Head(lock')].same /\ latest' # None
    <2>1. lock # <<>> /\ pending = "open" /\ latest' = latest
      BY <1>6 DEF Called, PendingInv
    <2>2. lock' # <<>> /\ Head(lock') = Head(lock)
      BY <1>1, <1>6, <2>1 DEF Called
    <2>3. CASE Head(lock) = c
      <3>1. cmd[c].at = "idle" /\ cmd'[c].same
        BY <1>1, <1>6 DEF Called, NoCommand
      <3> QED
        BY <2>1, <2>2, <2>3, <3>1 DEF PendingInv
    <2>4. CASE Head(lock) # c
      BY <1>1, <1>6, <2>1, <2>2, <2>4 DEF Called, PendingInv
    <2> QED
      BY <2>3, <2>4
  <1>7. CASE Calls \/ GuardCalls
    BY <1>6, <1>7 DEF Calls, GuardCalls, Callers
  <1>8. CASE \E r \in Reported : Reports(r)
    <2>1. PICK r \in Report : Reports(r)
      BY <1>8, TransportAssumption DEF TransportAssumption
    <2>2. latest' # None /\ pending = "open" /\ cmd' = cmd /\ lock' = lock
      BY <2>1, GuardAssumption DEF Reports, GuardAssumption
    <2> QED
      BY <2>2 DEF PendingInv
  <1>9. CASE ReturnBegins \/ ReturnEnds \/ ReturnFails \/ DeadlineFires \/ Tick \/ UNCHANGED vars
    BY <1>9 DEF ReturnBegins, ReturnEnds, ReturnFails, DeadlineFires, Tick, vars, PendingInv
  <1> QED
    BY <1>2, <1>3, <1>5, <1>7, <1>8, <1>9 DEF Next

\* One caller's part of StopInv.
StopInvOf(c) ==
    /\ cmd[c].at \notin {"sent", "recovery"} => cmd[c].tries = 0
    /\ cmd[c].at = "sent" /\ cmd[c].act = "stop" => last # "start"
    /\ cmd[c].at = "recovery" /\ cmd[c].same /\ cmd[c].tries > 0
          => last = "stop" /\ (pending = "matched" => seen)
    /\ cmd[c].at = "recovery" /\ pending = "matched" => cmd[c].tries > 0

\* What a command does to its own part.
LEMMA StopWork ==
  ASSUME TypeOK, NEW c \in Callers, StopInvOf(c), Works(c)
  PROVE  StopInvOf(c)'
  <1> USE DEF session, commands, history
  <1>1. /\ cmd \in [Callers -> Command] /\ cmd[c] \in Command
        /\ NoCommand.at = "idle" /\ NoCommand.tries = 0
    BY DEF TypeOK, NoCommand
  <1>2. ASSUME cmd'[c] = NoCommand PROVE StopInvOf(c)'
    BY <1>1, <1>2 DEF StopInvOf
  <1>3. CASE Ends(c) \/ Delivered(c) \/ Confirmed(c) \/ RecoveryConfirms(c) \/ RecoveryFails(c)
    BY <1>1, <1>2, <1>3 DEF Ends, Refused, Abandoned, Delivered, Confirmed, RecoveryConfirms,
       RecoveryFails, Returned, Released
  <1>4. CASE AtPlace(c, "waiting") /\ Acquire(c) /\ ~Refused(c)
    <2>1. cmd'[c].at = "quiet" /\ cmd'[c].tries = cmd[c].tries /\ cmd[c].at = "waiting"
      BY <1>1, <1>4 DEF Acquire, AtPlace, Command
    <2> QED
      BY <2>1 DEF StopInvOf
  <1>5. CASE Send(c)
    <2>1. cmd'[c].at = "sent" /\ cmd'[c].act = cmd[c].act /\ Sends(cmd[c].act)
      BY <1>1, <1>5 DEF Send, Command
    <2> QED
      BY <2>1 DEF Sends, StopInvOf
  <1>6. CASE PrepareStart(c) \/ RestorePower(c) \/ Deliver(c)
    <2>1. /\ cmd'[c].at \in {"idleCheck", "powerCheck", "delivery"}
          /\ cmd'[c].tries = cmd[c].tries /\ cmd[c].at \notin {"sent", "recovery"}
      BY <1>1, <1>6 DEF PrepareStart, RestorePower, Deliver, Prepared, AtPlace, Command
    <2> QED
      BY <2>1 DEF StopInvOf
  <1>7. CASE Retry(c)
    <2>1. cmd'[c].at = "sent" /\ last' = "stop"
      BY <1>1, <1>7 DEF Retry, AtPlace, Sends, Command
    <2> QED
      BY <2>1 DEF StopInvOf
  <1>8. CASE RecoveryBegins(c)
    <2>1. /\ cmd'[c].at = "recovery" /\ cmd'[c].tries = cmd[c].tries /\ pending' = "open"
          /\ cmd[c].at \notin {"sent", "recovery"}
      BY <1>1, <1>8 DEF RecoveryBegins, Prepared, AtPlace, Command
    <2> QED
      BY <2>1 DEF StopInvOf
  <1>9. CASE RecoveryStop(c)
    <2>1. cmd'[c].at = "recovery" /\ last' = "stop" /\ pending' = "open"
      BY <1>1, <1>9 DEF RecoveryStop, AtPlace, Sends, Command
    <2> QED
      BY <2>1 DEF StopInvOf
  <1> QED
    BY <1>3, <1>4, <1>5, <1>6, <1>7, <1>8, <1>9, WorkCases

\* A report that is matched while c waits for the end of charging is such a report.
LEMMA StopReported ==
  ASSUME HolderInv, NEW c \in Callers, NEW r, Reports(r),
         pending # "matched", pending' = "matched"
  PROVE  /\ cmd[c].at = "recovery" => cmd[c].tries > 0 /\ (last = "stop" => seen')
         /\ cmd[c].at = "sent" /\ cmd[c].act = "stop" /\ last = "stop" => seen'
  <1>1. Matches(Head(lock), r)
    BY DEF Reports
  <1>2. ASSUME cmd[c].at = "recovery"
        PROVE  cmd[c].tries > 0 /\ (last = "stop" => seen')
    <2>1. Head(lock) = c
      BY <1>2 DEF HolderInv, Holds
    <2>2. StoppedSince(c, r)
      BY <1>1, <1>2, <2>1 DEF Matches
    <2> QED
      BY <2>2 DEF StoppedSince, Reports
  <1>3. ASSUME cmd[c].at = "sent", cmd[c].act = "stop", last = "stop"
        PROVE  seen'
    <2>1. Head(lock) = c
      BY <1>3 DEF HolderInv, Holds
    <2>2. Stopped(r)
      BY <1>1, <1>3, <2>1 DEF Matches
    <2> QED
      BY <1>3, <2>2 DEF Reports
  <1> QED
    BY <1>2, <1>3

LEMMA StopStep == TypeOK /\ HolderInv /\ StopInv /\ [Next]_vars => StopInv'
  <1> SUFFICES ASSUME TypeOK, HolderInv, StopInv, [Next]_vars, NEW c \in Callers
               PROVE  StopInvOf(c)'
    BY DEF StopInv, StopInvOf
  <1> USE DEF session, commands, history
  <1>1. cmd \in [Callers -> Command] /\ cmd[c] \in Command /\ StopInvOf(c)
    BY DEF TypeOK, StopInv, StopInvOf
  <1>2. ASSUME NEW d \in Callers, Works(d) PROVE StopInvOf(c)'
    <2>1. CASE d = c
      BY <1>1, <1>2, <2>1, StopWork
    <2>2. CASE d # c /\ Holds(d)
      <3>1. cmd'[c] = cmd[c] /\ cmd[c].at \notin {"sent", "recovery"}
        BY <1>2, <2>2, WorkFrame DEF HolderInv, Holds
      <3> QED
        BY <1>1, <3>1 DEF StopInvOf
    <2>3. CASE d # c /\ ~Holds(d)
      <3>1. cmd'[c] = cmd[c] /\ last' = last /\ seen' = seen /\ pending' = pending
        BY <1>2, <2>3, WorkFrame, OnlyHolderWorks DEF Refused
      <3> QED
        BY <1>1, <3>1 DEF StopInvOf
    <2> QED
      BY <2>1, <2>2, <2>3
  <1>3. CASE Connects \/ RegistersAgain \/ SessionEnds \/ GuardCloses \/ PeerLeaves
    <2>1. CASE cmd'[c].at = "idle" /\ cmd'[c].tries = 0
      BY <2>1 DEF StopInvOf
    <2>2. CASE cmd'[c] \in {cmd[c], [cmd[c] EXCEPT !.same = FALSE]}
      <3>1. /\ cmd'[c].at = cmd[c].at /\ cmd'[c].act = cmd[c].act /\ cmd'[c].tries = cmd[c].tries
            /\ cmd'[c].same => cmd[c].same
        BY <1>1, <2>2 DEF Command
      <3>2. /\ pending' = pending \/ pending' \in {"none", "lost"}
            /\ \/ last' = last /\ seen' = seen
               \/ last' = "none" /\ ~cmd'[c].same
        BY <1>3, SessionFrame
      <3> QED
        BY <1>1, <3>1, <3>2 DEF StopInvOf
    <2> QED
      BY <1>3, <2>1, <2>2, SessionFrame
  <1>4. ASSUME NEW d \in Callers, NEW act, NEW p, NEW m, Called(d, act, p, m)
        PROVE  StopInvOf(c)'
    <2>1. CASE d = c
      <3>1. cmd'[c].at = "waiting" /\ cmd'[c].tries = 0
        BY <1>1, <1>4, <2>1 DEF Called, NoCommand
      <3> QED
        BY <3>1 DEF StopInvOf
    <2>2. CASE d # c
      BY <1>1, <1>4, <2>2 DEF Called, StopInvOf
    <2> QED
      BY <2>1, <2>2
  <1>5. CASE Calls \/ GuardCalls
    BY <1>4, <1>5 DEF Calls, GuardCalls, Callers
  <1>6. CASE \E r \in Reported : Reports(r)
    <2>1. PICK r \in Reported : Reports(r)
      BY <1>6
    <2>2. /\ cmd' = cmd /\ (last' = last \/ (last = "start" /\ last' = "ended")) /\ (seen => seen')
      BY <2>1 DEF Reports
    <2>3. CASE pending # "matched" /\ pending' = "matched"
      <3>1. cmd[c].at = "recovery" => cmd[c].tries > 0 /\ (last = "stop" => seen')
        BY <2>1, <2>3, StopReported
      <3> QED
        BY <1>1, <2>2, <3>1 DEF StopInvOf
    <2>4. CASE pending = "matched" \/ pending' # "matched"
      BY <1>1, <2>2, <2>4 DEF StopInvOf
    <2> QED
      BY <2>3, <2>4
  <1>7. CASE ReturnBegins \/ ReturnEnds \/ ReturnFails \/ DeadlineFires \/ Tick \/ UNCHANGED vars
    BY <1>1, <1>7 DEF ReturnBegins, ReturnEnds, ReturnFails, DeadlineFires, Tick, vars, StopInvOf
  <1> QED
    BY <1>2, <1>3, <1>5, <1>6, <1>7 DEF Next

LEMMA GuardStopStep ==
  TypeOK /\ HolderInv /\ ProtectInv /\ AlarmInv /\ ServeInv /\ GuardStopInv /\ [Next]_vars
     => GuardStopInv'
  <1> SUFFICES ASSUME TypeOK, HolderInv, ProtectInv, AlarmInv, ServeInv, GuardStopInv,
                      [Next]_vars, cmd'["guard"].at = "sent"
               PROVE  /\ serve' # "none" /\ last' = "stop"
                      /\ pending' = "matched" => seen'
    BY DEF GuardStopInv
  <1> USE DEF session, commands, history
  <1>1. cmd \in [Callers -> Command] /\ cmd["guard"] \in Command /\ "guard" \in Callers
    BY DEF TypeOK, Callers
  <1>2. ASSUME NEW c \in Callers, Works(c)
        PROVE  /\ serve' # "none" /\ last' = "stop"
               /\ pending' = "matched" => seen'
    <2>1. CASE c # "guard"
      <3>1. cmd'["guard"] = cmd["guard"] /\ serve' = serve
        BY <1>1, <1>2, <2>1, WorkFrame
      <3>2. ~Holds(c)
        BY <1>1, <2>1, <3>1 DEF HolderInv, Holds
      <3>3. last' = last /\ (seen => seen') /\ pending' = pending
        BY <1>2, <3>2, OnlyHolderWorks DEF Refused
      <3>4. serve # "none" /\ last = "stop" /\ (pending = "matched" => seen)
        BY <3>1 DEF GuardStopInv
      <3> QED
        BY <3>1, <3>3, <3>4
    <2>2. CASE c = "guard"
      <3>1. ~Ends(c) /\ ~Delivered(c) /\ ~Confirmed(c) /\ ~RecoveryConfirms(c) /\ ~RecoveryFails(c)
        <4>1. cmd'[c] # NoCommand
          BY <2>2 DEF NoCommand
        <4>2. Released(c) => cmd'[c] = NoCommand
          BY <1>1 DEF Released
        <4> QED
          BY <4>1, <4>2 DEF Ends, Refused, Abandoned, Delivered, Confirmed, RecoveryConfirms,
             RecoveryFails, Returned
      <3>2. ~(Acquire(c) /\ ~Refused(c)) /\ ~PrepareStart(c)
        BY <1>1, <2>2 DEF Acquire, PrepareStart, Command
      <3>3. ~RestorePower(c) /\ ~Deliver(c) /\ ~RecoveryBegins(c) /\ ~RecoveryStop(c)
        BY <2>2 DEF RestorePower, Deliver, RecoveryBegins, RecoveryStop, Prepared, AtPlace,
           ProtectInv
      <3>4. CASE Send(c)
        <4>1. cmd[c].act = "stop"
          BY <1>1, <2>2, <3>4 DEF Send, AtPlace, ProtectInv
        <4>2. serve # "none"
          BY <3>4 DEF Send, Same, Available, ServeInv
        <4> QED
          BY <3>4, <4>1, <4>2 DEF Send, Sends
      <3>5. CASE Retry(c)
        BY <2>2, <3>5 DEF Retry, AtPlace, Sends, GuardStopInv
      <3> QED
        BY <1>2, <3>1, <3>2, <3>3, <3>4, <3>5, WorkCases
    <2> QED
      BY <2>1, <2>2
  <1>3. CASE Connects \/ RegistersAgain \/ PeerLeaves
    <2>1. cmd["guard"].at = "sent"
      BY <1>1, <1>3 DEF Connects, RegistersAgain, PeerLeaves, Invalidates, Command
    <2>2. TaskPending(guard)
      BY <2>1 DEF ProtectInv, TaskPending
    <2>3. RegistersAgain
      BY <1>3, <2>1, <2>2 DEF Connects, PeerLeaves, GuardStopInv, AlarmInv
    <2> QED
      BY <2>1, <2>3 DEF RegistersAgain, Invalidates, GuardStopInv
  <1>4. ASSUME NEW g PROVE ~Closes(g)
    BY <1>1 DEF Closes, Invalidates, NoCommand
  <1>5. CASE SessionEnds \/ GuardCloses
    BY <1>4, <1>5 DEF SessionEnds, GuardCloses, GuardStopInv
  <1>6. CASE Calls
    BY <1>1, <1>6, TransportAssumption DEF Calls, Called, TransportAssumption, GuardStopInv
  <1>7. CASE GuardCalls
    BY <1>1, <1>7 DEF GuardCalls, Called, NoCommand
  <1>8. CASE \E r \in Reported : Reports(r)
    <2>1. PICK r \in Reported : Reports(r)
      BY <1>8
    <2>2. cmd["guard"].at = "sent" /\ cmd["guard"].act = "stop" /\ last = "stop" /\ last' = last
      BY <2>1 DEF Reports, ProtectInv, GuardStopInv
    <2>3. pending' = "matched" => seen'
      <3>1. CASE pending = "matched"
        BY <2>1, <2>2, <3>1 DEF Reports, GuardStopInv
      <3>2. CASE pending # "matched"
        BY <1>1, <2>1, <2>2, <3>2, StopReported
      <3> QED
        BY <3>1, <3>2
    <2> QED
      BY <2>1, <2>2, <2>3 DEF Reports
  <1>9. CASE ReturnBegins \/ ReturnEnds \/ ReturnFails \/ DeadlineFires \/ Tick \/ UNCHANGED vars
    BY <1>9 DEF ReturnBegins, ReturnEnds, ReturnFails, DeadlineFires, Tick, vars, GuardStopInv
  <1> QED
    BY <1>2, <1>3, <1>5, <1>6, <1>7, <1>8, <1>9 DEF Next

-----------------------------------------------------------------------------
(* The limit and what it allowed *)

\* What each method of the guard makes of its limit.
LEMMA GuardLimits ==
  ASSUME NEW g \in Guard
  PROVE  /\ \A p \in Powers : \A m : /\ Begin(g, p, m).limit = p
                                     /\ Begin(g, p, m).settling = NoGrace
         /\ Disarm(g).limit = None /\ Protected(g).limit = None
         /\ Protected(g).error = "confirmed" /\ Unprotected(g).error = "unverified"
         /\ \A h \in {Unprotected(g), Latch(g), DeadlineOver(g)} :
               h.limit = g.limit /\ h.settling = g.settling
         /\ \A e \in BOOLEAN : /\ CloseThen(g, e).limit = g.limit
                               /\ CloseThen(g, e).settling = g.settling
         /\ \A e \in BOOLEAN : CloseFirst(g, e).limit = None
         /\ Aged(g).limit = g.limit
         /\ \A p \in Powers : Aged(g).settling[p] =
               IF g.settling[p] > 0 THEN g.settling[p] - 1 ELSE 0
         /\ \A r : \/ AfterReport(g, r) = Disarm(g) /\ r.state = 3
                   \/ /\ AfterReport(g, r).limit = g.limit
                      /\ AfterReport(g, r).settling = g.settling
  <1>1. \A p \in Powers : \A m : Begin(g, p, m).limit = p /\ Begin(g, p, m).settling = NoGrace
    BY DEF Begin, Arm, Guard
  <1>2. /\ Disarm(g).limit = None /\ Protected(g).limit = None
        /\ Protected(g).error = "confirmed" /\ Unprotected(g).error = "unverified"
        /\ \A e \in BOOLEAN : CloseFirst(g, e).limit = None
    BY DEF Disarm, Protected, Unprotected, CloseFirst, Guard
  <1>3. /\ Unprotected(g).limit = g.limit /\ Unprotected(g).settling = g.settling
        /\ Latch(g).limit = g.limit /\ Latch(g).settling = g.settling
        /\ DeadlineOver(g).limit = g.limit /\ DeadlineOver(g).settling = g.settling
    BY DEF Unprotected, Latch, DeadlineOver, Guard
  <1>4. \A e \in BOOLEAN : CloseThen(g, e).limit = g.limit /\ CloseThen(g, e).settling = g.settling
    BY DEF CloseThen, Guard
  <1>5. /\ Aged(g).limit = g.limit
        /\ \A p \in Powers : Aged(g).settling[p] =
              IF g.settling[p] > 0 THEN g.settling[p] - 1 ELSE 0
    BY DEF Aged, Guard
  <1>6. \A r : \/ AfterReport(g, r) = Disarm(g) /\ r.state = 3
               \/ /\ AfterReport(g, r).limit = g.limit
                  /\ AfterReport(g, r).settling = g.settling
    <2> TAKE r
    <2>1. \/ AfterReport(g, r) = Disarm(g) /\ r.state = 3
          \/ AfterReport(g, r) \in {g, Latch(g), [g EXCEPT !.phase = "waiting"],
                                   [g EXCEPT !.phase = "charging", !.deadline = Cancelled(@)]}
      BY DEF AfterReport, Ended
    <2>2. \A h \in {g, Latch(g), [g EXCEPT !.phase = "waiting"],
                    [g EXCEPT !.phase = "charging", !.deadline = Cancelled(@)]} :
            h.limit = g.limit /\ h.settling = g.settling
      BY <1>3 DEF Guard
    <2> QED
      BY <2>1, <2>2
  <1> QED
    BY <1>1, <1>2, <1>3, <1>4, <1>5, <1>6

\* GraceInv of a guard and what was asked for.
GraceOf(g, asked) ==
    g.limit # None =>
        /\ \A q \in Powers : q <= g.limit => asked[q] = Grace
        /\ \A p, q \in Powers : q <= p => asked[q] >= g.settling[p]

\* A limit given to a guard that had none before.
LEMMA GraceArm ==
  ASSUME NEW g \in Guard, NEW p \in Powers, g.limit = p, g.settling = NoGrace
  PROVE  GraceOf(g, Recalled({p}, NoGrace))
  <1>1. Grace \in Nat /\ p # None
    BY GuardAssumption DEF GuardAssumption, Powers
  <1>2. \A q \in Powers : Recalled({p}, NoGrace)[q] = IF q <= p THEN Grace ELSE 0
    BY <1>1 DEF Recalled, NoGrace
  <1> QED
    BY <1>1, <1>2 DEF GraceOf, NoGrace

\* A limit that is changed leaves its predecessor allowed, and remembered.
LEMMA GraceUpdate ==
  ASSUME NEW g \in Guard, NEW asked \in [Powers -> 0..Grace], GraceOf(g, asked), NEW p \in Powers
  PROVE  GraceOf(UpdateLimit(g, p), Recalled({UpdateLimit(g, p).limit}, asked))
  <1> DEFINE h == UpdateLimit(g, p)
             now == Recalled({h.limit}, asked)
  <1>1. Grace \in Nat \ {0} /\ None \notin Powers /\ Powers \subseteq Int
    BY GuardAssumption DEF GuardAssumption, Powers
  <1>2. \A q \in Powers : now[q] = Grace \/ now[q] = asked[q]
    BY DEF Recalled
  <1>3. \A q \in Powers : now[q] >= asked[q] /\ asked[q] \in 0..Grace /\ now[q] \in 0..Grace
    BY <1>1, <1>2
  <1>4. ASSUME h.limit # None PROVE \A q \in Powers : q <= h.limit => now[q] = Grace
    BY <1>4 DEF Recalled
  <1>5. CASE g.limit = None
    <2>1. h = g
      BY <1>5 DEF UpdateLimit
    <2> QED
      BY <1>5, <2>1 DEF GraceOf
  <1>6. CASE g.limit # None
    <2>1. g.limit \in Powers /\ \A q \in Powers : g.settling[q] \in 0..Grace
      BY <1>6 DEF Guard
    <2>2. \A r \in Powers : \/ h.settling[r] = g.settling[r]
                            \/ r = g.limit /\ h.settling[r] = Grace
      BY <2>1 DEF UpdateLimit, Guard
    <2>3. \A r, q \in Powers : q <= r => now[q] >= h.settling[r]
      <3> TAKE r, q \in Powers
      <3> HAVE q <= r
      <3>1. asked[q] >= g.settling[r]
        BY <1>6 DEF GraceOf
      <3>2. CASE h.settling[r] = g.settling[r]
        BY <1>1, <1>3, <2>1, <3>1, <3>2
      <3>3. CASE r = g.limit /\ h.settling[r] = Grace
        <4>1. asked[q] = Grace
          BY <1>6, <3>3 DEF GraceOf
        <4> QED
          BY <1>1, <1>3, <3>3, <4>1
      <3> QED
        BY <2>2, <3>2, <3>3
    <2> QED
      BY <1>4, <2>3 DEF GraceOf
  <1> QED
    BY <1>5, <1>6

\* A power for a session that somebody else began.
LEMMA GraceAdopt ==
  ASSUME NEW g \in Guard, NEW p \in Powers, NEW ceiling \in Powers, NEW m \in Modes
  PROVE  LET h == Adopt(g, p, ceiling, m)
         IN  GraceOf(h, Recalled({ceiling, h.limit}, NoGrace))
  <1> DEFINE armed == [Arm(g, ceiling) EXCEPT !.mode = m, !.phase = "charging"]
             h     == UpdateLimit(armed, p)
             asked == Recalled({ceiling}, NoGrace)
  <1>1. NoGrace \in [Powers -> 0..Grace] /\ asked \in [Powers -> 0..Grace]
    BY NoCommandType, RecalledType
  <1>2. armed \in Guard /\ armed.limit = ceiling /\ armed.settling = NoGrace
    <2>1. Arm(g, ceiling) \in Guard
      <3>1. Fast \in Modes /\ Cancelled(g.deadline) \in {"none", "running", "over"}
        BY DEF Modes, Guard, Cancelled
      <3> QED
        BY <1>1, <3>1 DEF Arm, Guard, Errors
    <2> QED
      BY <2>1 DEF Arm, Guard, Phases
  <1> HIDE DEF armed
  <1>3. GraceOf(armed, asked)
    BY <1>2, GraceArm
  <1>4. GraceOf(h, Recalled({h.limit}, asked))
    BY <1>1, <1>2, <1>3, GraceUpdate
  <1>5. Recalled({h.limit}, asked) = Recalled({ceiling, h.limit}, NoGrace)
    <2>1. \A q \in Powers : Recalled({h.limit}, asked)[q] = Recalled({ceiling, h.limit}, NoGrace)[q]
      BY DEF Recalled
    <2> QED
      BY <2>1 DEF Recalled
  <1> QED
    BY <1>4, <1>5 DEF Adopt, armed

\* A guard that was given up, or that keeps its limit and what it allows.
LEMMA GraceKept ==
  ASSUME NEW g, NEW h, NEW asked, GraceOf(g, asked),
         h.limit = None \/ (h.limit = g.limit /\ h.settling = g.settling)
  PROVE  GraceOf(h, asked)
  BY DEF GraceOf

\* What a command that does not send a power or a Start makes of the guard.
LEMMA WorkLimits ==
  ASSUME TypeOK, StopInv, NEW c \in Callers, Works(c), ~Send(c), ~Deliver(c)
  PROVE  /\ recent' = recent
         /\ \/ guard'.limit = None
            \/ guard'.limit = guard.limit /\ guard'.settling = guard.settling
         /\ last' = "start" => last = "start"
         /\ last' = "start" => \/ guard' = guard
                              \/ guard'.error # "none"
  <1> USE DEF session, commands, history
  <1>1. guard \in Guard /\ Disarm(guard) \in Guard
    BY GuardTypes DEF TypeOK
  <1>2. CASE Ends(c)
    <2>1. guard' \in {guard, Unprotected(guard)} /\ recent' = recent /\ last' = last
      BY <1>2 DEF Ends, Refused, Abandoned, Outcome
    <2> QED
      BY <1>1, <2>1, GuardLimits
  <1>3. CASE \/ (Acquire(c) /\ ~Refused(c)) \/ PrepareStart(c) \/ RestorePower(c)
             \/ Retry(c) \/ RecoveryStop(c) \/ Delivered(c)
    BY <1>3 DEF Acquire, PrepareStart, RestorePower, Retry, RecoveryStop, Delivered, Returned, Sends
  <1>4. CASE Confirmed(c)
    <2>1. recent' = recent /\ last' = last
      BY <1>4 DEF Confirmed, Returned
    <2>2. CASE cmd[c].act # "stop"
      BY <1>4, <2>1, <2>2 DEF Confirmed, Returned
    <2>3. CASE cmd[c].act = "stop"
      <3>1. last # "start"
        BY <1>4, <2>3 DEF Confirmed, AtPlace, StopInv
      <3>2. guard' \in {Disarm(guard), Protected(Disarm(guard))}
        BY <1>4, <2>3 DEF Confirmed, Returned, Outcome
      <3>3. Disarm(guard).limit = None /\ Protected(Disarm(guard)).limit = None
        BY <1>1, GuardLimits
      <3> QED
        BY <2>1, <3>1, <3>2, <3>3
    <2> QED
      BY <2>2, <2>3
  <1>5. CASE RecoveryConfirms(c) \/ RecoveryFails(c)
    <2>1. \A e \in {"confirmed", "unverified"} :
            /\ [guard EXCEPT !.error = e].error = e
            /\ [guard EXCEPT !.error = e].limit = guard.limit
            /\ [guard EXCEPT !.error = e].settling = guard.settling
      BY <1>1 DEF Guard
    <2>2. \E e \in {"confirmed", "unverified"} : guard' = [guard EXCEPT !.error = e]
      BY <1>5 DEF RecoveryConfirms, RecoveryFails, Returned
    <2>3. recent' = recent /\ last' = last
      BY <1>5 DEF RecoveryConfirms, RecoveryFails, Returned
    <2> QED
      BY <2>1, <2>2, <2>3
  <1>6. CASE RecoveryBegins(c)
    <2>1. [Disarm(guard) EXCEPT !.error = "pending"].limit = None
      BY <1>1, GuardLimits DEF Guard
    <2>2. [Disarm(guard) EXCEPT !.error = "pending"].error = "pending"
      BY <1>1 DEF Guard
    <2> QED
      BY <1>6, <2>1, <2>2 DEF RecoveryBegins
  <1> QED
    BY <1>2, <1>3, <1>4, <1>5, <1>6, WorkCases

LEMMA GraceSend ==
  ASSUME TypeOK, GraceInv, NEW c \in Callers, Send(c)
  PROVE  GraceInv'
  <1>1. /\ guard \in Guard /\ recent \in [Powers -> 0..Grace] /\ GraceOf(guard, recent)
        /\ cmd[c].power \in Powers /\ None \notin Powers
    BY GuardAssumption DEF TypeOK, Command, GraceInv, GraceOf, GuardAssumption, Powers
  <1>2. CASE Adopts(c)
    <2>1. Ceiling \in Powers /\ latest.mode \in Modes
      BY <1>2, GuardAssumption DEF Send, Same, Available, TypeOK, Report, Ceiling, Powers,
         GuardAssumption
    <2>2. /\ guard' = Adopt(guard, cmd[c].power, Ceiling, latest.mode)
          /\ recent' = Recalled({Ceiling, guard'.limit}, NoGrace)
      BY <1>2 DEF Send, Supervised
    <2> HIDE DEF Ceiling
    <2>3. GraceOf(guard', recent')
      BY <1>1, <2>1, <2>2, GraceAdopt
    <2> QED
      BY <2>3 DEF GraceInv, GraceOf
  <1>3. CASE ~Adopts(c)
    <2>1. recent' = Recalled({guard'.limit}, recent)
      BY <1>3 DEF Send
    <2>2. CASE cmd[c].act = "power"
      <3>1. guard' = UpdateLimit(guard, cmd[c].power)
        BY <1>3, <2>2 DEF Send, Supervised
      <3>2. GraceOf(guard', recent')
        BY <1>1, <2>1, <3>1, GraceUpdate
      <3> QED
        BY <3>2 DEF GraceInv, GraceOf
    <2>3. CASE cmd[c].act # "power"
      <3>1. guard' = guard
        BY <1>3, <2>3 DEF Send, Supervised
      <3>2. CASE guard.limit = None
        BY <3>1, <3>2 DEF GraceInv
      <3>3. CASE guard.limit # None
        <4>1. guard.limit \in Powers /\ UpdateLimit(guard, guard.limit) = guard
          BY <1>1, <3>3 DEF Guard, UpdateLimit
        <4>2. GraceOf(guard', recent')
          BY <1>1, <2>1, <3>1, <4>1, GraceUpdate
        <4> QED
          BY <4>2 DEF GraceInv, GraceOf
      <3> QED
        BY <3>2, <3>3
    <2> QED
      BY <2>2, <2>3
  <1> QED
    BY <1>2, <1>3

LEMMA GraceTick ==
  ASSUME TypeOK, GraceInv, Tick
  PROVE  GraceInv'
  <1>1. /\ guard \in Guard /\ guard' = Aged(guard) /\ guard'.limit = guard.limit
        /\ \A p \in Powers : guard'.settling[p] =
              IF guard.settling[p] > 0 THEN guard.settling[p] - 1 ELSE 0
    BY GuardLimits DEF Tick, TypeOK
  <1>2. SUFFICES ASSUME guard.limit # None
                 PROVE  /\ \A q \in Powers : q <= guard.limit => recent'[q] = Grace
                        /\ \A p, q \in Powers : q <= p => recent'[q] >= guard'.settling[p]
    BY <1>1 DEF GraceInv
  <1>3. /\ Grace \in Nat /\ Powers \subseteq Int
        /\ \A p \in Powers : recent[p] \in 0..Grace /\ guard.settling[p] \in 0..Grace
    BY <1>1, GuardAssumption DEF TypeOK, Guard, GuardAssumption, Powers
  <1>4. \A q \in Powers : recent'[q] = IF recent[q] = 0 \/ q <= guard.limit
                                       THEN recent[q] ELSE recent[q] - 1
    BY <1>2 DEF Tick
  <1>5. ASSUME NEW q \in Powers, q <= guard.limit PROVE recent'[q] = Grace
    BY <1>2, <1>4, <1>5 DEF GraceInv
  <1>6. ASSUME NEW p \in Powers, NEW q \in Powers, q <= p PROVE recent'[q] >= guard'.settling[p]
    <2>1. recent[q] >= guard.settling[p]
      BY <1>2, <1>6 DEF GraceInv
    <2>2. /\ recent'[q] \in {recent[q], recent[q] - 1} /\ (recent[q] = 0 => recent'[q] = 0)
          /\ guard'.settling[p] = IF guard.settling[p] > 0 THEN guard.settling[p] - 1 ELSE 0
      BY <1>1, <1>4
    <2>3. recent'[q] = recent[q] - 1 \/ recent'[q] = recent[q]
      BY <2>2
    <2>4. recent[q] \in 0..Grace /\ guard.settling[p] \in 0..Grace /\ Grace \in Nat
      BY <1>3
    <2> HIDE <1>1, <1>3, <1>4
    <2> QED
      BY <2>1, <2>2, <2>3, <2>4
  <1> QED
    BY <1>5, <1>6

LEMMA GraceStep == TypeOK /\ StopInv /\ GraceInv /\ [Next]_vars => GraceInv'
  <1> SUFFICES ASSUME TypeOK, StopInv, GraceInv, [Next]_vars PROVE GraceInv'
    OBVIOUS
  <1> USE DEF session, commands, history
  <1>1. guard \in Guard /\ GraceOf(guard, recent) /\ expected \in BOOLEAN
    BY DEF TypeOK, GraceInv, GraceOf
  <1>2. ASSUME recent' = recent,
               guard'.limit = None \/ (guard'.limit = guard.limit /\ guard'.settling = guard.settling)
        PROVE  GraceInv'
    BY <1>2 DEF GraceInv
  <1>3. ASSUME NEW c \in Callers, Works(c) PROVE GraceInv'
    <2>1. CASE Send(c)
      BY <2>1, GraceSend
    <2>2. CASE Deliver(c)
      <3>1. /\ guard' = Begin(guard, cmd[c].power, cmd[c].mode) /\ cmd[c].power \in Powers
            /\ cmd[c].mode \in Modes /\ recent' = Recalled({guard'.limit}, NoGrace)
        BY <2>2 DEF Deliver, TypeOK, Command
      <3>2. guard' \in Guard /\ guard'.limit = cmd[c].power /\ guard'.settling = NoGrace
        <4>1. guard' \in Guard
          BY <1>1, <3>1, GuardTypes
        <4> QED
          BY <1>1, <3>1, <4>1, GuardLimits
      <3>3. GraceOf(guard', recent')
        BY <3>1, <3>2, GraceArm
      <3> QED
        BY <3>3 DEF GraceInv, GraceOf
    <2>3. CASE ~Send(c) /\ ~Deliver(c)
      BY <1>2, <1>3, <2>3, WorkLimits
    <2> QED
      BY <2>1, <2>2, <2>3
  <1>4. CASE Connects \/ RegistersAgain \/ PeerLeaves \/ Calls
    BY <1>2, <1>4 DEF Connects, RegistersAgain, PeerLeaves, Calls, Called
  <1>5. ASSUME NEW g \in Guard, Closes(g), recent' = recent,
               g.limit = None \/ (g.limit = guard.limit /\ g.settling = guard.settling)
        PROVE  GraceInv'
    <2>1. /\ CloseThen(g, expected) \in Guard
          /\ CloseThen(g, expected).limit = g.limit /\ CloseThen(g, expected).settling = g.settling
      BY <1>1, <1>5, GuardTypes, GuardLimits
    <2>2. guard'.limit = g.limit /\ guard'.settling = g.settling
      BY <1>5, <2>1 DEF Closes, Guard
    <2> QED
      BY <1>2, <1>5, <2>2
  <1>6. CASE SessionEnds
    <2>1. CloseFirst(guard, expected) \in Guard /\ CloseFirst(guard, expected).limit = None
      BY <1>1, GuardTypes, GuardLimits
    <2> QED
      BY <1>2, <1>5, <1>6, <2>1 DEF SessionEnds
  <1>7. CASE GuardCloses
    BY <1>1, <1>5, <1>7 DEF GuardCloses
  <1>8. CASE GuardCalls
    <2>1. guard'.limit = guard.limit /\ guard'.settling = guard.settling
      BY <1>1, <1>8 DEF GuardCalls, Guard
    <2> QED
      BY <1>2, <1>8, <2>1 DEF GuardCalls, Called
  <1>9. CASE \E r \in Reported : Reports(r)
    <2>1. PICK r \in Reported : Reports(r)
      BY <1>9
    <2>2. guard' = AfterReport(guard, r) /\ recent' = recent
      BY <2>1 DEF Reports
    <2> QED
      BY <1>1, <1>2, <2>2, GuardLimits
  <1>10. CASE ReturnBegins \/ ReturnEnds \/ ReturnFails
    <2>1. guard'.limit = guard.limit /\ guard'.settling = guard.settling
      BY <1>1, <1>10 DEF ReturnBegins, ReturnEnds, ReturnFails, Guard
    <2> QED
      BY <1>2, <1>10, <2>1 DEF ReturnBegins, ReturnEnds, ReturnFails
  <1>11. CASE DeadlineFires
    BY <1>1, <1>2, <1>11, GuardLimits DEF DeadlineFires
  <1>12. CASE Tick
    BY <1>12, GraceTick
  <1>13. CASE UNCHANGED vars
    BY <1>2, <1>13 DEF vars
  <1> QED
    BY <1>3, <1>4, <1>6, <1>7, <1>8, <1>9, <1>10, <1>11, <1>12, <1>13 DEF Next

-----------------------------------------------------------------------------
(* Supervision *)

Supervision(g) == g.limit # None \/ g.error # "none"

LEMMA SupervisedStep ==
  TypeOK /\ StopInv /\ StartIsSupervised /\ [Next]_vars => StartIsSupervised'
  <1> SUFFICES ASSUME TypeOK, StopInv, StartIsSupervised, [Next]_vars,
                      serve' = "reading", last' = "start"
               PROVE  Supervision(guard')
    BY DEF StartIsSupervised, Supervision
  <1> USE DEF session, commands, history
  <1>1. guard \in Guard /\ None \notin Powers
    BY GuardAssumption DEF TypeOK, GuardAssumption, Powers
  <1>2. serve = "reading" /\ last = "start" => Supervision(guard)
    BY DEF StartIsSupervised, Supervision
  <1>3. ASSUME NEW c \in Callers, Works(c) PROVE Supervision(guard')
    <2>1. serve = "reading"
      BY <1>3, WorkFrame
    <2>2. CASE Send(c)
      <3>1. last = "start" /\ guard' = Supervised(c)
        BY <2>2 DEF Send, Sends
      <3>2. cmd[c].power \in Powers
        BY DEF TypeOK, Command
      <3>3. CASE Adopts(c)
        <4>1. Ceiling \in Powers /\ latest.mode \in Modes
          BY <2>2, GuardAssumption DEF Send, Same, Available, TypeOK, Report, Ceiling, Powers,
             GuardAssumption
        <4>2. guard' = Adopt(guard, cmd[c].power, Ceiling, latest.mode)
          BY <3>1, <3>3 DEF Supervised
        <4> HIDE DEF Ceiling
        <4> DEFINE h == [Arm(guard, Ceiling) EXCEPT !.mode = latest.mode, !.phase = "charging"]
        <4>3. h.limit = Ceiling /\ guard' = UpdateLimit(h, cmd[c].power)
          BY <1>1, <4>2 DEF Adopt, Arm, Guard
        <4>4. h \in Guard
          <5>1. Arm(guard, Ceiling) \in Guard
            <6>1. Fast \in Modes /\ Cancelled(guard.deadline) \in {"none", "running", "over"}
              BY <1>1 DEF Modes, Guard, Cancelled
            <6> QED
              BY <1>1, <4>1, <6>1, NoCommandType DEF Arm, Guard, Errors
          <5> QED
            BY <4>1, <5>1 DEF Guard, Phases
        <4>5. guard'.limit \in {Ceiling, cmd[c].power}
          BY <4>3, <4>4 DEF UpdateLimit, Guard
        <4> QED
          BY <1>1, <3>2, <4>1, <4>5 DEF Supervision
      <3>4. CASE ~Adopts(c) /\ cmd[c].act = "power"
        <4>1. guard' = UpdateLimit(guard, cmd[c].power)
          BY <3>1, <3>4 DEF Supervised
        <4> QED
          BY <1>1, <1>2, <2>1, <3>1, <3>2, <4>1 DEF UpdateLimit, Supervision, Guard
      <3>5. CASE cmd[c].act # "power"
        BY <1>2, <2>1, <3>1, <3>5 DEF Supervised, Adopts
      <3> QED
        BY <3>3, <3>4, <3>5
    <2>3. CASE Deliver(c)
      <3>1. /\ guard' = Begin(guard, cmd[c].power, cmd[c].mode) /\ cmd[c].power \in Powers
        BY <2>3 DEF Deliver, TypeOK, Command
      <3>2. guard'.limit = cmd[c].power
        BY <1>1, <3>1, GuardLimits
      <3> QED
        BY <1>1, <3>1, <3>2 DEF Supervision
    <2>4. CASE ~Send(c) /\ ~Deliver(c)
      BY <1>2, <1>3, <2>1, <2>4, WorkLimits DEF Supervision
    <2> QED
      BY <2>2, <2>3, <2>4
  <1>4. CASE Connects \/ RegistersAgain \/ PeerLeaves \/ SessionEnds \/ GuardCloses
    <2>1. \A g : Closes(g) => serve' # "reading"
      BY DEF Closes, Left
    <2> QED
      BY <1>2, <1>4, <2>1 DEF Connects, RegistersAgain, PeerLeaves, Left, SessionEnds, GuardCloses
  <1>5. ASSUME serve' = serve, last' = last, guard'.limit = guard.limit,
               guard.error # "none" => guard'.error # "none"
        PROVE  Supervision(guard')
    BY <1>2, <1>5 DEF Supervision
  <1>6. CASE Calls
    BY <1>2, <1>6 DEF Calls, Called
  <1>7. CASE GuardCalls
    <2>1. guard'.limit = guard.limit /\ guard'.error = guard.error
      BY <1>1, <1>7 DEF GuardCalls, Guard
    <2> QED
      BY <1>5, <1>7, <2>1 DEF GuardCalls, Called
  <1>8. CASE \E r \in Reported : Reports(r)
    <2>1. PICK r \in Reported : Reports(r)
      BY <1>8
    <2>2. guard' = AfterReport(guard, r) /\ serve' = serve /\ last = "start" /\ r.state # 3 /\ last' = last
      BY <2>1 DEF Reports
    <2>3. guard'.limit = guard.limit
      BY <1>1, <2>2, GuardLimits
    <2>4. guard.error # "none" => guard'.error # "none"
      BY <1>1, <2>2, GuardTask
    <2> QED
      BY <1>5, <2>2, <2>3, <2>4
  <1>9. CASE ReturnBegins \/ ReturnEnds \/ ReturnFails
    <2>1. guard'.limit = guard.limit /\ (guard.error # "none" => guard'.error # "none")
      BY <1>1, <1>9 DEF ReturnBegins, ReturnEnds, ReturnFails, Guard
    <2> QED
      BY <1>5, <1>9, <2>1 DEF ReturnBegins, ReturnEnds, ReturnFails
  <1>10. CASE DeadlineFires \/ Tick
    <2>1. guard'.limit = guard.limit /\ (guard.error # "none" => guard'.error # "none")
      BY <1>1, <1>10, GuardLimits, GuardTask DEF DeadlineFires, Tick
    <2> QED
      BY <1>5, <1>10, <2>1 DEF DeadlineFires, Tick
  <1>11. CASE UNCHANGED vars
    BY <1>5, <1>11 DEF vars
  <1> QED
    BY <1>3, <1>4, <1>6, <1>7, <1>8, <1>9, <1>10, <1>11 DEF Next

-----------------------------------------------------------------------------
(* Theorems *)

LEMMA InitInv == Init => IInv
  <1> SUFFICES ASSUME Init PROVE IInv
    OBVIOUS
  <1>1. NoGrace \in [Powers -> 0..Grace] /\ NoCommand \in Command
    BY NoCommandType
  <1>2. NewGuard \in Guard
    BY <1>1 DEF NewGuard, Guard, Phases, Errors, Modes
  <1>3. TypeOK
    <2>1. <<>> \in Seq(Callers) /\ [c \in Callers |-> NoCommand] \in [Callers -> Command]
      BY <1>1
    <2> QED
      BY <1>1, <1>2, <2>1 DEF Init, TypeOK
  <1>4. \A c \in Callers : cmd[c].at = "idle" /\ cmd[c].tries = 0
    BY DEF Init, NoCommand
  <1>5. HolderInv /\ StopInv
    BY <1>4 DEF HolderInv, StopInv
  <1>6. "guard" \in Callers /\ guard.task = "none" /\ guard.limit = None
    BY DEF Callers, Init, NewGuard
  <1>7. ProtectInv /\ AlarmInv /\ ServeInv /\ PendingInv /\ GuardStopInv
    BY <1>4, <1>6 DEF Init, ProtectInv, AlarmInv, TaskPending, ServeInv, PendingInv, GuardStopInv
  <1>8. GraceInv /\ StartIsSupervised
    BY <1>6 DEF Init, GraceInv, StartIsSupervised
  <1> QED
    BY <1>3, <1>5, <1>7, <1>8 DEF IInv

LEMMA InvStep == IInv /\ [Next]_vars => IInv'
  <1> SUFFICES ASSUME IInv, [Next]_vars PROVE IInv'
    OBVIOUS
  <1>1. /\ TypeOK /\ HolderInv /\ ProtectInv /\ AlarmInv /\ ServeInv /\ PendingInv
        /\ StopInv /\ GuardStopInv /\ GraceInv /\ StartIsSupervised
    BY DEF IInv
  <1>2. TypeOK' /\ HolderInv'
    BY <1>1, TypeStep, HolderStep
  <1>3. ProtectInv' /\ AlarmInv'
    BY <1>1, GuardStep
  <1>4. ServeInv' /\ PendingInv' /\ StopInv'
    BY <1>1, ServeStep, PendingStep, StopStep
  <1>5. GuardStopInv'
    BY <1>1, GuardStopStep
  <1>6. GraceInv' /\ StartIsSupervised'
    BY <1>1, GraceStep, SupervisedStep
  <1> QED
    BY <1>2, <1>3, <1>4, <1>5, <1>6 DEF IInv

\* The inductive invariant: who has the lock, that the task of _protect and its
\* command come and go together, what is known of the last frame while a Stop is
\* awaited, and that every allowance of the guard was asked for recently.
THEOREM TransportInvariant == Spec => []IInv
  BY InitInv, InvStep, PTL DEF Spec

\* All variables keep their types, for any number of users, powers and Stops.
THEOREM TransportTypes == Spec => []TypeOK
  BY TransportInvariant, PTL DEF IInv

\* While a connection's last word is a Start of this host, the guard supervises its
\* load or says that something is wrong (NativeSessionGuard.begin, observe, disarm).
THEOREM StartSupervised == Spec => []StartIsSupervised
  BY TransportInvariant, PTL DEF IInv

\* An alarm whose protective Stop is under way is not cleared by anybody else
\* (NativeSessionGuard.arm and the checks of its callers).
THEOREM AlarmsStay == Spec => AlarmStays
  <1>1. IInv /\ [Next]_vars => KeepsAlarm
    BY GuardStep DEF IInv
  <1>2. IInv /\ [Next]_vars => [TaskPending(guard) => guard'.error # "none"]_vars
    BY <1>1 DEF KeepsAlarm
  <1> QED
    BY <1>2, TransportInvariant, PTL DEF Spec, AlarmStays

\* A frame is written only in the session its command was called in.
LEMMA WriteStep ==
  ASSUME IInv, [Next]_vars, NEW c \in Callers, Writes(c)
  PROVE  Same(c) /\ (cmd'[c].at = "delivery" => ~TaskPending(guard))
  <1> USE DEF session, commands, history
  <1>1. /\ TypeOK /\ PendingInv /\ cmd \in [Callers -> Command] /\ cmd[c] \in Command
        /\ cmd[c].tries \in Nat
    <2>1. TypeOK /\ PendingInv /\ cmd[c] \in Command
      BY DEF IInv, TypeOK
    <2> QED
      BY <2>1, TransportAssumption DEF Command, TypeOK, TransportAssumption
  <1>2. ~(cmd'[c].at = cmd[c].at /\ cmd'[c].tries = cmd[c].tries)
    BY <1>1 DEF Writes
  <1>3. ~(cmd'[c].at \in {"idle", "waiting"} /\ cmd'[c].tries = 0)
    BY <1>1 DEF Writes
  <1>4. ASSUME NEW d \in Callers, Works(d)
        PROVE  Same(c) /\ (cmd'[c].at = "delivery" => ~TaskPending(guard))
    <2>1. d = c
      BY <1>1, <1>2, <1>4, WorkFrame
    <2>2. CASE Ends(c) \/ Delivered(c) \/ Confirmed(c) \/ RecoveryConfirms(c) \/ RecoveryFails(c)
      <3>1. cmd'[c] = NoCommand
        BY <1>1, <2>2 DEF Ends, Refused, Abandoned, Delivered, Confirmed, RecoveryConfirms,
           RecoveryFails, Returned, Released
      <3> QED
        BY <1>3, <3>1 DEF NoCommand
    <2>3. CASE (Acquire(c) /\ ~Refused(c)) \/ PrepareStart(c) \/ RecoveryBegins(c)
      <3>1. /\ cmd'[c].at \in {"quiet", "idleCheck", "recovery"}
            /\ cmd'[c].tries = cmd[c].tries
        BY <1>1, <2>3 DEF Acquire, PrepareStart, RecoveryBegins, Command
      <3> QED
        BY <1>1, <3>1 DEF Writes
    <2>4. CASE Send(c) \/ RestorePower(c) \/ RecoveryStop(c)
      <3>1. cmd'[c].at # "delivery"
        BY <1>1, <2>4 DEF Send, RestorePower, RecoveryStop, AtPlace, Command
      <3> QED
        BY <2>4, <3>1 DEF Send, RestorePower, RecoveryStop, Prepared
    <2>5. CASE Deliver(c)
      BY <2>5 DEF Deliver, Prepared
    <2>6. CASE Retry(c)
      <3>1. cmd'[c].at # "delivery" /\ cmd[c].at = "sent" /\ Head(lock) = c /\ pending = "open"
        BY <1>1, <2>6 DEF Retry, AtPlace, Holds, Command
      <3>2. cmd[c].same /\ latest # None
        BY <1>1, <3>1 DEF PendingInv
      <3> QED
        BY <2>6, <3>1, <3>2 DEF Retry, Same, Available
    <2> QED
      BY <1>4, <2>1, <2>2, <2>3, <2>4, <2>5, <2>6, WorkCases
  <1>5. CASE Connects \/ RegistersAgain \/ SessionEnds \/ GuardCloses \/ PeerLeaves
    <2>1. \/ cmd'[c] \in {cmd[c], [cmd[c] EXCEPT !.same = FALSE]}
          \/ cmd'[c].at = "idle" /\ cmd'[c].tries = 0
      BY <1>1, <1>5, SessionFrame
    <2>2. [cmd[c] EXCEPT !.same = FALSE].at = cmd[c].at
          /\ [cmd[c] EXCEPT !.same = FALSE].tries = cmd[c].tries
      BY <1>1 DEF Command
    <2> QED
      BY <1>2, <1>3, <2>1, <2>2
  <1>6. ASSUME NEW d \in Callers, NEW act, NEW p, NEW m, Called(d, act, p, m)
        PROVE  FALSE
    <2>1. CASE d = c
      <3>1. cmd'[c].at = "waiting" /\ cmd'[c].tries = 0
        BY <1>1, <1>6, <2>1 DEF Called, NoCommand
      <3> QED
        BY <1>3, <3>1
    <2>2. CASE d # c
      BY <1>1, <1>2, <1>6, <2>2 DEF Called
    <2> QED
      BY <2>1, <2>2
  <1>7. CASE Outside
    BY <1>2, <1>6, <1>7 DEF Outside, Calls, GuardCalls, Callers, Reports, ReturnBegins, ReturnEnds,
       ReturnFails, DeadlineFires, Tick
  <1>8. CASE UNCHANGED vars
    BY <1>2, <1>8 DEF vars
  <1> QED
    BY <1>4, <1>5, <1>7, <1>8 DEF Next, Outside

\* "Stop confirmed" is said after a Stop and a report that came after it.
LEMMA ConfirmStep ==
  ASSUME IInv, [Next]_vars, guard'.error = "confirmed", guard.error # "confirmed"
  PROVE  last = "stop" /\ seen
  <1> USE DEF session, commands, history
  <1>1. TypeOK /\ guard \in Guard /\ GuardStopInv /\ StopInv /\ Disarm(guard) \in Guard
    BY GuardTypes DEF IInv, TypeOK
  <1>2. guard' # guard /\ guard'.error # guard.error
    OBVIOUS
  <1>3. ASSUME NEW c \in Callers, Works(c) PROVE last = "stop" /\ seen
    <2>1. CASE Ends(c) \/ (Acquire(c) /\ ~Refused(c)) \/ PrepareStart(c) \/ RestorePower(c)
                 \/ Retry(c) \/ RecoveryStop(c) \/ Delivered(c)
      <3>1. guard' \in {guard, Unprotected(guard)}
        BY <2>1 DEF Ends, Refused, Abandoned, Outcome, Acquire, PrepareStart, RestorePower,
           Retry, RecoveryStop, Delivered, Returned
      <3> QED
        BY <1>1, <1>2, <3>1, GuardLimits
    <2>2. CASE Send(c)
      <3>1. \A h, p : UpdateLimit(h, p).error = h.error
        BY <1>1, GuardTask
      <3>2. \A p, q, m : Adopt(guard, p, q, m).error = "none"
        <4> TAKE p, q, m
        <4>1. [Arm(guard, q) EXCEPT !.mode = m, !.phase = "charging"].error = "none"
          BY <1>1 DEF Arm, Guard
        <4> QED
          BY <3>1, <4>1 DEF Adopt
      <3> QED
        BY <1>2, <2>2, <3>1, <3>2 DEF Send, Supervised
    <2>3. CASE Deliver(c)
      <3>1. guard'.error = "none"
        BY <1>1, <2>3 DEF Deliver, Begin, Arm, Guard
      <3> QED
        BY <3>1
    <2>4. CASE Confirmed(c)
      <3>1. Disarm(guard).error = guard.error
        BY <1>1, GuardTask
      <3>2. c = "guard"
        BY <1>2, <2>4, <3>1 DEF Confirmed, Returned, Outcome
      <3> QED
        BY <1>1, <2>4, <3>2 DEF Confirmed, AtPlace, GuardStopInv
    <2>5. CASE RecoveryConfirms(c)
      <3>1. cmd[c].at = "recovery" /\ cmd[c].same /\ pending = "matched"
        BY <2>5 DEF RecoveryConfirms, AtPlace, Same
      <3> QED
        BY <1>1, <3>1 DEF StopInv
    <2>6. CASE RecoveryBegins(c) \/ RecoveryFails(c)
      <3>1. guard'.error \in {"pending", "unverified"}
        BY <1>1, <2>6 DEF RecoveryBegins, RecoveryFails, Guard
      <3> QED
        BY <3>1
    <2> QED
      BY <1>3, <2>1, <2>2, <2>3, <2>4, <2>5, <2>6, WorkCases
  <1>4. ASSUME NEW g \in Guard, Closes(g) PROVE guard'.error = g.error
    <2>1. CloseThen(g, expected) \in Guard /\ CloseThen(g, expected).error = g.error
      BY <1>1, GuardTypes, GuardTask DEF TypeOK
    <2> QED
      BY <1>4, <2>1 DEF Closes, Guard
  <1>5. CASE SessionEnds \/ GuardCloses
    <2>1. /\ CloseFirst(guard, expected) \in Guard
          /\ CloseFirst(guard, expected).error \in {guard.error, "unverified"}
      <3>1. CloseFirst(guard, expected) \in Guard
        BY <1>1, GuardTypes DEF TypeOK
      <3> QED
        BY <1>1, <3>1 DEF CloseFirst, Guard
    <2> QED
      BY <1>1, <1>2, <1>4, <1>5, <2>1 DEF SessionEnds, GuardCloses
  <1>6. CASE Connects \/ RegistersAgain \/ PeerLeaves \/ Calls \/ ReturnBegins \/ ReturnEnds
               \/ UNCHANGED vars
    BY <1>2, <1>6 DEF Connects, RegistersAgain, PeerLeaves, Calls, ReturnBegins, ReturnEnds, vars
  <1>7. CASE GuardCalls \/ ReturnFails
    BY <1>1, <1>2, <1>7 DEF GuardCalls, ReturnFails, Guard
  <1>8. CASE DeadlineFires \/ Tick \/ (\E r \in Reported : Reports(r))
    <2>1. guard'.error \in {guard.error, "pending"}
      BY <1>1, <1>8, GuardTask DEF DeadlineFires, Tick, Reports
    <2> QED
      BY <1>2, <2>1
  <1> QED
    BY <1>3, <1>5, <1>6, <1>7, <1>8 DEF Next

\* A load that is let pass was asked for recently.
LEMMA ToleratedStep ==
  ASSUME IInv, [Next]_vars, latest' # None, latest'.load > 0, latest' # latest,
         guard'.limit # None, guard'.error = "none"
  PROVE  recent[latest'.load] > 0
  <1> USE DEF session, commands, history
  <1>1. TypeOK /\ GraceInv /\ guard \in Guard
    BY DEF IInv, TypeOK
  <1>2. \A c \in Callers : ~Works(c)
    BY <1>1, WorkFrame
  <1>3. ~(Connects \/ RegistersAgain \/ SessionEnds \/ GuardCloses \/ PeerLeaves)
    BY DEF Connects, RegistersAgain, SessionEnds, GuardCloses, PeerLeaves, Closes, Invalidates
  <1>4. PICK r \in Report : Reports(r)
    BY <1>2, <1>3, TransportAssumption DEF Next, Calls, GuardCalls, Called, ReturnBegins, ReturnEnds,
       ReturnFails, DeadlineFires, Tick, vars, TransportAssumption
  <1>5. guard' = AfterReport(guard, r) /\ latest' = r
    BY <1>4 DEF Reports
  <1>6. guard.limit # None /\ guard.error = "none"
    <2>1. guard.limit = None \/ guard.error # "none" => guard' = guard
      BY <1>5 DEF AfterReport
    <2> QED
      BY <2>1
  <1>7. ~TooHigh(guard, r.load)
    <2>1. TooHigh(guard, r.load) => guard' = Latch(guard)
      BY <1>5, <1>6 DEF AfterReport
    <2>2. Latch(guard).error = "pending"
      BY <1>1, GuardTask
    <2> QED
      BY <2>1, <2>2
  <1>8. /\ r.load \in Powers /\ Powers \subseteq Int /\ Grace \in Nat \ {0}
        /\ guard.limit \in Powers /\ \A p \in Powers : guard.settling[p] \in 0..Grace
        /\ recent[r.load] \in 0..Grace
    <2>1. r.load \in Powers
      BY <1>5, GuardAssumption DEF Report, Powers, GuardAssumption
    <2> QED
      BY <1>1, <1>6, <2>1, GuardAssumption DEF TypeOK, Guard, Powers, GuardAssumption
  <1>9. CASE r.load <= guard.limit
    <2>1. recent[r.load] = Grace
      BY <1>1, <1>6, <1>8, <1>9 DEF GraceInv
    <2> QED
      BY <1>5, <1>8, <2>1
  <1>10. CASE \E p \in Powers : guard.settling[p] > 0 /\ r.load <= p
    <2>1. PICK p \in Powers : guard.settling[p] > 0 /\ r.load <= p
      BY <1>10
    <2>2. recent[r.load] >= guard.settling[p]
      BY <1>1, <1>6, <1>8, <2>1 DEF GraceInv
    <2> QED
      BY <1>5, <1>8, <2>1, <2>2
  <1>11. CASE r.load > guard.limit
    <2>1. PICK p \in Powers : guard.settling[p] > 0 /\ ~(r.load > p)
      BY <1>7, <1>11 DEF TooHigh
    <2>2. p \in Int /\ r.load \in Int
      BY <1>8
    <2>3. r.load <= p
      BY <2>1, <2>2
    <2> QED
      BY <1>10, <2>1, <2>3
  <1>12. CASE ~(r.load > guard.limit)
    <2>1. r.load \in Int /\ guard.limit \in Int
      BY <1>8
    <2>2. r.load <= guard.limit
      BY <1>12, <2>1
    <2> QED
      BY <1>9, <2>2
  <1> QED
    BY <1>11, <1>12

\* A frame goes only to the session in which its command was called, and a Start
\* never while a protective Stop is due (async_command, _prepare_start).
THEOREM FramesStayInSession == Spec => WrittenInSession
  <1>1. ASSUME IInv, [Next]_vars
        PROVE  \A c \in Callers : Writes(c) =>
                  /\ Same(c)
                  /\ cmd'[c].at = "delivery" => ~TaskPending(guard)
    BY <1>1, WriteStep
  <1>2. IInv /\ [Next]_vars =>
          [\A c \in Callers : Writes(c) =>
              /\ Same(c)
              /\ cmd'[c].at = "delivery" => ~TaskPending(guard)]_vars
    BY <1>1
  <1> QED
    BY <1>2, TransportInvariant, PTL DEF Spec, WrittenInSession

\* "Stop confirmed" follows a Stop and a report of a stopped wallbox after it
\* (_stop_failed_start, NativeSessionGuard._protect).
THEOREM ConfirmationsFollowStops == Spec => ConfirmedAfterStop
  <1> DEFINE A == guard'.error = "confirmed" /\ guard.error # "confirmed" => last = "stop" /\ seen
  <1>1. IInv /\ [Next]_vars => [A]_vars
    BY ConfirmStep
  <1> QED
    BY <1>1, TransportInvariant, PTL DEF Spec, ConfirmedAfterStop

\* A load that the guard lets pass was asked for within the time of a reduction
\* (NativeSessionGuard.update_limit, observe).
THEOREM TolerancesAreRecent == Spec => ToleratedIsRecent
  <1> DEFINE A == (latest' # None /\ latest'.load > 0 /\ latest' # latest /\ guard'.limit # None
                     /\ guard'.error = "none") => recent[latest'.load] > 0
  <1>1. IInv /\ [Next]_vars => [A]_vars
    BY ToleratedStep
  <1> QED
    BY <1>1, TransportInvariant, PTL DEF Spec, ToleratedIsRecent
=============================================================================

---------------------------- MODULE SessionGuard ----------------------------
(***************************************************************************)
(* native_session_guard.py: the supervision of measured power after a        *)
(* Start.  A guard is a record; each method of NativeSessionGuard is an      *)
(* operator that returns the guard after it.  NativeTransport runs them.     *)
(*                                                                         *)
(* Powers are small numbers with the 0.5 kW of tolerance taken off: a load   *)
(* is too high when it is greater than the ceiling.  "settling" says for how *)
(* long, in units of time, a former limit is still allowed.                  *)
(***************************************************************************)
EXTENDS Integers

CONSTANTS MaxPower, None,
          Grace       \* how long a reduction may take: reduction_grace, 10 s

Powers == 1..MaxPower
Fast   == 0
PV     == 1
Modes  == {Fast, PV}

\* What the wallbox reports.
Report == {r \in [state : {0, 2, 3}, mode : Modes, limit : Powers, load : 0..MaxPower] :
             r.load > 0 => r.state = 2}

ASSUME GuardAssumption ==
    /\ MaxPower \in Nat \ {0} /\ Grace \in Nat \ {0}
    /\ None \notin Int \cup Report

Stopped(r)  == r.state \in {0, 3} /\ r.load = 0
Charging(r) == r.state = 2 /\ r.load > 0

\* "pending": a Stop is due; "unverified": it failed, or supervision was cut off.
Errors == {"none", "pending", "confirmed", "unverified"}
Phases == {"idle", "starting", "waiting", "charging", "stopping", "stopped",
           "unverified", "handover"}
Supervising == {"starting", "waiting", "charging"}

Guard == [limit    : Powers \cup {None},
          settling : [Powers -> 0..Grace],
          phase    : Phases,
          error    : Errors,
          mode     : Modes,
          task     : {"none", "created", "running", "over"},   \* _protect
          deadline : {"none", "running", "over"}]               \* _wait_for_charging

NoGrace == [p \in Powers |-> 0]

NewGuard == [limit |-> None, settling |-> NoGrace, phase |-> "idle", error |-> "none",
             mode |-> Fast, task |-> "none", deadline |-> "none"]

TaskPending(g) == g.task \in {"created", "running"}

Cancelled(deadline) == IF deadline = "none" THEN "none" ELSE "over"

\* Mutant: what an earlier session allowed is kept.
ArmKeepsGrace(g, power) ==
    [g EXCEPT !.limit = power, !.error = "none", !.mode = Fast, !.deadline = Cancelled(@)]

\* arm raises while a protective Stop is pending; its callers look first.
Arm(g, power) ==
    [g EXCEPT !.limit = power, !.settling = NoGrace, !.error = "none", !.mode = Fast,
              !.deadline = Cancelled(@)]

Begin(g, power, mode) ==
    [Arm(g, power) EXCEPT
        !.mode = mode,
        !.phase = IF mode = Fast THEN "starting" ELSE "waiting",
        !.deadline = IF mode = Fast THEN "running" ELSE @]

UpdateLimit(g, power) ==
    IF g.limit \in {None, power} THEN g
    ELSE [g EXCEPT !.limit = power,
                   !.settling[g.limit] = IF power < g.limit THEN Grace ELSE @]

Adopt(g, power, ceiling, mode) ==
    UpdateLimit([Arm(g, ceiling) EXCEPT !.mode = mode, !.phase = "charging"], power)

Disarm(g) == [g EXCEPT !.limit = None, !.deadline = Cancelled(@), !.phase = "stopped"]

TooHigh(g, load) == load > g.limit /\ \A p \in Powers : g.settling[p] > 0 => load > p

\* report_issue and the task that will ask for the Stop.
Latch(g) == [g EXCEPT !.phase = "stopping", !.error = "pending", !.task = "created",
                      !.deadline = Cancelled(@)]

\* Mutant: a pause is taken for the end.
EndedByPause(g, r) == g.mode = Fast /\ r.mode = Fast /\ Stopped(r)

Ended(g, r) == g.mode = Fast /\ r.mode = Fast /\ r.state = 3 /\ Stopped(r)

AfterReport(g, r) ==
    IF g.limit = None \/ g.error # "none" THEN g
    ELSE IF TooHigh(g, r.load) THEN Latch(g)
    ELSE IF g.phase \in {"starting", "waiting"} /\ Charging(r)
         THEN [g EXCEPT !.phase = "charging", !.deadline = Cancelled(@)]
    ELSE IF g.phase = "charging" /\ Ended(g, r) THEN Disarm(g)
    ELSE IF g.phase = "charging" /\ g.mode # Fast /\ r.load = 0
         THEN [g EXCEPT !.phase = "waiting"]
    ELSE g

\* Mutant: only PV would be given up.
DeadlineOverWaiting(g) ==
    IF g.phase = "waiting" /\ g.error = "none" /\ g.limit # None
    THEN Latch(g) ELSE [g EXCEPT !.deadline = "over"]

\* _wait_for_charging after its sleep.
DeadlineOver(g) ==
    IF g.phase = "starting" /\ g.error = "none" /\ g.limit # None
    THEN Latch(g) ELSE [g EXCEPT !.deadline = "over"]

\* The end of _protect, by what its Stop came to.
Protected(g)   == [g EXCEPT !.phase = "stopped", !.limit = None, !.error = "confirmed",
                            !.task = "over"]
Unprotected(g) == [g EXCEPT !.phase = "unverified", !.error = "unverified", !.task = "over"]

\* close, up to its first await and after it.
CloseFirst(g, expected) ==
    [g EXCEPT !.error = IF /\ g.limit # None
                           /\ TaskPending(g) \/ (g.error = "none" /\ ~expected)
                        THEN "unverified" ELSE @,
              !.limit = None, !.deadline = Cancelled(@)]

CloseThen(g, expected) ==
    [g EXCEPT !.phase = IF g.phase \in Supervising \cup {"stopping"}
                        THEN IF expected /\ g.error = "none" THEN "handover" ELSE "unverified"
                        ELSE @]

Aged(g) == [g EXCEPT !.settling = [p \in Powers |-> IF @[p] > 0 THEN @[p] - 1 ELSE 0]]
=============================================================================

--------------------------- MODULE ControlIntent ---------------------------
(***************************************************************************)
(* native_intent.py and native_control_fallback.py: controls that cannot be  *)
(* carried out at once are kept, the newest of each kind, and carried out by *)
(* one background task; a control of the cloud first looks whether the cloud *)
(* answers, and moves the wallbox to TCP when it does not; a control that    *)
(* failed is taken to TCP when that is known to be safe.                     *)
(*                                                                         *)
(* A control has a number: a higher one was chosen later.  What a control    *)
(* does on a transport is the charging policy's part; here it ends in one of *)
(* the ways the policy may end.  The route moves at any time, by the user or *)
(* by the automatic fallback.                                                *)
(***************************************************************************)
EXTENDS Integers, Sequences

CONSTANTS None,
          Choices,      \* [key, value]: what a user may choose
          MaxChoices,   \* bound: controls that are kept
          MaxMoves      \* bound: changes of the route by others

Keys == {"charging", "mode", "power"}
Numbers == 1..MaxChoices
Control == [n : Numbers, key : Keys, value : BOOLEAN]
Stop(c)  == c # None /\ c.key = "charging" /\ ~c.value
Start(c) == c # None /\ c.key = "charging" /\ c.value

IntentConstants ==
    /\ MaxChoices \in Nat /\ MaxMoves \in Nat
    /\ Choices \subseteq [key : Keys, value : BOOLEAN]
    /\ None \notin Control

VARIABLES pending,    \* [Keys -> Control or None]
          version,    \* the number of the newest control that was kept
          newest,     \* [Keys -> Nat]: the same for each key
          deadline,   \* batch_deadline: none, running, over
          error,      \* none, or why pending controls were discarded
          task,       \* _run: what it is doing, with what, since which version
          preparing,  \* ControlFallback._prepare: where it is
          route,      \* what the coordinator knows of its transport
          able,       \* the automatic fallback is enabled, not paused, not blocked
          rests,      \* next_attempt is in the future
          closed,     \* no, closing, yes
          sent,       \* [Numbers -> sequence of routes it may have been carried out on]
          moves

vars == <<pending, version, newest, deadline, error, task, preparing, route, able,
          rests, closed, sent, moves>>

Steps == {"none", "waiting", "operation", "reconcile", "queued", "moving", "refresh",
          "status", "again"}
Prepares == {"none", "read", "queued", "moving", "refresh"}
NoTask  == [at |-> "none", control |-> None, version |-> 0, epoch |-> 0]
NotPreparing == [at |-> "none", epoch |-> 0]
Idle == [task EXCEPT !.at = "waiting", !.control = None, !.version = 0, !.epoch = 0]
Nothing == [k \in Keys |-> None]

TypeOK ==
    /\ pending \in [Keys -> Control \cup {None}]
    /\ \A k \in Keys : pending[k] # None => pending[k].key = k
    /\ version \in 0..MaxChoices /\ newest \in [Keys -> 0..MaxChoices]
    /\ deadline \in {"none", "running", "over"}
    /\ error \in {"none", "expired", "failed", "handover"}
    /\ task \in [at : Steps, control : Control \cup {None}, version : 0..MaxChoices, epoch : Nat]
    /\ preparing \in [at : Prepares, epoch : Nat]
    /\ route \in [local : BOOLEAN, moving : BOOLEAN, waiting : BOOLEAN, fresh : BOOLEAN, epoch : Nat]
    /\ able \in BOOLEAN /\ rests \in BOOLEAN /\ closed \in {"no", "closing", "yes"}
    /\ sent \in [Numbers -> Seq({"cloud", "tcp"})]
    /\ moves \in 0..MaxMoves

Init ==
    /\ pending = Nothing /\ version = 0 /\ newest = [k \in Keys |-> 0] /\ deadline = "none"
    /\ error = "none" /\ task = NoTask /\ preparing = NotPreparing
    /\ route \in [local : BOOLEAN, moving : {FALSE}, waiting : {FALSE}, fresh : {TRUE}, epoch : {0}]
    /\ able \in BOOLEAN /\ rests = FALSE /\ closed = "no"
    /\ sent = [n \in Numbers |-> << >>] /\ moves = 0

Blackout == preparing.at # "none" \/ route.moving \/ (~route.local /\ route.waiting)
Ready == ~Blackout /\ route.fresh /\ closed = "no"
Pending == \E k \in Keys : pending[k] # None
Executing == task.control # None
Given == Pending \/ Executing

-----------------------------------------------------------------------------
(* Choices.                                                                  *)

\* A choice that is already pending, or a Start that is under way unfenced.
Known(c) ==
    \/ pending[c.key] # None /\ pending[c.key].value = c.value
    \/ Start(c) /\ Start(task.control) /\ task.version = version

\* The newest choice is kept, and the older preparation of the policy is fenced.
Keep(c) ==
    IF Known(c)
    THEN UNCHANGED <<pending, version, newest, deadline, error, task>>
    ELSE /\ pending' = [pending EXCEPT ![c.key] = c]
         /\ version' = c.n /\ newest' = [newest EXCEPT ![c.key] = c.n]
         /\ deadline' = IF deadline = "none" THEN "running" ELSE deadline
         /\ error' = "none"
         /\ task' = IF task.at = "none" THEN [NoTask EXCEPT !.at = "waiting"] ELSE task

Chosen == {[n |-> version + 1, key |-> x.key, value |-> x.value] : x \in Choices}

\* LatestIntent.submit, called when ControlFallback.submit declined.
Submit ==
    /\ closed = "no" /\ version < MaxChoices /\ (Blackout \/ Given)
    /\ \E c \in Chosen : Keep(c)
    /\ UNCHANGED <<preparing, route, able, rests, closed, sent, moves>>

\* ControlFallback.submit: a control of the cloud waits for a look at it.
SubmitToCloud ==
    /\ closed = "no" /\ version < MaxChoices /\ ~route.local /\ able /\ ~Blackout /\ ~Given
    /\ \E c \in Chosen : Keep(c)
    /\ preparing' = [at |-> "read", epoch |-> route.epoch]
    /\ UNCHANGED <<route, able, rests, closed, sent, moves>>

-----------------------------------------------------------------------------
(* LatestIntent._run.                                                        *)

Discard(why) == pending' = Nothing /\ deadline' = "none" /\ error' = why

Order == <<"power", "mode", "charging">>
LocalOrder == <<"mode", "power", "charging">>
First(order) == LET i == CHOOSE i \in 1..3 : /\ pending[order[i]] # None
                                             /\ \A j \in 1..(i - 1) : pending[order[j]] = None
                IN  order[i]
NextKey == IF Stop(pending["charging"]) THEN "charging"
           ELSE First(IF route.local THEN LocalOrder ELSE Order)

TaskWaits == task.at = "waiting" /\ closed = "no"

Expire ==
    /\ TaskWaits /\ Pending /\ deadline = "over"
    /\ Discard("expired") /\ task' = NoTask
    /\ UNCHANGED <<version, newest, preparing, route, able, rests, closed, sent, moves>>

\* A control leaves the pending ones before it is carried out.
Execute ==
    /\ TaskWaits /\ Pending /\ deadline # "over" /\ Ready
    /\ pending' = [pending EXCEPT ![NextKey] = None]
    /\ task' = [at |-> "operation", control |-> pending[NextKey], version |-> version,
                epoch |-> route.epoch]
    /\ UNCHANGED <<version, newest, deadline, error, preparing, route, able, rests, closed, sent, moves>>

RunEnds ==
    /\ TaskWaits /\ ~Pending
    /\ task' = NoTask /\ deadline' = "none"
    /\ UNCHANGED <<pending, version, newest, error, preparing, route, able, rests, closed, sent, moves>>

\* Mutant: a failure discards everything, a newer Stop too.
FailsAltogether == Discard("failed") /\ task' = NoTask

\* What failed may have reached the wallbox: only a newer Stop is still carried out.
Fails ==
    IF Stop(pending["charging"])
    THEN /\ pending' = [Nothing EXCEPT !["charging"] = pending["charging"]]
         /\ error' = "failed" /\ task' = Idle /\ UNCHANGED deadline
    ELSE Discard("failed") /\ task' = NoTask

Succeeds == task' = Idle /\ UNCHANGED <<pending, deadline, error>>

\* Mutant: a Start that was given up for newer choices always waits again.
RetainedAlways ==
    IF Start(task.control) THEN [pending EXCEPT !["charging"] = task.control] ELSE pending

\* A Start given up for a newer power waits again; a newer mode or Stop ends it.
Retained ==
    IF Start(task.control) /\ pending["charging"] = None /\ pending["mode"] = None
    THEN [pending EXCEPT !["charging"] = task.control] ELSE pending

\* Superseded, which a typed error says: certainly not carried out.
Superseded ==
    /\ task.at = "operation"
    /\ IF task.version # version /\ Pending
       THEN pending' = Retained /\ task' = Idle /\ UNCHANGED <<deadline, error>>
       ELSE Fails
    /\ UNCHANGED <<version, newest, preparing, route, able, rests, closed, sent, moves>>

Here == IF route.local THEN "tcp" ELSE "cloud"
CarriedOut == sent' = [sent EXCEPT ![task.control.n] = Append(@, Here)]

\* A change of the route takes the policy's lock and fences what waits for it; only
\* a Stop goes on, on whichever route there is then.
Unfenced == ~route.moving /\ (route.epoch = task.epoch \/ Stop(task.control))
MayBeDone == \/ Unfenced /\ CarriedOut
             \/ UNCHANGED sent

Completed ==
    /\ task.at \in {"operation", "again"} /\ Unfenced
    /\ CarriedOut /\ Succeeds
    /\ UNCHANGED <<version, newest, preparing, route, able, rests, closed, moves>>

\* The operation of a recovery raises the translated error, which is not known there
\* for what it is: a control overtaken by newer ones counts as failed.
SupersededAgain ==
    /\ task.at = "again" /\ task.version # version
    /\ Fails
    /\ UNCHANGED <<version, newest, preparing, route, able, rests, closed, sent, moves>>

\* A failure that says nothing, or comes from a recovery.
Failed ==
    /\ task.at \in {"operation", "again"}
    /\ MayBeDone /\ Fails
    /\ UNCHANGED <<version, newest, preparing, route, able, rests, closed, moves>>

MayRecover == ~route.local /\ able
Recover(at) == task' = [task EXCEPT !.at = at, !.epoch = route.epoch]
                /\ UNCHANGED <<pending, deadline, error>>

\* Whether a newer choice, a move, an expiry or a close ended the recovery.
Current ==
    /\ closed = "no" /\ ~route.moving /\ route.epoch = task.epoch
    /\ task.version = version /\ able /\ deadline = "running"

\* RequestSuperseded from a recovery: newer choices are next, if there are any.
GivesWay ==
    IF Pending THEN task' = Idle /\ UNCHANGED <<pending, deadline, error>> ELSE Fails

StillCurrent ==
    task.version = version /\ deadline = "running" /\ ~route.moving /\ closed = "no"

\* The policy found the cloud unable before it sent anything.
Unsent ==
    /\ task.at = "operation" /\ ~route.local
    /\ IF ~MayRecover THEN Fails
       ELSE IF StillCurrent THEN (IF rests THEN Fails ELSE Recover("queued")) ELSE GivesWay
    /\ UNCHANGED <<version, newest, preparing, route, able, rests, closed, sent, moves>>

\* Mutant: an unknown outcome of any control is taken to TCP.
UncertainOfAll ==
    /\ task.at = "operation" /\ ~route.local
    /\ MayBeDone
    /\ IF ~MayRecover THEN Fails
       ELSE IF StillCurrent THEN (IF rests THEN Fails ELSE Recover("queued")) ELSE GivesWay
    /\ UNCHANGED <<version, newest, preparing, route, able, rests, closed, moves>>

\* A Start or Stop was sent and nobody knows what became of it.
Uncertain ==
    /\ task.at = "operation" /\ ~route.local /\ task.control.key = "charging"
    /\ MayBeDone
    /\ IF ~MayRecover THEN Fails
       ELSE IF ~StillCurrent THEN GivesWay
       ELSE IF Start(task.control) THEN Recover("reconcile")
       ELSE IF rests THEN Fails ELSE Recover("queued")
    /\ UNCHANGED <<version, newest, preparing, route, able, rests, closed, moves>>

-----------------------------------------------------------------------------
(* ControlFallback.recover_control, a check before each of its steps.        *)

\* Readback shows within 15 seconds what the Start did, or does not.
Reconcile ==
    /\ task.at = "reconcile"
    /\ IF ~Current THEN GivesWay
       ELSE \/ route.fresh /\ Succeeds
            \/ ~rests /\ Recover("queued")
            \/ rests /\ Fails
    /\ UNCHANGED <<version, newest, preparing, route, able, rests, closed, sent, moves>>

\* _set_local, from its first step to its last; a takeover that fails is a handover
\* back to the cloud.
Depart == route' = [route EXCEPT !.moving = TRUE, !.fresh = FALSE, !.epoch = @ + 1]
Arrive(local) == route' = [route EXCEPT !.local = local, !.moving = FALSE, !.waiting = ~local]

\* The handover got the policy's lock; the policy may refuse it for a newer choice.
Moves ==
    /\ task.at = "queued"
    /\ \/ /\ Current
          /\ rests' = TRUE /\ Depart
          /\ task' = [task EXCEPT !.at = "moving"] /\ UNCHANGED <<pending, deadline, error>>
       \/ ~Current /\ GivesWay /\ UNCHANGED <<route, rests>>
    /\ UNCHANGED <<version, newest, preparing, able, closed, sent, moves>>

Moved ==
    /\ task.at = "moving"
    /\ \/ /\ Arrive(TRUE)
          /\ IF task.version = version /\ able /\ deadline = "running"
             THEN /\ task' = [task EXCEPT !.at = "refresh", !.epoch = route.epoch]
                  /\ UNCHANGED <<pending, deadline, error>>
             ELSE GivesWay
       \/ Arrive(FALSE) /\ Fails
    /\ UNCHANGED <<version, newest, preparing, able, rests, closed, sent, moves>>

Refreshed ==
    /\ task.at = "refresh"
    /\ \/ /\ Current /\ \E fresh \in BOOLEAN : route' = [route EXCEPT !.fresh = fresh]
          /\ IF route'.fresh /\ route.local
             THEN task' = [task EXCEPT !.at = "status"] /\ UNCHANGED <<pending, deadline, error>>
             ELSE Fails
       \/ ~Current /\ GivesWay /\ UNCHANGED route
    /\ rests' = (rests \/ (Current /\ route'.fresh))
    /\ UNCHANGED <<version, newest, preparing, able, closed, sent, moves>>

\* The status over TCP: done already, safe to do, or neither.
Status ==
    /\ task.at = "status"
    /\ \/ ~Current /\ GivesWay
       \/ /\ Current
          /\ \/ task' = [task EXCEPT !.at = "again"] /\ UNCHANGED <<pending, deadline, error>>
             \/ task.control.key = "charging" /\ Succeeds
             \/ Fails
    /\ UNCHANGED <<version, newest, preparing, route, able, rests, closed, sent, moves>>

-----------------------------------------------------------------------------
(* ControlFallback._prepare.                                                 *)

PrepareCurrent ==
    /\ closed = "no" /\ ~route.local /\ ~route.moving /\ route.epoch = preparing.epoch
    /\ able /\ Pending /\ deadline = "running"

\* Mutant: a preparation that fails leaves the gate shut.
PrepareFailsShut == UNCHANGED preparing /\ Discard("handover")

\* Whatever ends it opens the gate that keeps controls from being carried out.
Prepared == preparing' = NotPreparing
PrepareFails == Prepared /\ Discard("handover")

\* The cloud answers, does not, or says something that excludes a handover.
PrepareRead ==
    /\ preparing.at = "read"
    /\ \/ PrepareCurrent /\ Prepared /\ UNCHANGED <<pending, deadline, error, able>>
       \/ /\ PrepareCurrent /\ ~rests /\ preparing' = [preparing EXCEPT !.at = "queued"]
          /\ UNCHANGED <<pending, deadline, error, able>>
       \/ PrepareFails /\ able' \in {able, FALSE}
    /\ UNCHANGED <<version, newest, task, route, rests, closed, sent, moves>>

\* The lock may be late; newer choices only make it wait again.
PrepareMoves ==
    /\ preparing.at = "queued"
    /\ \/ /\ PrepareCurrent
          /\ rests' = TRUE /\ Depart
          /\ preparing' = [preparing EXCEPT !.at = "moving"] /\ UNCHANGED <<pending, deadline, error>>
       \/ PrepareFails /\ UNCHANGED <<route, rests>>
    /\ UNCHANGED <<version, newest, task, able, closed, sent, moves>>

PrepareMoved ==
    /\ preparing.at = "moving"
    /\ \/ /\ Arrive(TRUE)
          /\ preparing' = [preparing EXCEPT !.at = "refresh"] /\ UNCHANGED <<pending, deadline, error>>
       \/ Arrive(FALSE) /\ PrepareFails
    /\ UNCHANGED <<version, newest, task, able, rests, closed, sent, moves>>

PrepareVerified ==
    /\ preparing.at = "refresh"
    /\ \E fresh \in BOOLEAN : route' = [route EXCEPT !.fresh = fresh]
    /\ IF route.local /\ route'.fresh
       THEN Prepared /\ rests' = TRUE /\ UNCHANGED <<pending, deadline, error>>
       ELSE PrepareFails /\ UNCHANGED rests
    /\ UNCHANGED <<version, newest, task, able, closed, sent, moves>>

-----------------------------------------------------------------------------
(* Everything else.                                                          *)

DeadlineOver ==
    /\ deadline = "running" /\ deadline' = "over"
    /\ UNCHANGED <<pending, version, newest, error, task, preparing, route, able, rests, closed, sent, moves>>

RestOver ==
    /\ rests /\ rests' = FALSE
    /\ UNCHANGED <<pending, version, newest, deadline, error, task, preparing, route, able, closed, sent, moves>>

OurMove == task.at = "moving" \/ preparing.at = "moving"

\* The user or the automatic fallback moves the route; the user also pauses it.
RouteMoves ==
    /\ ~route.moving /\ moves < MaxMoves /\ closed = "no"
    /\ Depart /\ able' \in {able, FALSE}
    /\ moves' = moves + 1
    /\ UNCHANGED <<pending, version, newest, deadline, error, task, preparing, rests, closed, sent>>

RouteMoved ==
    /\ route.moving /\ ~OurMove
    /\ \E local \in BOOLEAN : Arrive(local)
    /\ UNCHANGED <<pending, version, newest, deadline, error, task, preparing, able, rests, closed, sent, moves>>

\* A poll: fresh data, which on the cloud end the wait after a handover, or none.
Poll ==
    /\ ~route.moving
    /\ \/ route' = [route EXCEPT !.fresh = TRUE, !.waiting = FALSE]
       \/ moves < MaxMoves /\ route' = [route EXCEPT !.fresh = FALSE]
    /\ moves' = IF route'.fresh THEN moves ELSE moves + 1
    /\ UNCHANGED <<pending, version, newest, deadline, error, task, preparing, able, rests, closed, sent>>

\* Closing discards what is pending and cancels both tasks.
Close ==
    /\ closed = "no" /\ closed' = "closing" /\ pending' = Nothing
    /\ UNCHANGED <<version, newest, deadline, error, task, preparing, route, able, rests, sent, moves>>

\* A cancelled handover leaves the route as far as it came.
Closed ==
    /\ closed = "closing" /\ closed' = "yes"
    /\ pending' = Nothing /\ task' = NoTask /\ deadline' = "none" /\ preparing' = NotPreparing
    /\ IF OurMove THEN Arrive(FALSE) ELSE UNCHANGED route
    /\ UNCHANGED <<version, newest, error, able, rests, sent, moves>>

TaskStep == \/ Expire \/ Execute \/ RunEnds
            \/ Superseded \/ SupersededAgain \/ Completed \/ Failed \/ Unsent \/ Uncertain
            \/ Reconcile \/ Moves \/ Moved \/ Refreshed \/ Status
PrepareStep == PrepareRead \/ PrepareMoves \/ PrepareMoved \/ PrepareVerified

Next == \/ Submit \/ SubmitToCloud \/ TaskStep \/ PrepareStep
        \/ DeadlineOver \/ RestOver \/ RouteMoves \/ RouteMoved \/ Poll \/ Close \/ Closed

\* Tasks run, budgets end, moves end, and clocks go on.
Fairness == /\ WF_vars(TaskStep) /\ WF_vars(PrepareStep) /\ WF_vars(DeadlineOver)
            /\ WF_vars(RouteMoved) /\ WF_vars(Closed)

Spec == Init /\ [][Next]_vars /\ Fairness

-----------------------------------------------------------------------------
(* Properties.                                                               *)

\* A control that may have been carried out is carried out again only when it is a
\* Start or Stop whose fate the cloud left open, once more, and a Start only over
\* TCP: no setting is written twice, and no Start repeated on the route that lost it,
\* whatever moved the route between the command, its recovery and the second one.
AgainOnlyOverTCP ==
    [][\A n \in Numbers : Len(sent'[n]) > Len(sent[n]) =>
           \/ sent[n] = << >>
           \/ /\ sent[n] = <<"cloud">> /\ task.control.key = "charging"
              /\ Here = "tcp" \/ Stop(task.control)]_vars

\* Nothing the user has replaced is begun: neither by the queue, nor when a Start
\* comes back to it, nor by a recovery that has waited for a report or a handover.
NewestCarriedOut ==
    [][task'.at \in {"operation", "again"} /\ task'.at # task.at =>
           newest[task'.control.key] = task'.control.n]_vars

\* A pending Stop is carried out, replaced by the user, or ends with its batch, its
\* route or the entry: no failure of another control takes it along.
StopKept ==
    [][Stop(pending["charging"]) /\ pending'["charging"] # pending["charging"] =>
           \/ task'.control = pending["charging"]
           \/ newest'["charging"] > pending["charging"].n
           \/ deadline = "over" \/ error' = "handover" \/ closed' # "no"]_vars

\* Every control that is kept ends, and so does the look at the cloud: no gate
\* between the two tasks stays shut.
ChoicesEnd == Given \/ preparing.at # "none" ~> ~Given /\ preparing.at = "none"

\* A control given up because newer ones were chosen, which is known to have delivered
\* nothing, leaves the newer ones pending.  (Violated: after a recovery it does not.)
LatestPreserved ==
    [][(Superseded \/ SupersededAgain) /\ task.version # version =>
           \A k \in Keys : pending[k] # None => pending'[k] = pending[k]]_vars
=============================================================================

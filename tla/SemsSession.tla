---------------------------- MODULE SemsSession ----------------------------
(***************************************************************************)
(* sems_api.py with cloud_rate_limit.py, cloud_observation.py,               *)
(* minimum_power.py and mode_parameters.py: one SemsApi shared by polls,     *)
(* controls, push discovery and configuration, each in an executor thread.   *)
(*                                                                         *)
(* The reentrant lock makes a call run alone, but not at once: "job" is the  *)
(* call that owns the lock, at one of the requests it needs.  A request is   *)
(* sent and answered in two steps, with what the server may say or lose in   *)
(* between.  A write that may have reached the charger is "afloat" and takes *)
(* effect, or is lost, later; the cloud hands writes on in the order it got  *)
(* them and reports the settings the charger has.                            *)
(***************************************************************************)
EXTENDS Integers, Sequences

CONSTANTS None,
          Calls,      \* 1..n: the calls of SemsApi, in the order they are made
          Requests,   \* what each call may ask
          Accounts,   \* credentials
          First,      \* the settings of the charger at the start
          Attempts,   \* reads of the configuration in one get_data_gen2
          Rounds      \* reads of a state that is not coherent yet

Fields == {"mode", "energy", "soc", "floor"}
Values == 0..1
Settings == [Fields -> Values]
Partial  == [Fields -> Values \cup {None}]
Fast == 0

Reads   == {"status", "detail", "session", "hint", "device", "chargers", "stations",
            "authentication"}
Tracked == {"mode", "edit", "floor"}     \* compound writes through set-mode
Writes  == Tracked \cup {"config", "command"}
Kinds   == Reads \cup Writes \cup {"replace", "close"}
Request == [kind : Kinds, vals : Partial]

Answers == {"done", "refused", "unsure"}
Steps == {"legacy", "stations", "equipment", "session", "detail", "write",
          "hint", "device", "chargers", "authentication"}
NeedPlant == {"equipment", "session", "detail", "write"}
Timers == {"login", "gate", "legacy", "telemetry"}

ASSUME SessionAssumption ==
    /\ Calls \subseteq Nat \ {0}
    /\ Requests \in [Calls -> SUBSET Request]
    /\ First \in Settings
    /\ Attempts \in Nat \ {0} /\ Rounds \in Nat \ {0}
    /\ None \notin Int \cup Accounts /\ None \notin Partial

VARIABLES call,      \* [Calls -> Request or None]
          status,    \* idle, waiting for the lock, running, or the answer
          job,       \* the call that holds the lock, and where it is
          account,   \* _username, _password
          token,     \* _web_token: the account whose session it is
          rejected,  \* _web_login_auth_error
          rests,     \* the delays that are running
          plant,     \* _plant_id is known
          pending,   \* _pending_mode_edits: what was sent and is not confirmed
          cancel,    \* _detail_retry_cancel
          closed,    \* _closed
          settings,  \* what the charger does
          afloat,    \* set-mode writes that may still take effect, in order
          sent       \* [Calls -> Nat]: writes that may have taken effect

server == <<settings, afloat, sent>>
session == <<account, token, rejected, rests, plant>>
vars == <<call, status, job, session, pending, cancel, closed, server>>

NoJob == [call |-> 0, step |-> "none", then |-> "none", at |-> "none", as |-> None,
          renewed |-> FALSE, tries |-> 0, round |-> 0, whole |-> TRUE,
          read |-> None, vals |-> None]

TypeOK ==
    /\ call \in [Calls -> Request \cup {None}]
    /\ status \in [Calls -> {"idle", "waiting", "running"} \cup Answers]
    /\ job \in [call : {0} \cup Calls, step : Steps \cup {"none"}, then : Steps \cup {"none"},
                at : {"none", "send", "original", "common", "out", "pause"},
                as : Accounts \cup {None}, renewed : BOOLEAN, tries : 0..Attempts,
                round : 0..Rounds, whole : BOOLEAN, read : Settings \cup {None},
                vals : Partial \cup {None}]
    /\ account \in Accounts /\ token \in Accounts \cup {None} /\ rejected \in BOOLEAN
    /\ rests \subseteq Timers /\ plant \in BOOLEAN /\ cancel \in BOOLEAN /\ closed \in BOOLEAN
    /\ pending \in Partial \cup {None} /\ settings \in Settings
    /\ afloat \in Seq([asked : SUBSET Fields, vals : Partial])
    /\ sent \in [Calls -> Nat]

Init ==
    /\ call = [c \in Calls |-> None] /\ status = [c \in Calls |-> "idle"] /\ job = NoJob
    /\ account \in Accounts /\ token = None /\ rejected = FALSE /\ rests = {}
    /\ plant \in BOOLEAN /\ pending = None /\ cancel = FALSE /\ closed = FALSE
    /\ settings = First /\ afloat = << >> /\ sent = [c \in Calls |-> 0]

-----------------------------------------------------------------------------
(* Where a call goes.                                                        *)

Kind == call[job.call].kind
Asks(r) == {f \in Fields : r.vals[f] # None}
AskedFields == Asks(call[job.call])

\* A step that needs the plant looks for it first, each time it is not known.
To(j, step) ==
    [j EXCEPT !.then = step, !.step = IF step \in NeedPlant /\ ~plant THEN "stations" ELSE step,
              !.at = "send", !.renewed = FALSE, !.tries = 1]

StatusStep == IF "legacy" \in rests THEN "equipment" ELSE "legacy"

\* A mode is written at once unless an earlier write waits for confirmation.
FirstStep(c) ==
    LET k == call[c].kind
        fence == k \in {"edit", "floor"} \/ (k = "mode" /\ pending # None)
    IN  CASE k = "status"                              -> StatusStep
          [] fence                                     -> "detail"
          [] ~fence /\ k \in {"mode", "config", "command"} -> "write"
          [] OTHER                                     -> k

\* Mutant: every write that failed gives up its fence.
FenceAfterFailure(answer) ==
    IF Kind \in Tracked /\ job.then = "write" /\ answer # "done" THEN None ELSE pending

\* The fence of an unconfirmed write goes only with a write that was not taken.
FenceAfter(answer) ==
    IF Kind \in Tracked /\ job.then = "write" /\ answer = "refused" THEN None ELSE pending

Returns(c, answer) ==
    /\ status' = [status EXCEPT ![c] = answer]
    /\ call' = [call EXCEPT ![c] = None]

Answer(answer) ==
    /\ job' = NoJob
    /\ Returns(job.call, answer)
    /\ pending' = FenceAfter(answer)

GoOn(j) == job' = j /\ UNCHANGED <<call, status, pending>>
Goes(step) == GoOn(To(job, step))

\* Configuration writes and commands return False, whatever the reason was.
Declined == IF Kind \in {"config", "command"} THEN "unsure" ELSE "refused"

\* An answer that says the charger did not take it.
TurnedDown == IF Kind = "config" THEN "unsure" ELSE "refused"

\* The write carries what was asked and, as they were read, its companions.
Companions(k) ==
    CASE k = "edit" -> {"mode", "energy", "soc"} [] k = "floor" -> {"mode"} [] OTHER -> {}

Candidate(r, read) ==
    [f \in Fields |-> IF r.vals[f] # None THEN r.vals[f]
                      ELSE IF f \in Companions(r.kind) THEN read[f] ELSE None]

Write(read) ==
    LET vals == Candidate(call[job.call], read)
    IN  /\ job' = [To(job, "write") EXCEPT !.vals = vals]
        /\ pending' = IF Kind \in Tracked THEN vals ELSE pending
        /\ UNCHANGED <<call, status>>

\* Every field of the earlier write is reported as it was sent.
Confirms(read) == pending = None \/ \A f \in Fields : pending[f] \in {None, read[f]}

\* A status is complete: a read of it ends, a minimum-power write goes on if idle.
Observed ==
    \/ Kind = "status" /\ Answer("done")
    \/ Kind = "floor" /\ (Answer("refused") \/ (job.read["mode"] # Fast /\ Write(job.read)))

\* Mutant: rounds are not counted.
IncoherentForEver == GoOn([To(job, "equipment") EXCEPT !.at = "pause", !.whole = TRUE])

\* Equipment and session may disagree for a while: the whole read is repeated.
Incoherent ==
    IF job.round + 1 < Rounds
    THEN GoOn([To(job, "equipment") EXCEPT !.at = "pause", !.round = @ + 1, !.whole = TRUE])
    ELSE Answer(Declined)

\* The status is put together from equipment, session and detail, the last two optional.
Combine == Incoherent \/ (job.whole /\ (Observed \/ Answer(Declined)))

ForStatus == Kind = "status" \/ (Kind = "floor" /\ job.read # None)

\* The step brought nothing: some calls go on without it.
Nothing ==
    CASE job.step = "stations" /\ job.then \in {"equipment", "detail"} ->
             GoOn([job EXCEPT !.step = job.then, !.at = "send", !.renewed = FALSE, !.tries = 1])
      [] job.then = "session" /\ Kind # "session" ->
             GoOn([To(job, "detail") EXCEPT !.whole = FALSE])
      [] job.step = "detail" /\ ForStatus -> Combine
      [] OTHER -> Answer(Declined)

-----------------------------------------------------------------------------
(* The calls, and the lock.                                                  *)

\* close() stops pauses at once, before it waits for the lock.
Ask(c, r) ==
    /\ status[c] = "idle" /\ \A d \in Calls : d < c => status[d] # "idle"
    /\ call' = [call EXCEPT ![c] = r]
    /\ status' = [status EXCEPT ![c] = "waiting"]
    /\ cancel' = (cancel \/ r.kind = "close")
    /\ UNCHANGED <<job, session, pending, closed, server>>

\* A command's budget may be used up, or the command superseded, in the queue.
GiveUp(c) ==
    /\ status[c] = "waiting" /\ call[c].kind \notin {"replace", "close"}
    /\ Returns(c, "refused")
    /\ UNCHANGED <<job, session, pending, cancel, closed, server>>

\* The lock is free, and not handed over in the order of arrival.
Take(c) ==
    /\ status[c] = "waiting" /\ job = NoJob /\ ~closed /\ call[c].kind \notin {"replace", "close"}
    /\ LET j == [NoJob EXCEPT !.call = c]
           step == FirstStep(c)
           vals == Candidate(call[c], settings)
           fenced == call[c].kind \in Tracked /\ step = "write"
       IN  /\ job' = [To(j, step) EXCEPT !.vals = IF step = "write" THEN vals ELSE None]
           /\ pending' = IF fenced THEN vals ELSE pending
           /\ token' = IF step = "authentication" THEN None ELSE token
    /\ status' = [status EXCEPT ![c] = "running"]
    /\ UNCHANGED <<call, account, rejected, rests, plant, cancel, closed, server>>

TakeClosed(c) ==
    /\ status[c] = "waiting" /\ job = NoJob /\ closed
    /\ Returns(c, IF call[c].kind = "close" THEN "done" ELSE "refused")
    /\ UNCHANGED <<job, session, pending, cancel, closed, server>>

\* Mutant: credentials are replaced while a request is under way.
ReplaceRacing(c) ==
    /\ status[c] = "waiting" /\ call[c].kind = "replace" /\ ~closed
    /\ Returns(c, "done")
    /\ account' \in Accounts /\ token' = None /\ rejected' = FALSE
    /\ rests' = rests \ {"login", "telemetry"}
    /\ UNCHANGED <<job, plant, pending, cancel, closed, server>>

\* The object stays, and with it the plant and the fence; the session does not.
ReplaceCredentials(c) ==
    /\ status[c] = "waiting" /\ call[c].kind = "replace" /\ ~closed /\ job = NoJob
    /\ Returns(c, "done")
    /\ account' \in Accounts /\ token' = None /\ rejected' = FALSE
    /\ rests' = rests \ {"login", "telemetry"}
    /\ UNCHANGED <<job, plant, pending, cancel, closed, server>>

Close(c) ==
    /\ status[c] = "waiting" /\ call[c].kind = "close" /\ ~closed /\ job = NoJob
    /\ Returns(c, "done")
    /\ closed' = TRUE /\ token' = None
    /\ UNCHANGED <<job, account, rejected, rests, plant, pending, cancel, server>>

-----------------------------------------------------------------------------
(* The session: a login when there is none.                                  *)

Sending == job.at = "send"
TelemetryRests == job.step = "legacy" /\ "telemetry" \in rests

\* Rejected credentials are not tried again, a failed login not at once.
NoLogin ==
    /\ Sending /\ token = None /\ ~TelemetryRests
    /\ \/ rejected /\ Answer("refused")
       \/ ~rejected /\ "login" \in rests
          /\ IF Kind = "authentication" THEN Answer("refused") ELSE Nothing
    /\ UNCHANGED <<session, cancel, closed, server>>

Login ==
    /\ Sending /\ token = None /\ ~TelemetryRests /\ ~rejected /\ "login" \notin rests /\ "gate" \notin rests
    /\ job' = [job EXCEPT !.at = "original", !.as = account]
    /\ UNCHANGED <<call, status, session, pending, cancel, closed, server>>

LoginGranted ==
    /\ job.at \in {"original", "common"}
    /\ token' = job.as
    /\ IF job.step = "authentication" THEN Answer("done")
       ELSE GoOn([job EXCEPT !.at = "send", !.as = None])
    /\ UNCHANGED <<account, rejected, rests, plant, cancel, closed, server>>

LoginRejected ==
    /\ job.at \in {"original", "common"}
    /\ rejected' = TRUE /\ Answer("refused")
    /\ UNCHANGED <<account, token, rests, plant, cancel, closed, server>>

\* The other endpoint is asked once, when the first one is at fault.
LoginElsewhere ==
    /\ job.at = "original" /\ "gate" \notin rests
    /\ job' = [job EXCEPT !.at = "common"]
    /\ UNCHANGED <<call, status, session, pending, cancel, closed, server>>

\* No session, no token in the answer, or "not now": login rests for a while.
LoginFailed ==
    /\ job.at \in {"original", "common"}
    /\ \/ rests' = rests \cup {"login"}
       \/ rests' = rests \cup {"login", "gate"}
    /\ Nothing
    /\ UNCHANGED <<account, token, rejected, plant, cancel, closed, server>>

-----------------------------------------------------------------------------
(* A request and its answer.                                                 *)

\* A cooldown of the server refuses every request, a login too, before it is sent;
\* so does a budget that is used up, and for the detail the close of the client.
NotSent ==
    /\ Sending
    /\ \/ token # None
       \/ "gate" \in rests /\ ~rejected /\ "login" \notin rests
       \/ TelemetryRests
    /\ Answer("refused")
    /\ UNCHANGED <<session, cancel, closed, server>>

Send ==
    /\ Sending /\ token # None /\ "gate" \notin rests
    /\ ~TelemetryRests
    /\ ~(job.step = "detail" /\ cancel)
    /\ job' = [job EXCEPT !.at = "out", !.as = token]
    /\ UNCHANGED <<call, status, session, pending, cancel, closed, server>>

Out == job.at = "out"

MayRenew == ~job.renewed /\ job.step \notin {"stations", "device", "chargers"}
            /\ (job.step = "detail" => job.tries < Attempts)

\* The session is not accepted: nothing was done, one renewal and one more request.
Expired ==
    /\ Out
    /\ token' = IF MayRenew THEN None ELSE token
    /\ rests' = IF job.step = "legacy" /\ ~MayRenew THEN rests \cup {"telemetry"} ELSE rests
    /\ CASE MayRenew -> GoOn([job EXCEPT !.at = "send", !.as = None, !.renewed = TRUE,
                                         !.tries = IF job.step = "detail" THEN @ + 1 ELSE @])
         [] ~MayRenew /\ job.step = "write" -> Answer(TurnedDown)
         [] ~MayRenew /\ job.step \in {"legacy", "equipment", "detail"} -> Answer("refused")
         [] OTHER -> Nothing
    /\ UNCHANGED <<account, rejected, plant, cancel, closed, server>>

\* 401 and 403: telemetry takes them for an expired session, the rest gives up.
Denied ==
    /\ Out /\ job.step # "legacy"
    /\ Answer("refused")
    /\ UNCHANGED <<session, cancel, closed, server>>

Limited ==
    /\ Out
    /\ rests' = rests \cup {"gate"} /\ Answer("refused")
    /\ UNCHANGED <<account, token, rejected, plant, cancel, closed, server>>

Resume ==
    /\ job.at = "pause"
    /\ \/ ~cancel /\ GoOn([job EXCEPT !.at = "send", !.as = None])
       \/ Answer("refused")
    /\ UNCHANGED <<session, cancel, closed, server>>

Quiet == UNCHANGED <<session, cancel, closed, server>>

\* v3 telemetry.  A report without a time is known to be so for some minutes.
LegacyRead ==
    /\ Out /\ job.step = "legacy"
    /\ \/ (Observed \/ Answer("refused")) /\ rests' = rests
       \/ rests' = rests \cup {"legacy"} /\ Goes("equipment")
    /\ UNCHANGED <<account, token, rejected, plant, cancel, closed, server>>

\* Only a charger that is offline needs no session and no settings.
EquipmentRead ==
    /\ Out /\ job.step = "equipment"
    /\ \/ Kind = "status" /\ Answer("done")
       \/ Goes("session") \/ Incoherent \/ Answer("refused")
    /\ Quiet

SessionRead ==
    /\ Out /\ job.step = "session"
    /\ (IF Kind = "session" THEN Answer("done") ELSE Goes("detail")) \/ Nothing
    /\ Quiet

\* Before a write: the fence, then the mode and the companions it needs.
Fenced ==
    IF Confirms(settings)
    THEN \/ /\ Kind \in {"edit", "mode"}
            /\ LET vals == Candidate(call[job.call], settings)
               IN  pending' = vals /\ job' = [To(job, "write") EXCEPT !.vals = vals]
            /\ UNCHANGED <<call, status>>
         \/ /\ Kind = "floor"
            /\ job' = [To(job, StatusStep) EXCEPT !.read = settings]
            /\ pending' = None /\ UNCHANGED <<call, status>>
         \/ /\ Kind # "mode"       \* another mode than expected, or a companion missing
            /\ job' = NoJob /\ pending' = None /\ Returns(job.call, "refused")
    ELSE Answer("refused")

\* A busy device is asked again after a pause; any other failure brings no settings.
DetailRead ==
    /\ Out /\ job.step = "detail"
    /\ \/ CASE ForStatus      -> Combine
            [] Kind = "detail" -> Answer("done")
            [] OTHER           -> Fenced
       \/ Nothing
       \/ job.tries < Attempts /\ GoOn([job EXCEPT !.at = "pause", !.tries = @ + 1])
    /\ Quiet

\* The plant is taken from a list with one station.
StationsRead ==
    /\ Out /\ job.step = "stations"
    /\ \/ plant' = (plant \/ job.then # "stations")
          /\ (IF job.then = "stations" THEN Answer("done")
              ELSE GoOn([job EXCEPT !.step = job.then, !.at = "send", !.as = None, !.tries = 1]))
       \/ plant' = plant /\ Nothing
    /\ UNCHANGED <<account, token, rejected, rests, cancel, closed, server>>

HintRead ==
    /\ Out /\ job.step = "hint" /\ (Answer("done") \/ Nothing) /\ Quiet

DeviceRead ==
    /\ Out /\ job.step = "device" /\ (Answer("done") \/ Nothing) /\ Quiet

ChargersRead ==
    /\ Out /\ job.step = "chargers" /\ (Answer("done") \/ Nothing) /\ Quiet

\* A write that the server took, or may have taken, can still reach the charger.
Dispatched ==
    /\ sent' = [sent EXCEPT ![job.call] = @ + 1]
    /\ afloat' = IF Kind \in Tracked
                 THEN Append(afloat, [asked |-> AskedFields, vals |-> job.vals]) ELSE afloat
    /\ UNCHANGED <<settings, session, cancel, closed>>

\* set-mode: any answer but success and a clear refusal leaves open what happened.
ModeWritten ==
    /\ Out /\ job.step = "write" /\ Kind \in Tracked
    /\ \/ Dispatched /\ (Answer("done") \/ Answer("unsure"))
       \/ Quiet /\ Answer(TurnedDown)

\* set-config: False for a refusal, an error and no answer alike.
ConfigWritten ==
    /\ Out /\ job.step = "write" /\ Kind = "config"
    /\ \/ Dispatched /\ (Answer("done") \/ Answer("unsure"))
       \/ Quiet /\ Answer(TurnedDown)

\* Mutant: a command without an answer is repeated as a read would be.
CommandRepeated ==
    /\ Out /\ job.step = "write" /\ Kind = "command"
    /\ \/ /\ Dispatched
          /\ IF job.renewed THEN Answer("unsure")
             ELSE GoOn([job EXCEPT !.at = "send", !.renewed = TRUE])
       \/ Quiet /\ Answer(TurnedDown)

\* Start and Stop: some codes are known to come with a command that was carried out.
CommandSent ==
    /\ Out /\ job.step = "write" /\ Kind = "command"
    /\ \/ Dispatched /\ (Answer("done") \/ Answer("unsure"))
       \/ Quiet /\ Answer(TurnedDown)

-----------------------------------------------------------------------------
(* The charger, and the clock.                                               *)

Land ==
    /\ afloat # << >>
    /\ settings' = [f \in Fields |-> IF Head(afloat).vals[f] = None THEN settings[f]
                                     ELSE Head(afloat).vals[f]]
    /\ afloat' = Tail(afloat)
    /\ UNCHANGED <<call, status, job, session, pending, cancel, closed, sent>>

Sinks ==
    /\ afloat # << >> /\ afloat' = Tail(afloat)
    /\ UNCHANGED <<call, status, job, session, pending, cancel, closed, settings, sent>>

\* A delay is looked at when a request is about to be sent.
Over(t) ==
    /\ t \in rests /\ job.at \notin {"out", "original", "common"} /\ rests' = rests \ {t}
    /\ UNCHANGED <<call, status, job, account, token, rejected, plant, pending, cancel, closed, server>>

LoginStep == NoLogin \/ Login \/ LoginGranted \/ LoginRejected \/ LoginElsewhere \/ LoginFailed
AnswerStep == \/ Expired \/ Denied \/ Limited
              \/ LegacyRead \/ EquipmentRead \/ SessionRead \/ DetailRead \/ StationsRead
              \/ HintRead \/ DeviceRead \/ ChargersRead
              \/ ModeWritten \/ ConfigWritten \/ CommandSent
JobStep == LoginStep \/ NotSent \/ Send \/ Resume \/ AnswerStep
LockStep(c) == Take(c) \/ TakeClosed(c) \/ ReplaceCredentials(c) \/ Close(c)

Next ==
    \/ \E c \in Calls : \E r \in Requests[c] : Ask(c, r)
    \/ \E c \in Calls : GiveUp(c) \/ LockStep(c)
    \/ JobStep \/ Land \/ Sinks
    \/ \E t \in Timers : Over(t)

\* A request is answered or times out, a pause ends, a free lock is taken.
Fairness == WF_vars(JobStep) /\ WF_vars(\E c \in Calls : LockStep(c))

Spec == Init /\ [][Next]_vars /\ Fairness

-----------------------------------------------------------------------------
(* Properties.                                                               *)

\* What a caller is told was refused never reaches the charger, and no call
\* is dispatched again unless the server had not accepted the session: through
\* renewals, cooldowns and budgets that run out, a command is done at most once.
DoneAtMostOnce ==
    \A c \in Calls : sent[c] <= (IF status[c] = "refused" THEN 0 ELSE 1)

\* A compound write carries settings it was not asked to change.  However late
\* it takes effect, it changes none of them: an edit whose outcome is unknown is
\* not followed by one that would undo it, or be undone by it.
NothingReverted ==
    [][\A f \in Fields : settings'[f] # settings[f] => f \in Head(afloat).asked]_vars

\* Nothing is sent, and no session kept, for credentials that were replaced.
SessionOfAccount ==
    /\ token \in {None, account}
    /\ job.at \in {"out", "original", "common"} => job.as = account

\* Every call ends, also those that wait while the client is closed.
CallsEnd == \A c \in Calls : status[c] = "waiting" ~> status[c] \in Answers
=============================================================================

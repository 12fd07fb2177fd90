------------------------- MODULE SemsSessionProofs -------------------------
(***************************************************************************)
(* Theorems about SemsSession, for any number of calls, any requests and     *)
(* accounts and any number of attempts.  First the job in the lock and what  *)
(* it has sent; then the fence after a compound write of unknown outcome.    *)
(***************************************************************************)
EXTENDS SemsSession, TLAPS

Jobs == [call : {0} \cup Calls, step : Steps \cup {"none"}, then : Steps \cup {"none"},
         at : {"none", "send", "original", "common", "out", "pause"},
         as : Accounts \cup {None}, renewed : BOOLEAN, tries : 0..Attempts,
         round : 0..Rounds, whole : BOOLEAN, read : Settings \cup {None},
         vals : Partial \cup {None}]

\* A step is the one that is due or the search of the plant before it; a minimum-power
\* write has the settings from when it has passed the fence, and a write its values.
Placed(j, k) ==
    /\ j.step \in {j.then, "stations"}
    /\ k = "floor" => j.read \in Settings \/ (j.then = "detail" /\ j.step \in {"stations", "detail"})
    /\ k \in Tracked /\ j.then = "write" => j.vals \in Partial

\* One call at a time has the lock, and one that has asked has a request.
JobInv ==
    /\ job.call = 0 => job = NoJob
    /\ \A c \in Calls : status[c] = "running" <=> job.call = c
    /\ \A c \in Calls : status[c] \in {"waiting", "running"} => call[c] \in Request
    /\ job.call # 0 => Placed(job, Kind)

\* What may have reached the charger is known by the answer of its call.
SentInv ==
    \A c \in Calls : sent[c] = 0 \/ (sent[c] = 1 /\ status[c] \in {"done", "unsure"})

IInv == TypeOK /\ JobInv /\ SentInv /\ SessionOfAccount

\* What a step of the call with the lock does to it: it answers, or it goes on to
\* another request or a pause.
Ended(answers) ==
    /\ job' = NoJob /\ \E a \in answers : Returns(job.call, a)
    /\ pending' \in Partial \cup {None}
Continued ==
    /\ job' \in Jobs /\ job'.call = job.call /\ job'.at \in {"send", "pause"}
    /\ Placed(job', Kind)
    /\ pending' \in Partial \cup {None}
    /\ UNCHANGED <<call, status>>

Moved == Ended(Answers) \/ Continued

Running == job.call \in Calls /\ call[job.call] \in Request

-----------------------------------------------------------------------------
\* A step is well placed in its call, at the stations when the plant is not known.
LEMMA ToIsJob ==
  ASSUME SessionAssumption, NEW j \in Jobs, NEW s \in Steps
  PROVE  /\ To(j, s) \in Jobs
         /\ To(j, s).call = j.call /\ To(j, s).at = "send" /\ To(j, s).read = j.read
         /\ To(j, s).round = j.round
         /\ To(j, s).then = s /\ To(j, s).step \in {s, "stations"}
<1>1. PICK u \in Steps : /\ u \in {s, "stations"}
                         /\ To(j, s) = [j EXCEPT !.then = s, !.step = u, !.at = "send", !.renewed = FALSE, !.tries = 1]
  BY DEF To, Steps
<1>2. 1 \in 0..Attempts
  BY SMT DEF SessionAssumption
<1> QED BY <1>1, <1>2, Zenon DEF Jobs

\* A write carries the fields it was asked for and, as read, its companions.
LEMMA CandidateIsPartial ==
  ASSUME SessionAssumption, NEW r \in Request, NEW read \in Settings
  PROVE  Candidate(r, read) \in Partial
  BY SMT DEF SessionAssumption, Request, Settings, Partial, Candidate, Values, Fields, Companions

\* A write that is prepared takes its call on, with values to send.
LEMMA WriteContinues ==
  ASSUME SessionAssumption, TypeOK, Running, NEW read \in Settings, job.read \in Settings,
         Write(read)
  PROVE  Continued
<1>1. Candidate(call[job.call], read) \in Partial
  BY CandidateIsPartial DEF Running
<1>2. To(job, "write") \in Jobs /\ To(job, "write").call = job.call /\ To(job, "write").at = "send"
      /\ To(job, "write").read = job.read /\ To(job, "write").then = "write"
      /\ To(job, "write").step \in {"write", "stations"}
  <2>1. job \in Jobs /\ "write" \in Steps
    BY Zenon DEF TypeOK, Jobs, Steps
  <2> QED BY <2>1, ToIsJob
<1>3. job' = [To(job, "write") EXCEPT !.vals = Candidate(call[job.call], read)]
  BY DEF Write
<1>4. job' \in Jobs /\ job'.call = job.call /\ job'.at = "send" /\ job'.read = job.read
      /\ job'.step \in {job'.then, "stations"} /\ job'.vals \in Partial
  BY <1>1, <1>2, <1>3, Zenon DEF Jobs
<1> QED
  BY <1>1, <1>4, Zenon DEF Continued, Write, Placed, TypeOK

\* Whenever a request is possible, a call with a request has the lock.
LEMMA RunningCall ==
  ASSUME SessionAssumption, TypeOK, JobInv, job.at # "none"
  PROVE  Running /\ job \in Jobs /\ Placed(job, Kind) /\ job.as \in Accounts \cup {None}
<1>1. job \in Jobs /\ job.call \in {0} \cup Calls /\ job.as \in Accounts \cup {None}
  BY Zenon DEF TypeOK, Jobs
<1>2. job.call # 0
  BY SMT DEF JobInv, NoJob
<1> QED BY <1>1, <1>2, Zenon DEF JobInv, Running

\* An answer ends the call.
LEMMA AnswerEnds ==
  ASSUME TypeOK, NEW answers, NEW a \in answers, Answer(a)
  PROVE  Ended(answers)
  BY Zenon DEF TypeOK, Answer, Ended, FenceAfter

\* A step on the way of the call that has the lock.
Way(step) == step \in Steps \ {"write"} /\ (Kind = "floor" => job.read \in Settings \/ step = "detail")

\* A step that is no write takes its call on.
LEMMA GoesContinues ==
  ASSUME SessionAssumption, TypeOK, NEW step, Way(step), Goes(step)
  PROVE  Continued
<1>1. /\ To(job, step) \in Jobs /\ To(job, step).call = job.call /\ To(job, step).at = "send"
      /\ To(job, step).read = job.read /\ To(job, step).then = step
      /\ To(job, step).step \in {step, "stations"}
  BY ToIsJob DEF TypeOK, Jobs, Way
<1> QED BY <1>1, Zenon DEF Continued, Goes, GoOn, Placed, Way, TypeOK

\* An incoherent status is read again a bounded number of times.
LEMMA IncoherentMoves ==
  ASSUME SessionAssumption, TypeOK, Way("equipment"), Incoherent
  PROVE  Moved
<1>1. CASE job.round + 1 < Rounds
  <2>1. /\ To(job, "equipment") \in Jobs /\ To(job, "equipment").call = job.call
        /\ To(job, "equipment").read = job.read /\ To(job, "equipment").round = job.round
        /\ To(job, "equipment").then = "equipment"
        /\ To(job, "equipment").step \in {"equipment", "stations"}
    BY ToIsJob DEF TypeOK, Jobs, Way
  <2>2. job.round + 1 \in 0..Rounds
    BY <1>1, SMT DEF TypeOK, SessionAssumption
  <2>3. job' = [To(job, "equipment") EXCEPT !.at = "pause", !.round = job.round + 1, !.whole = TRUE]
        /\ UNCHANGED <<call, status, pending>>
    BY <1>1, <2>1, Zenon DEF Incoherent, GoOn
  <2>4. job' \in Jobs /\ job'.call = job.call /\ job'.at = "pause" /\ job'.read = job.read
        /\ job'.then = "equipment" /\ job'.step \in {job'.then, "stations"}
    BY <2>1, <2>2, <2>3, Zenon DEF Jobs
  <2> QED BY <2>3, <2>4, <2>1, Zenon DEF Moved, Continued, Placed, Way, TypeOK
<1>2. CASE ~(job.round + 1 < Rounds)
  BY <1>2, AnswerEnds, Zenon DEF Incoherent, Moved, Answers, Declined
<1> QED BY <1>1, <1>2

\* A status ends a read, and takes a minimum-power write on or ends it.
LEMMA ObservedMoves ==
  ASSUME SessionAssumption, TypeOK, Running, Placed(job, Kind),
         job.then # "detail" \/ job.read # None, Observed
  PROVE  Moved
<1>1. CASE Kind = "status" /\ Answer("done")
  BY <1>1, AnswerEnds, Zenon DEF Moved, Answers
<1>2. CASE Answer("refused")
  BY <1>2, AnswerEnds, Zenon DEF Moved, Answers
<1>3. CASE Kind = "floor" /\ Write(job.read)
  <2>1. job.read \in Settings
    BY <1>3, Zenon DEF Placed, TypeOK
  <2> QED BY <1>3, <2>1, WriteContinues DEF Moved
<1> QED BY <1>1, <1>2, <1>3, Zenon DEF Observed

\* A status put together is incoherent, observed or given up.
LEMMA CombineMoves ==
  ASSUME SessionAssumption, TypeOK, Running, Placed(job, Kind), ForStatus, Combine
  PROVE  Moved
<1>1. Kind = "floor" => job.read \in Settings
  BY Zenon DEF Placed, TypeOK, ForStatus
<1>2. CASE Incoherent
  BY <1>1, <1>2, IncoherentMoves DEF Way, Steps
<1>3. CASE Answer(Declined)
  BY <1>3, AnswerEnds, Zenon DEF Moved, Answers, Declined
<1>4. CASE Observed
  <2>1. CASE Kind = "status"
    BY <1>4, <2>1, AnswerEnds, Zenon DEF Observed, Moved, Answers
  <2>2. CASE Kind # "status"
    BY <1>4, <2>2, ObservedMoves DEF ForStatus
  <2> QED BY <2>1, <2>2
<1> QED BY <1>2, <1>3, <1>4, Zenon DEF Combine

\* A step that brought nothing ends its call or is passed over.
LEMMA NothingMoves ==
  ASSUME SessionAssumption, TypeOK, Running, Placed(job, Kind), Nothing
  PROVE  Moved
<1>1. CASE job.step = "stations" /\ job.then \in {"equipment", "detail"}
  <2>1. job' = [job EXCEPT !.step = job.then, !.at = "send", !.renewed = FALSE, !.tries = 1]
        /\ UNCHANGED <<call, status, pending>>
    BY <1>1, SMT DEF Nothing, GoOn
  <2>2. job \in Jobs /\ 1 \in 0..Attempts /\ job.then \in Steps
    BY <1>1, SMT DEF TypeOK, Jobs, SessionAssumption, Steps
  <2>3. job' \in Jobs /\ job'.call = job.call /\ job'.at = "send" /\ job'.read = job.read
        /\ job'.then = job.then /\ job'.step = job.then
    BY <2>1, <2>2, Zenon DEF Jobs
  <2> QED BY <2>1, <2>3, Zenon DEF Moved, Continued, Placed, TypeOK
<1>2. CASE ~(job.step = "stations" /\ job.then \in {"equipment", "detail"}) /\ job.then = "session" /\ Kind # "session"
  <2>1. job' = [To(job, "detail") EXCEPT !.whole = FALSE] /\ UNCHANGED <<call, status, pending>>
    <3>1. ~(job.step = "detail" /\ ForStatus)
      BY <1>2, SMT DEF Placed
    <3> QED BY <1>2, <3>1, SMT DEF Nothing, GoOn
  <2>2. /\ To(job, "detail") \in Jobs /\ To(job, "detail").call = job.call
        /\ To(job, "detail").at = "send"
        /\ To(job, "detail").read = job.read /\ To(job, "detail").then = "detail"
        /\ To(job, "detail").step \in {"detail", "stations"}
    BY ToIsJob DEF TypeOK, Jobs, Steps
  <2>3. job' \in Jobs /\ job'.call = job.call /\ job'.at = "send" /\ job'.read = job.read
        /\ job'.then = "detail" /\ job'.step \in {job'.then, "stations"}
    BY <2>1, <2>2, Zenon DEF Jobs
  <2>4. Kind = "floor" => job.read \in Settings
    BY <1>2, Zenon DEF Placed
  <2> QED BY <2>1, <2>3, <2>4, Zenon DEF Moved, Continued, Placed, TypeOK
<1>3. CASE job.step = "detail" /\ ForStatus /\ Combine
  BY <1>3, CombineMoves
<1>4. CASE Answer(Declined)
  BY <1>4, AnswerEnds, Zenon DEF Moved, Answers, Declined
<1> QED BY <1>1, <1>2, <1>3, <1>4, SMT DEF Nothing

\* The fence lets a call go on or refuses it.
LEMMA FencedMoves ==
  ASSUME SessionAssumption, TypeOK, Running, Placed(job, Kind), Fenced
  PROVE  Moved
<1>0. settings \in Settings /\ job \in Jobs
  BY Zenon DEF TypeOK, Jobs
<1>1. CASE Answer("refused")
  BY <1>1, AnswerEnds, Zenon DEF Moved, Answers
<1> DEFINE vals == Candidate(call[job.call], settings)
<1>2. CASE Kind \in {"edit", "mode"} /\ pending' = vals /\ job' = [To(job, "write") EXCEPT !.vals = vals]
           /\ UNCHANGED <<call, status>>
  <2>1. vals \in Partial
    BY <1>0, CandidateIsPartial DEF Running
  <2>2. To(job, "write") \in Jobs /\ To(job, "write").call = job.call /\ To(job, "write").at = "send"
        /\ To(job, "write").then = "write" /\ To(job, "write").step \in {"write", "stations"}
    BY <1>0, ToIsJob DEF Steps
  <2> HIDE DEF vals
  <2>3. job' \in Jobs /\ job'.call = job.call /\ job'.at = "send" /\ job'.step \in {job'.then, "stations"}
        /\ job'.vals \in Partial
    BY <1>2, <2>1, <2>2, Zenon DEF Jobs
  <2>4. Kind # "floor"
    BY <1>2, SMT
  <2> QED BY <1>2, <2>1, <2>3, <2>4, Zenon DEF Moved, Continued, Placed
<1>3. CASE /\ job' = [To(job, StatusStep) EXCEPT !.read = settings]
           /\ pending' = None /\ UNCHANGED <<call, status>>
  <2>1. To(job, StatusStep) \in Jobs /\ To(job, StatusStep).call = job.call /\ To(job, StatusStep).at = "send"
        /\ To(job, StatusStep).step \in {To(job, StatusStep).then, "stations"}
        /\ To(job, StatusStep).then \in {"legacy", "equipment"}
    <3>1. StatusStep \in Steps
      BY Zenon DEF Steps, StatusStep
    <3>2. StatusStep \in {"legacy", "equipment"}
      BY Zenon DEF StatusStep
    <3> QED BY <1>0, <3>1, <3>2, ToIsJob
  <2>3. job' \in Jobs /\ job'.call = job.call /\ job'.at = "send" /\ job'.read = settings
        /\ job'.step \in {job'.then, "stations"} /\ job'.then \in {"legacy", "equipment"}
    BY <1>3, <1>0, <2>1, Zenon DEF Jobs
  <2> QED BY <1>0, <1>3, <2>3, Zenon DEF Moved, Continued, Placed
<1>4. CASE Kind # "mode" /\ job' = NoJob /\ pending' = None /\ Returns(job.call, "refused")
  BY <1>4, Zenon DEF Moved, Ended, Answers
<1> QED BY <1>1, <1>2, <1>3, <1>4, Zenon DEF Fenced

-----------------------------------------------------------------------------
\* What the call with the lock does preserves what is known of the calls.
LEMMA EndedKeeps ==
  ASSUME SessionAssumption, TypeOK, JobInv, Running, NEW answers \in SUBSET Answers, Ended(answers)
  PROVE  /\ job' \in Jobs /\ job'.at = "none"
         /\ call' \in [Calls -> Request \cup {None}]
         /\ status' \in [Calls -> {"idle", "waiting", "running"} \cup Answers]
         /\ pending' \in Partial \cup {None}
         /\ JobInv'
         /\ status'[job.call] \in answers /\ \A c \in Calls \ {job.call} : status'[c] = status[c]
<1>1. PICK a \in answers : Returns(job.call, a)
  BY DEF Ended
<1>2. a \in Answers /\ a \notin {"waiting", "running"}
  BY Zenon DEF Answers
<1>3. NoJob \in Jobs
  BY SMT DEF NoJob, Jobs, SessionAssumption
<1>4. job' = NoJob /\ NoJob.at = "none" /\ NoJob.call = 0 /\ 0 \notin Calls
  BY SMT DEF Ended, NoJob, SessionAssumption
<1>5. /\ call' \in [Calls -> Request \cup {None}]
      /\ status' \in [Calls -> {"idle", "waiting", "running"} \cup Answers]
      /\ status'[job.call] = a
      /\ \A c \in Calls \ {job.call} : status'[c] = status[c] /\ call'[c] = call[c]
  BY <1>1, <1>2, Zenon DEF Returns, TypeOK, Running
<1>6. JobInv'
  <2>1. \A c \in Calls : status'[c] # "running"
    BY <1>2, <1>5, Zenon DEF JobInv
  <2>2. \A c \in Calls : status'[c] \in {"waiting", "running"} => call'[c] \in Request
    BY <1>2, <1>5, Zenon DEF JobInv
  <2> QED BY <1>4, <2>1, <2>2, Zenon DEF JobInv
<1> QED BY <1>2, <1>3, <1>4, <1>5, <1>6, Zenon DEF Ended

\* A call that goes on keeps the lock.
LEMMA ContinuedKeeps ==
  ASSUME SessionAssumption, TypeOK, JobInv, Running, Continued
  PROVE  JobInv'
<1>1. job.call # 0
  BY SMT DEF Running, SessionAssumption
<1> QED BY <1>1, Zenon DEF Continued, JobInv, Kind

\* The call with the lock has sent no write yet.
LEMMA RunningSentNothing ==
  ASSUME JobInv, SentInv, Running
  PROVE  sent[job.call] = 0
<1>1. status[job.call] = "running" /\ job.call \in Calls
  BY Zenon DEF JobInv, Running
<1> QED BY <1>1, SMT DEF SentInv

\* The server, the charger and the session are of their types.
RestOK ==
    /\ account \in Accounts /\ token \in Accounts \cup {None} /\ rejected \in BOOLEAN
    /\ rests \subseteq Timers /\ plant \in BOOLEAN /\ cancel \in BOOLEAN /\ closed \in BOOLEAN
    /\ settings \in Settings /\ afloat \in Seq([asked : SUBSET Fields, vals : Partial])
    /\ sent \in [Calls -> Nat]

\* The types of the calls and of the rest are all the types.
LEMMA AllTypes ==
  ASSUME /\ job' \in Jobs /\ call' \in [Calls -> Request \cup {None}]
         /\ status' \in [Calls -> {"idle", "waiting", "running"} \cup Answers]
         /\ pending' \in Partial \cup {None}, RestOK'
  PROVE  TypeOK'
  BY Zenon DEF TypeOK, Jobs, RestOK

\* A step of the call with the lock that reaches no charger keeps the invariant.
LEMMA MovedKeeps ==
  ASSUME SessionAssumption, IInv, Running, Moved, RestOK', UNCHANGED <<account, sent>>,
         token' \in {None, account}
  PROVE  IInv'
<1>1. CASE Ended(Answers)
  <2>1. JobInv' /\ TypeOK'
    BY <1>1, EndedKeeps, Zenon DEF IInv, TypeOK, Jobs, RestOK
  <2>2. SentInv'
    <3>1. sent[job.call] = 0
      BY RunningSentNothing DEF IInv
    <3> QED BY <1>1, <3>1, EndedKeeps, Zenon DEF IInv, SentInv
  <2>3. SessionOfAccount'
    BY <1>1, EndedKeeps, SMT DEF IInv, SessionOfAccount
  <2> QED BY <2>1, <2>2, <2>3 DEF IInv
<1>2. CASE Continued
  <2>1. JobInv' /\ TypeOK'
    BY <1>2, ContinuedKeeps, Zenon DEF IInv, TypeOK, Jobs, RestOK, Continued
  <2>2. SentInv'
    BY <1>2, Zenon DEF IInv, SentInv, Continued
  <2>3. SessionOfAccount'
    BY <1>2, SMT DEF IInv, SessionOfAccount, Continued
  <2> QED BY <2>1, <2>2, <2>3 DEF IInv
<1> QED BY <1>1, <1>2 DEF Moved

\* A write that may have reached the charger is answered as such.
LEMMA DispatchedKeeps ==
  ASSUME SessionAssumption, IInv, Running, Dispatched, job.vals \in Partial \/ Kind \notin Tracked,
         Ended({"done", "unsure"})
  PROVE  IInv'
<1>1. UNCHANGED <<settings, account, token, rejected, rests, plant, cancel, closed>>
  BY Zenon DEF Dispatched, session
<1>2. sent' = [sent EXCEPT ![job.call] = sent[job.call] + 1] /\ sent[job.call] = 0
  BY RunningSentNothing, Zenon DEF Dispatched, IInv
<1>3. afloat' \in Seq([asked : SUBSET Fields, vals : Partial])
  <2>1. CASE Kind \in Tracked
    <3>1. [asked |-> AskedFields, vals |-> job.vals] \in [asked : SUBSET Fields, vals : Partial]
      BY <2>1, Zenon DEF AskedFields, Asks
    <3> QED BY <2>1, <3>1, SMT DEF Dispatched, IInv, TypeOK
  <2>2. CASE Kind \notin Tracked
    BY <2>2, Zenon DEF Dispatched, IInv, TypeOK
  <2> QED BY <2>1, <2>2
<1>4. sent' \in [Calls -> Nat]
  BY <1>2, SMT DEF IInv, TypeOK, Running
<1>5. JobInv' /\ TypeOK'
  <2>1. {"done", "unsure"} \in SUBSET Answers
    BY Zenon DEF Answers
  <2> QED BY <1>1, <1>3, <1>4, <2>1, EndedKeeps, Zenon DEF IInv, TypeOK, Jobs
<1>6. SentInv'
  <2>1. {"done", "unsure"} \in SUBSET Answers
    BY Zenon DEF Answers
  <2>2. status'[job.call] \in {"done", "unsure"} /\ \A c \in Calls \ {job.call} : status'[c] = status[c]
    BY <2>1, EndedKeeps DEF IInv
  <2>3. sent'[job.call] = 1 /\ \A c \in Calls \ {job.call} : sent'[c] = sent[c]
    BY <1>2, SMT DEF IInv, TypeOK, Running
  <2> QED BY <2>2, <2>3, Zenon DEF IInv, SentInv
<1>7. SessionOfAccount'
  <2>1. job'.at = "none"
    BY SMT DEF Ended, NoJob
  <2> QED BY <1>1, <2>1, SMT DEF IInv, SessionOfAccount
<1> QED BY <1>5, <1>6, <1>7 DEF IInv

\* The same when nothing else changes.
LEMMA QuietMoves ==
  ASSUME SessionAssumption, IInv, Running, Moved, UNCHANGED <<session, cancel, closed, server>>
  PROVE  IInv'
<1>1. /\ account' = account /\ token' = token /\ rejected' = rejected /\ rests' = rests
      /\ plant' = plant
      /\ cancel' = cancel /\ closed' = closed /\ settings' = settings /\ afloat' = afloat
      /\ sent' = sent
  BY DEF session, server
<1>2. RestOK' /\ token' \in {None, account}
  BY <1>1, Zenon DEF IInv, TypeOK, RestOK, SessionOfAccount
<1> QED BY <1>1, <1>2, MovedKeeps

\* A call that goes on with its request changed is still well placed.
LEMMA GoOnContinues ==
  ASSUME SessionAssumption, TypeOK, NEW j \in Jobs, GoOn(j), j.call = job.call,
         j.at \in {"send", "pause"},
         Placed(j, Kind)
  PROVE  Moved
  BY Zenon DEF Moved, Continued, GoOn, TypeOK

-----------------------------------------------------------------------------
\* The calls and the lock.
LEMMA ReturnsKeeps ==
  ASSUME SessionAssumption, IInv, NEW c \in Calls, status[c] = "waiting", NEW a \in Answers,
         Returns(c, a),
         UNCHANGED <<job, pending, sent>>, RestOK'
  PROVE  TypeOK' /\ JobInv' /\ SentInv'
<1>1. /\ call' = [call EXCEPT ![c] = None] /\ status' = [status EXCEPT ![c] = a]
      /\ a \notin {"idle", "waiting", "running"}
  BY Zenon DEF Returns, Answers
<1>2. /\ call' \in [Calls -> Request \cup {None}]
      /\ status' \in [Calls -> {"idle", "waiting", "running"} \cup Answers]
  BY <1>1, Zenon DEF IInv, TypeOK
<1>3. status'[c] = a /\ \A d \in Calls \ {c} : status'[d] = status[d] /\ call'[d] = call[d]
  BY <1>1, Zenon DEF IInv, TypeOK
<1>4. job.call # c
  BY SMT DEF IInv, JobInv
<1>5. job.call \in {0} \cup Calls
  BY Zenon DEF IInv, TypeOK
<1>6. job.call # 0 => Kind' = Kind
  BY <1>3, <1>4, <1>5, Zenon DEF Kind
<1>7. JobInv'
  BY <1>1, <1>3, <1>4, <1>6, Zenon DEF IInv, JobInv
<1>8. SentInv'
  <2>1. sent[c] = 0
    BY SMT DEF IInv, SentInv
  <2> QED BY <2>1, <1>3, Zenon DEF IInv, SentInv
<1>9. TypeOK'
  <2>1. job' \in Jobs /\ pending' \in Partial \cup {None}
    BY Zenon DEF IInv, TypeOK, Jobs
  <2> QED BY <1>2, <2>1, AllTypes
<1> QED BY <1>7, <1>8, <1>9

\* A new call waits for the lock.
LEMMA AskStep ==
  ASSUME SessionAssumption, IInv, NEW c \in Calls, NEW r \in Requests[c], Ask(c, r)
  PROVE  IInv'
<1>0. r \in Request /\ status[c] = "idle"
  BY Zenon DEF SessionAssumption, Ask
<1>1. /\ job' = job /\ account' = account /\ token' = token /\ rejected' = rejected
      /\ rests' = rests /\ plant' = plant
      /\ pending' = pending /\ closed' = closed /\ settings' = settings /\ afloat' = afloat
      /\ sent' = sent
      /\ cancel' \in BOOLEAN
  BY Zenon DEF Ask, session, server, IInv, TypeOK
<1>2. /\ call' \in [Calls -> Request \cup {None}]
      /\ status' \in [Calls -> {"idle", "waiting", "running"} \cup Answers]
      /\ call'[c] = r /\ status'[c] = "waiting"
      /\ \A d \in Calls \ {c} : status'[d] = status[d] /\ call'[d] = call[d]
  BY <1>0, Zenon DEF Ask, IInv, TypeOK
<1>3. TypeOK' /\ SessionOfAccount'
  <2>1. RestOK'
    BY <1>1, Zenon DEF IInv, TypeOK, RestOK
  <2>2. job' \in Jobs /\ pending' \in Partial \cup {None}
    BY <1>1, Zenon DEF IInv, TypeOK, Jobs
  <2>3. SessionOfAccount'
    BY <1>1, Zenon DEF IInv, SessionOfAccount
  <2> QED BY <1>2, <2>1, <2>2, <2>3, AllTypes
<1>4. job.call # c /\ job.call \in {0} \cup Calls
  BY <1>0, SMT DEF IInv, JobInv, TypeOK
<1>5. job.call # 0 => Kind' = Kind
  BY <1>1, <1>2, <1>4, Zenon DEF Kind
<1>6. JobInv'
  BY <1>0, <1>1, <1>2, <1>4, <1>5, SMT DEF IInv, JobInv
<1>7. SentInv'
  <2>1. sent[c] = 0
    BY <1>0, SMT DEF IInv, SentInv
  <2> QED BY <2>1, <1>1, <1>2, Zenon DEF IInv, SentInv
<1> QED BY <1>3, <1>6, <1>7 DEF IInv

\* Calls that return without a request, close and new credentials among them.
LEMMA GiveUpStep ==
  ASSUME SessionAssumption, IInv, NEW c \in Calls,
         GiveUp(c) \/ TakeClosed(c) \/ ReplaceCredentials(c) \/ Close(c)
  PROVE  IInv'
<1>1. /\ status[c] = "waiting" /\ \E a \in Answers : Returns(c, a)
      /\ job' = job /\ pending' = pending /\ sent' = sent
      /\ settings' = settings /\ afloat' = afloat /\ plant' = plant /\ cancel' = cancel
  BY Zenon DEF GiveUp, TakeClosed, ReplaceCredentials, Close, server, session, Answers
<1>2. /\ account' \in Accounts /\ token' \in {None, account'} /\ rejected' \in BOOLEAN
      /\ rests' \subseteq rests /\ closed' \in BOOLEAN
  BY Zenon DEF GiveUp, TakeClosed, ReplaceCredentials, Close, session, IInv, TypeOK,
     SessionOfAccount
<1>3. account' = account \/ job.at = "none"
  <2>1. account' = account \/ job = NoJob
    BY Zenon DEF GiveUp, TakeClosed, ReplaceCredentials, Close, session
  <2> QED BY <2>1, SMT DEF NoJob
<1>4. RestOK'
  BY <1>1, <1>2, Zenon DEF IInv, TypeOK, RestOK
<1>5. TypeOK' /\ JobInv' /\ SentInv'
  BY <1>1, <1>4, ReturnsKeeps
<1>6. SessionOfAccount'
  BY <1>1, <1>2, <1>3, SMT DEF IInv, SessionOfAccount
<1> QED BY <1>5, <1>6 DEF IInv

\* A call that takes a free lock runs its first step.
LEMMA TakeStep ==
  ASSUME SessionAssumption, IInv, NEW c \in Calls, Take(c)
  PROVE  IInv'
<1> DEFINE j == [NoJob EXCEPT !.call = c]
           step == FirstStep(c)
           vals == Candidate(call[c], settings)
           fenced == call[c].kind \in Tracked /\ step = "write"
<1>1. /\ status[c] = "waiting" /\ job = NoJob /\ call[c].kind \notin {"replace", "close"}
      /\ job' = [To(j, step) EXCEPT !.vals = IF step = "write" THEN vals ELSE None]
      /\ pending' = IF fenced THEN vals ELSE pending
      /\ token' = IF step = "authentication" THEN None ELSE token
      /\ status' = [status EXCEPT ![c] = "running"]
      /\ call' = call /\ account' = account /\ rejected' = rejected /\ rests' = rests
      /\ plant' = plant
      /\ cancel' = cancel /\ closed' = closed /\ settings' = settings /\ afloat' = afloat
      /\ sent' = sent
  BY Zenon DEF Take, server
<1>2. call[c] \in Request /\ settings \in Settings
  BY <1>1, Zenon DEF IInv, JobInv, TypeOK
<1>3. vals \in Partial
  BY <1>2, CandidateIsPartial
<1>4. step \in Steps /\ (call[c].kind = "floor" => step = "detail")
  <2>1. call[c].kind \in Kinds
    BY <1>2, Zenon DEF Request
  <2> QED BY <1>1, <2>1, SMT DEF FirstStep, StatusStep, Kinds, Reads, Writes, Tracked, Steps
<1>5. j \in Jobs /\ j.call = c
  <2>1. NoJob \in Jobs
    BY SMT DEF NoJob, Jobs, SessionAssumption
  <2> QED BY <2>1, Zenon DEF Jobs
<1>6. /\ To(j, step) \in Jobs /\ To(j, step).call = c /\ To(j, step).at = "send"
      /\ To(j, step).then = step /\ To(j, step).step \in {step, "stations"}
  <2> HIDE DEF j, step
  <2> QED BY <1>4, <1>5, ToIsJob
<1> HIDE DEF j, vals
<1>7. /\ job' \in Jobs /\ job'.call = c /\ job'.at = "send"
      /\ job'.then = step /\ job'.step \in {step, "stations"}
      /\ (step = "write" => job'.vals \in Partial)
  BY <1>1, <1>3, <1>6, Zenon DEF Jobs
<1>8. Placed(job', call[c].kind)
  BY <1>4, <1>7, Zenon DEF Placed
<1>9. /\ status' \in [Calls -> {"idle", "waiting", "running"} \cup Answers]
      /\ status'[c] = "running" /\ \A d \in Calls \ {c} : status'[d] = status[d]
  BY <1>1, Zenon DEF IInv, TypeOK
<1>10. RestOK' /\ SessionOfAccount'
  <2>1. token' \in {None, token}
    BY <1>1, Zenon
  <2>2. RestOK'
    BY <1>1, <2>1, Zenon DEF IInv, TypeOK, RestOK
  <2> QED BY <1>1, <1>7, <2>1, <2>2, SMT DEF IInv, SessionOfAccount
<1>11. TypeOK'
  <2>1. pending' \in Partial \cup {None}
    BY <1>1, <1>3, Zenon DEF IInv, TypeOK
  <2>2. call' \in [Calls -> Request \cup {None}]
    BY <1>1, Zenon DEF IInv, TypeOK
  <2> QED BY <1>7, <1>9, <1>10, <2>1, <2>2, AllTypes
<1>12. JobInv'
  <2>1. Kind' = call[c].kind
    BY <1>1, <1>7 DEF Kind
  <2>2. \A d \in Calls : status[d] # "running"
    BY <1>1, SMT DEF IInv, JobInv, NoJob, SessionAssumption
  <2>3. c # 0
    BY SMT DEF SessionAssumption
  <2>4. \A d \in Calls : status'[d] = "running" <=> job'.call = d
    BY <1>7, <1>9, <2>2, Zenon
  <2>5. \A d \in Calls : status'[d] \in {"waiting", "running"} => call'[d] \in Request
    BY <1>1, <1>2, <1>9, Zenon DEF IInv, JobInv
  <2> QED BY <1>7, <1>8, <2>1, <2>3, <2>4, <2>5, Zenon DEF JobInv
<1>13. SentInv'
  <2>1. sent[c] = 0
    BY <1>1, SMT DEF IInv, SentInv
  <2> QED BY <2>1, <1>1, <1>9, Zenon DEF IInv, SentInv
<1> QED BY <1>10, <1>11, <1>12, <1>13 DEF IInv

-----------------------------------------------------------------------------
\* A request that is made for an account, and one that is made again.
LEMMA LoginJob ==
  ASSUME NEW as \in Accounts, job \in Jobs,
         \/ job' = [job EXCEPT !.at = "original", !.as = as]
         \/ job' = [job EXCEPT !.at = "common"] /\ job.as = as
  PROVE  /\ job' \in Jobs /\ job'.call = job.call /\ job'.as = as /\ job'.step = job.step
         /\ job'.then = job.then /\ job'.read = job.read /\ job'.vals = job.vals
<1>1. CASE job' = [job EXCEPT !.at = "original", !.as = as]
  BY <1>1, Zenon DEF Jobs
<1>2. CASE job' = [job EXCEPT !.at = "common"] /\ job.as = as
  BY <1>2, Zenon DEF Jobs
<1> QED BY <1>1, <1>2

LEMMA RenewedJob ==
  ASSUME NEW j \in Jobs, NEW n \in 0..Attempts
  PROVE  LET k == [j EXCEPT !.at = "send", !.as = None, !.renewed = TRUE, !.tries = n]
         IN  /\ k \in Jobs /\ k.call = j.call /\ k.at = "send" /\ k.step = j.step
             /\ k.then = j.then /\ k.read = j.read /\ k.vals = j.vals
  BY Zenon DEF Jobs

\* The login.
LEMMA LoginStepKeeps ==
  ASSUME SessionAssumption, IInv, LoginStep
  PROVE  IInv'
<1>1. job.at # "none"
  BY SMT DEF LoginStep, NoLogin, Login, LoginGranted, LoginRejected, LoginElsewhere, LoginFailed,
     Sending
<1>2. Running /\ job \in Jobs /\ Placed(job, Kind) /\ job.as \in Accounts \cup {None}
  BY <1>1, RunningCall DEF IInv
<1>3. TypeOK /\ JobInv
  BY DEF IInv
<1>4. ASSUME Answer("refused") \/ Answer("done") PROVE Moved
  BY <1>3, <1>4, AnswerEnds, Zenon DEF Moved, Answers
<1>5. CASE NoLogin
  <2>1. Moved
    BY <1>2, <1>3, <1>4, <1>5, NothingMoves, Zenon DEF NoLogin
  <2> QED BY <1>2, <1>5, <2>1, QuietMoves DEF NoLogin
<1>6. CASE Login \/ LoginElsewhere
  <2>0. \/ job' = [job EXCEPT !.at = "original", !.as = account]
        \/ job' = [job EXCEPT !.at = "common"] /\ job.as = account
    BY <1>6, Zenon DEF Login, LoginElsewhere, IInv, SessionOfAccount
  <2>1. /\ job' \in Jobs /\ job'.call = job.call /\ job'.as = account /\ job'.step = job.step
        /\ job'.then = job.then /\ job'.read = job.read /\ job'.vals = job.vals
    <3>1. account \in Accounts /\ job \in Jobs
      BY <1>2, <1>3 DEF TypeOK
    <3> QED BY <2>0, <3>1, LoginJob
  <2>2. /\ account' = account /\ token' = token /\ rejected' = rejected /\ rests' = rests
        /\ plant' = plant
        /\ cancel' = cancel /\ closed' = closed /\ settings' = settings /\ afloat' = afloat
        /\ sent' = sent
        /\ call' = call /\ status' = status /\ pending' = pending
    BY <1>6, Zenon DEF Login, LoginElsewhere, session, server
  <2>3. TypeOK'
    BY <1>3, <2>1, <2>2, Zenon DEF TypeOK, Jobs
  <2>4. JobInv'
    <3>1. Kind' = Kind
      BY <2>1, <2>2 DEF Kind
    <3>2. job.call # 0
      BY <1>2, SMT DEF Running, SessionAssumption
    <3> QED BY <1>2, <1>3, <2>1, <2>2, <3>1, <3>2, Zenon DEF JobInv, Placed
  <2>5. SentInv' /\ SessionOfAccount'
    BY <2>1, <2>2, Zenon DEF IInv, SentInv, SessionOfAccount
  <2> QED BY <2>3, <2>4, <2>5 DEF IInv
<1>9. CASE LoginGranted
  <2>1. job.as = account
    BY <1>9, SMT DEF LoginGranted, IInv, SessionOfAccount
  <2>2. Moved
    <3>1. CASE Answer("done")
      BY <1>4, <3>1
    <3>2. CASE GoOn([job EXCEPT !.at = "send", !.as = None])
      <4> DEFINE j == [job EXCEPT !.at = "send", !.as = None]
      <4>1. /\ j \in Jobs /\ j.call = job.call /\ j.at = "send" /\ j.step = job.step
            /\ j.then = job.then /\ j.read = job.read /\ j.vals = job.vals
        BY <1>2, Zenon DEF Jobs
      <4> HIDE DEF j
      <4>2. Placed(j, Kind)
        BY <1>2, <4>1, Zenon DEF Placed
      <4>3. GoOn(j)
        BY <3>2 DEF j
      <4> QED BY <1>3, <4>1, <4>2, <4>3, GoOnContinues
    <3> QED BY <1>9, <3>1, <3>2, Zenon DEF LoginGranted
  <2>3. RestOK' /\ UNCHANGED <<account, sent>> /\ token' \in {None, account}
    BY <1>3, <1>9, <2>1, Zenon DEF LoginGranted, RestOK, TypeOK, server
  <2> QED BY <1>2, <2>2, <2>3, MovedKeeps
<1>10. CASE LoginRejected
  <2>1. RestOK' /\ UNCHANGED <<account, sent>> /\ token' \in {None, account}
    BY <1>3, <1>10, Zenon DEF LoginRejected, RestOK, TypeOK, server, IInv, SessionOfAccount
  <2> QED BY <1>2, <1>4, <1>10, <2>1, MovedKeeps DEF LoginRejected
<1>11. CASE LoginFailed
  <2>1. rests' \subseteq Timers
    BY <1>3, <1>11, Zenon DEF LoginFailed, TypeOK, Timers
  <2>2. RestOK' /\ UNCHANGED <<account, sent>> /\ token' \in {None, account}
    BY <1>3, <1>11, <2>1, Zenon DEF LoginFailed, RestOK, TypeOK, server, IInv, SessionOfAccount
  <2>3. Moved
    BY <1>2, <1>3, <1>11, NothingMoves DEF LoginFailed
  <2> QED BY <1>2, <2>2, <2>3, MovedKeeps
<1> QED BY <1>5, <1>6, <1>9, <1>10, <1>11 DEF LoginStep

-----------------------------------------------------------------------------
\* A request and its answer.
LEMMA SendKeeps ==
  ASSUME SessionAssumption, IInv, NotSent \/ Send \/ Resume
  PROVE  IInv'
<1>1. job.at # "none"
  BY SMT DEF NotSent, Send, Resume, Sending
<1>2. Running /\ job \in Jobs /\ Placed(job, Kind) /\ TypeOK /\ JobInv
  BY <1>1, RunningCall DEF IInv
<1>3. ASSUME Answer("refused") PROVE Moved
  BY <1>2, <1>3, AnswerEnds, Zenon DEF Moved, Answers
<1>4. CASE NotSent
  BY <1>2, <1>3, <1>4, QuietMoves DEF NotSent
<1>5. CASE Send
  <2>1. /\ job' \in Jobs /\ job'.call = job.call /\ job'.as = token /\ job'.step = job.step
        /\ job'.then = job.then /\ job'.read = job.read /\ job'.vals = job.vals
    BY <1>2, <1>5, Zenon DEF Send, Jobs, TypeOK
  <2>2. /\ account' = account /\ token' = token /\ rejected' = rejected /\ rests' = rests
        /\ plant' = plant
        /\ cancel' = cancel /\ closed' = closed /\ settings' = settings /\ afloat' = afloat
        /\ sent' = sent
        /\ call' = call /\ status' = status /\ pending' = pending /\ token = account
    BY <1>5, Zenon DEF Send, session, server, IInv, SessionOfAccount
  <2>3. TypeOK'
    BY <1>2, <2>1, <2>2, Zenon DEF TypeOK, Jobs
  <2>4. JobInv'
    <3>1. Kind' = Kind
      BY <2>1, <2>2 DEF Kind
    <3>2. job.call # 0
      BY <1>2, SMT DEF Running, SessionAssumption
    <3> QED BY <1>2, <2>1, <2>2, <3>1, <3>2, Zenon DEF JobInv, Placed
  <2>5. SentInv' /\ SessionOfAccount'
    BY <2>1, <2>2, Zenon DEF IInv, SentInv, SessionOfAccount
  <2> QED BY <2>3, <2>4, <2>5 DEF IInv
<1>6. CASE Resume
  <2>1. CASE GoOn([job EXCEPT !.at = "send", !.as = None])
    <3> DEFINE j == [job EXCEPT !.at = "send", !.as = None]
    <3>1. /\ j \in Jobs /\ j.call = job.call /\ j.at = "send" /\ j.step = job.step
          /\ j.then = job.then /\ j.read = job.read /\ j.vals = job.vals
      BY <1>2, Zenon DEF Jobs
    <3> HIDE DEF j
    <3>2. Placed(j, Kind)
      BY <1>2, <3>1, Zenon DEF Placed
    <3>3. GoOn(j)
      BY <2>1 DEF j
    <3> QED BY <1>2, <1>6, <3>1, <3>2, <3>3, GoOnContinues, QuietMoves DEF Resume
  <2> QED BY <1>2, <1>3, <1>6, <2>1, QuietMoves DEF Resume
<1> QED BY <1>4, <1>5, <1>6

\* The call whose request is out, and its answers.
LEMMA OutCall ==
  ASSUME SessionAssumption, IInv, Out
  PROVE  /\ Running /\ job \in Jobs /\ Placed(job, Kind) /\ TypeOK /\ JobInv
         /\ \A a \in Answers : Answer(a) => Moved
<1>1. job.at # "none"
  BY SMT DEF Out
<1>2. Running /\ job \in Jobs /\ Placed(job, Kind) /\ TypeOK /\ JobInv
  BY <1>1, RunningCall DEF IInv
<1> QED BY <1>2, AnswerEnds, Zenon DEF Moved

\* A session that expired is renewed once.
LEMMA ExpiredKeeps ==
  ASSUME SessionAssumption, IInv, Expired
  PROVE  IInv'
<1>1. /\ Running /\ job \in Jobs /\ Placed(job, Kind) /\ TypeOK /\ JobInv
      /\ \A a \in Answers : Answer(a) => Moved
  BY OutCall DEF Expired
<1>2. Moved
  <2>1. CASE MayRenew
    <3> DEFINE j == [job EXCEPT !.at = "send", !.as = None, !.renewed = TRUE,
                                !.tries = IF job.step = "detail" THEN @ + 1 ELSE @]
    <3>1. GoOn(j)
      BY <2>1 DEF Expired
    <3>2. (IF job.step = "detail" THEN job.tries + 1 ELSE job.tries) \in 0..Attempts
      BY <1>1, <2>1, SMT DEF MayRenew, Jobs, SessionAssumption
    <3>0. job \in Jobs
      BY <1>1
    <3>3. /\ j \in Jobs /\ j.call = job.call /\ j.at = "send" /\ j.step = job.step
          /\ j.then = job.then /\ j.read = job.read /\ j.vals = job.vals
      BY <3>0, <3>2, RenewedJob, Zenon
    <3> HIDE DEF j
    <3>4. Placed(j, Kind)
      BY <1>1, <3>3, Zenon DEF Placed
    <3> QED BY <1>1, <3>1, <3>3, <3>4, GoOnContinues
  <2>2. CASE ~MayRenew
    <3>1. TurnedDown \in Answers /\ "refused" \in Answers
      BY Zenon DEF TurnedDown, Answers
    <3>2. Answer(TurnedDown) \/ Answer("refused") \/ Nothing
      BY <2>2, SMT DEF Expired
    <3> QED BY <1>1, <3>1, <3>2, NothingMoves
  <2> QED BY <2>1, <2>2
<1>3. RestOK' /\ UNCHANGED <<account, sent>> /\ token' \in {None, account}
  <2>1. token' \in {None, token} /\ rests' \subseteq Timers
    BY <1>1, Zenon DEF Expired, Timers, TypeOK
  <2> QED BY <1>1, <2>1, Zenon DEF Expired, RestOK, TypeOK, server, IInv, SessionOfAccount
<1> QED BY <1>1, <1>2, <1>3, MovedKeeps

\* A denied or rate-limited request.
LEMMA LimitedKeeps ==
  ASSUME SessionAssumption, IInv, Denied \/ Limited
  PROVE  IInv'
<1>1. Running /\ TypeOK /\ \A a \in Answers : Answer(a) => Moved
  BY OutCall DEF Denied, Limited
<1>2. Moved
  BY <1>1, Zenon DEF Denied, Limited, Answers
<1>3. RestOK' /\ UNCHANGED <<account, sent>> /\ token' \in {None, account}
  BY <1>1, Zenon DEF Denied, Limited, RestOK, TypeOK, server, session, IInv, SessionOfAccount,
     Timers
<1> QED BY <1>1, <1>2, <1>3, MovedKeeps

\* An answer of v3 telemetry.
LEMMA LegacyKeeps ==
  ASSUME SessionAssumption, IInv, LegacyRead
  PROVE  IInv'
<1>1. /\ Running /\ Placed(job, Kind) /\ TypeOK /\ job.step = "legacy" /\ job.then # "detail"
      /\ (Kind = "floor" => job.read \in Settings) /\ \A a \in Answers : Answer(a) => Moved
  <2>1. Placed(job, Kind) /\ Running /\ TypeOK /\ job.step = "legacy" /\ \A a \in Answers : Answer(a) => Moved
    BY OutCall DEF LegacyRead
  <2> QED BY <2>1, SMT DEF Placed
<1>2. Moved
  <2>1. CASE Observed
    BY <1>1, <2>1, ObservedMoves
  <2>2. CASE Answer("refused")
    BY <1>1, <2>2, Zenon DEF Answers
  <2>3. CASE Goes("equipment")
    <3>1. Way("equipment")
      BY <1>1, SMT DEF Way, Steps
    <3> QED BY <1>1, <2>3, <3>1, GoesContinues DEF Moved
  <2> QED BY <2>1, <2>2, <2>3 DEF LegacyRead
<1>3. RestOK' /\ UNCHANGED <<account, sent>> /\ token' \in {None, account}
  BY <1>1, Zenon DEF LegacyRead, RestOK, TypeOK, server, IInv, SessionOfAccount, Timers
<1> QED BY <1>1, <1>2, <1>3, MovedKeeps

\* An answer of the small reads.
LEMMA ReadKeeps ==
  ASSUME SessionAssumption, IInv,
         EquipmentRead \/ SessionRead \/ HintRead \/ DeviceRead \/ ChargersRead
  PROVE  IInv'
<1>1. /\ Running /\ job \in Jobs /\ Placed(job, Kind) /\ TypeOK
      /\ \A a \in Answers : Answer(a) => Moved
  BY OutCall DEF EquipmentRead, SessionRead, HintRead, DeviceRead, ChargersRead
<1>2. \A a \in {"done", "refused"} : Answer(a) => Moved
  BY <1>1, Zenon DEF Answers
<1>3. Nothing => Moved
  BY <1>1, NothingMoves
<1>4. CASE EquipmentRead
  <2>1. Way("session") /\ Way("equipment")
    BY <1>1, <1>4, SMT DEF EquipmentRead, Placed, Way, Steps
  <2>2. Moved
    BY <1>1, <1>2, <1>4, <2>1, GoesContinues, IncoherentMoves, Zenon DEF EquipmentRead, Moved
  <2> QED BY <1>1, <1>4, <2>2, QuietMoves DEF EquipmentRead, Quiet
<1>5. CASE SessionRead
  <2>1. Way("detail")
    BY SMT DEF Way, Steps
  <2>2. Moved
    BY <1>1, <1>2, <1>3, <1>5, <2>1, GoesContinues, Zenon DEF SessionRead, Moved
  <2> QED BY <1>1, <1>5, <2>2, QuietMoves DEF SessionRead, Quiet
<1>6. CASE HintRead \/ DeviceRead \/ ChargersRead
  BY <1>1, <1>2, <1>3, <1>6, QuietMoves, Zenon DEF HintRead, DeviceRead, ChargersRead, Quiet
<1> QED BY <1>4, <1>5, <1>6

\* An answer of the configuration read.
LEMMA DetailKeeps ==
  ASSUME SessionAssumption, IInv, DetailRead
  PROVE  IInv'
<1>1. /\ Running /\ job \in Jobs /\ Placed(job, Kind) /\ TypeOK
      /\ \A a \in Answers : Answer(a) => Moved
  BY OutCall DEF DetailRead
<1>2. Moved
  <2>1. CASE ForStatus /\ Combine
    BY <1>1, <2>1, CombineMoves
  <2>2. CASE Answer("done")
    BY <1>1, <2>2, Zenon DEF Answers
  <2>3. CASE Fenced
    BY <1>1, <2>3, FencedMoves
  <2>4. CASE Nothing
    BY <1>1, <2>4, NothingMoves
  <2>5. CASE job.tries < Attempts /\ GoOn([job EXCEPT !.at = "pause", !.tries = @ + 1])
    <3> DEFINE j == [job EXCEPT !.at = "pause", !.tries = @ + 1]
    <3>1. job.tries + 1 \in 0..Attempts
      BY <1>1, <2>5, SMT DEF Jobs, SessionAssumption
    <3>2. /\ j \in Jobs /\ j.call = job.call /\ j.at = "pause" /\ j.step = job.step
          /\ j.then = job.then /\ j.read = job.read /\ j.vals = job.vals
      BY <1>1, <3>1, Zenon DEF Jobs
    <3> HIDE DEF j
    <3>3. Placed(j, Kind)
      BY <1>1, <3>2, Zenon DEF Placed
    <3>4. GoOn(j)
      BY <2>5 DEF j
    <3> QED BY <1>1, <3>2, <3>3, <3>4, GoOnContinues
  <2> QED BY <2>1, <2>2, <2>3, <2>4, <2>5, SMT DEF DetailRead
<1> QED BY <1>1, <1>2, QuietMoves DEF DetailRead, Quiet

\* An answer of the search for the plant.
LEMMA StationsKeeps ==
  ASSUME SessionAssumption, IInv, StationsRead
  PROVE  IInv'
<1>1. /\ Running /\ job \in Jobs /\ Placed(job, Kind) /\ TypeOK
      /\ \A a \in Answers : Answer(a) => Moved
  BY OutCall DEF StationsRead
<1>2. Moved
  <2>1. CASE Answer("done")
    BY <1>1, <2>1, Zenon DEF Answers
  <2>2. CASE Nothing
    BY <1>1, <2>2, NothingMoves
  <2>3. CASE GoOn([job EXCEPT !.step = job.then, !.at = "send", !.as = None, !.tries = 1])
    <3> DEFINE j == [job EXCEPT !.step = job.then, !.at = "send", !.as = None, !.tries = 1]
    <3>1. 1 \in 0..Attempts /\ job.then \in Steps \cup {"none"}
      BY <1>1, SMT DEF SessionAssumption, Jobs
    <3>2. /\ j \in Jobs /\ j.call = job.call /\ j.at = "send" /\ j.step = job.then
          /\ j.then = job.then /\ j.read = job.read /\ j.vals = job.vals
      BY <1>1, <3>1, Zenon DEF Jobs
    <3> HIDE DEF j
    <3>3. Placed(j, Kind)
      BY <1>1, <3>2, Zenon DEF Placed
    <3>4. GoOn(j)
      BY <2>3 DEF j
    <3> QED BY <1>1, <3>2, <3>3, <3>4, GoOnContinues
  <2> QED BY <2>1, <2>2, <2>3, Zenon DEF StationsRead
<1>3. RestOK' /\ UNCHANGED <<account, sent>> /\ token' \in {None, account}
  <2>1. plant' \in BOOLEAN
    BY <1>1, Zenon DEF StationsRead, TypeOK
  <2> QED BY <1>1, <2>1, Zenon DEF StationsRead, RestOK, TypeOK, server, IInv, SessionOfAccount
<1> QED BY <1>1, <1>2, <1>3, MovedKeeps

\* An answer of the writes.
LEMMA WriteKeeps ==
  ASSUME SessionAssumption, IInv, ModeWritten \/ ConfigWritten \/ CommandSent
  PROVE  IInv'
<1>1. /\ Running /\ Placed(job, Kind) /\ TypeOK /\ \A a \in Answers : Answer(a) => Moved
  BY OutCall DEF ModeWritten, ConfigWritten, CommandSent
<1>2. CASE Dispatched /\ (Answer("done") \/ Answer("unsure"))
  <2>1. Ended({"done", "unsure"})
    BY <1>1, <1>2, AnswerEnds, Zenon
  <2>2. job.vals \in Partial \/ Kind \notin Tracked
    <3>1. CASE ModeWritten
      <4>1. job.then = "write"
        BY <1>1, <3>1, SMT DEF ModeWritten, Placed
      <4> QED BY <1>1, <4>1 DEF Placed
    <3>2. CASE ConfigWritten \/ CommandSent
      BY <3>2, SMT DEF ConfigWritten, CommandSent, Tracked
    <3> QED BY <3>1, <3>2
  <2> QED BY <1>1, <1>2, <2>1, <2>2, DispatchedKeeps
<1>3. CASE Quiet /\ Answer(TurnedDown)
  <2>1. Moved
    BY <1>1, <1>3, Zenon DEF TurnedDown, Answers
  <2> QED BY <1>1, <1>3, <2>1, QuietMoves DEF Quiet
<1> QED BY <1>2, <1>3 DEF ModeWritten, ConfigWritten, CommandSent

-----------------------------------------------------------------------------
\* The charger and the clock.
LEMMA HeadAndTail ==
  ASSUME NEW S, NEW s \in Seq(S), s # << >>
  PROVE  Head(s) \in S /\ Tail(s) \in Seq(S)
  BY SMT

\* What the cloud and the clock do alone.
LEMMA CloudKeeps ==
  ASSUME SessionAssumption, IInv, Land \/ Sinks \/ (\E t \in Timers : Over(t))
  PROVE  IInv'
<1>1. /\ call' = call /\ status' = status /\ job' = job /\ account' = account /\ token' = token
      /\ rejected' = rejected /\ plant' = plant /\ pending' = pending /\ cancel' = cancel
      /\ closed' = closed
      /\ sent' = sent /\ rests' \subseteq rests
  BY Zenon DEF Land, Sinks, Over, session, server
<1>2. afloat' \in Seq([asked : SUBSET Fields, vals : Partial]) /\ settings' \in Settings
  <2>1. settings \in Settings /\ afloat \in Seq([asked : SUBSET Fields, vals : Partial])
    BY DEF IInv, TypeOK
  <2>2. CASE afloat # << >> /\ afloat' = Tail(afloat) /\ settings' = settings
    BY <2>1, <2>2, SMT
  <2>3. CASE Land
    <3>1. Head(afloat) \in [asked : SUBSET Fields, vals : Partial] /\ afloat' \in Seq([asked : SUBSET Fields, vals : Partial])
      BY <2>1, <2>3, HeadAndTail DEF Land
    <3>2. Head(afloat).vals \in Partial
      BY <3>1
    <3>3. \A f \in Fields : (IF Head(afloat).vals[f] = None THEN settings[f] ELSE Head(afloat).vals[f]) \in Values
      BY <2>1, <3>2, Zenon DEF Partial, Settings
    <3> QED BY <2>3, <3>1, <3>3, Zenon DEF Land, Settings
  <2> QED BY <2>1, <2>2, <2>3, Zenon DEF Land, Sinks, Over, server
<1>3. TypeOK'
  <2>1. RestOK'
    BY <1>1, <1>2, Zenon DEF IInv, TypeOK, RestOK
  <2>2. job' \in Jobs /\ pending' \in Partial \cup {None}
    BY <1>1, Zenon DEF IInv, TypeOK, Jobs
  <2>3. /\ call' \in [Calls -> Request \cup {None}]
        /\ status' \in [Calls -> {"idle", "waiting", "running"} \cup Answers]
    BY <1>1, Zenon DEF IInv, TypeOK
  <2> QED BY <2>1, <2>2, <2>3, AllTypes
<1>4. JobInv' /\ SentInv' /\ SessionOfAccount'
  BY <1>1, Zenon DEF IInv, JobInv, Kind, SentInv, SessionOfAccount
<1> QED BY <1>3, <1>4 DEF IInv

\* The invariant holds at the start.
LEMMA InitIInv == ASSUME SessionAssumption, Init PROVE IInv
<1>1. NoJob \in Jobs /\ NoJob.at = "none" /\ NoJob.call = 0
  BY SMT DEF NoJob, Jobs, SessionAssumption
<1>2. TypeOK
  <2>1. << >> \in Seq([asked : SUBSET Fields, vals : Partial]) /\ 0 \in Nat
    BY SMT
  <2>2. [c \in Calls |-> 0] \in [Calls -> Nat]
    BY <2>1, Zenon
  <2> QED BY <1>1, <2>1, <2>2, Zenon DEF Init, TypeOK, Jobs, SessionAssumption
<1>3. JobInv
  BY <1>1, SMT DEF Init, JobInv, SessionAssumption
<1>4. SentInv /\ SessionOfAccount
  BY <1>1, SMT DEF Init, SentInv, SessionOfAccount
<1> QED BY <1>2, <1>3, <1>4 DEF IInv

\* Every step keeps the invariant.
LEMMA NextIInv == ASSUME SessionAssumption, IInv, [Next]_vars PROVE IInv'
<1>1. CASE \E c \in Calls : \E r \in Requests[c] : Ask(c, r)
  BY <1>1, AskStep
<1>2. CASE \E c \in Calls : GiveUp(c) \/ LockStep(c)
  BY <1>2, GiveUpStep, TakeStep DEF LockStep
<1>3. CASE JobStep
  BY <1>3, LoginStepKeeps, SendKeeps, ExpiredKeeps, LimitedKeeps, LegacyKeeps, ReadKeeps,
     DetailKeeps, StationsKeeps, WriteKeeps DEF JobStep, AnswerStep
<1>4. CASE Land \/ Sinks \/ \E t \in Timers : Over(t)
  BY <1>4, CloudKeeps
<1>5. CASE UNCHANGED vars
  <2>1. /\ call' = call /\ status' = status /\ job' = job /\ account' = account /\ token' = token
        /\ rejected' = rejected /\ rests' = rests /\ plant' = plant /\ pending' = pending
        /\ cancel' = cancel /\ closed' = closed /\ settings' = settings /\ afloat' = afloat
        /\ sent' = sent
    BY <1>5 DEF vars, session, server
  <2>2. TypeOK'
    <3>1. RestOK'
      BY <2>1, Zenon DEF IInv, TypeOK, RestOK
    <3>2. job' \in Jobs /\ pending' \in Partial \cup {None}
      BY <2>1, Zenon DEF IInv, TypeOK, Jobs
    <3>3. /\ call' \in [Calls -> Request \cup {None}]
          /\ status' \in [Calls -> {"idle", "waiting", "running"} \cup Answers]
      BY <2>1, Zenon DEF IInv, TypeOK
    <3> QED BY <3>1, <3>2, <3>3, AllTypes
  <2>3. JobInv' /\ SentInv' /\ SessionOfAccount'
    BY <2>1, Zenon DEF IInv, JobInv, Kind, SentInv, SessionOfAccount
  <2> QED BY <2>2, <2>3 DEF IInv
<1> QED BY <1>1, <1>2, <1>3, <1>4, <1>5 DEF Next

\* IInv is an invariant of the client (sems_api.py, all calls under _lock).
THEOREM SessionInvariant == Spec => []IInv
<1>1. Init => IInv
  BY SessionAssumption, InitIInv
<1>2. IInv /\ [Next]_vars => IInv'
  BY SessionAssumption, NextIInv
<1> QED BY <1>1, <1>2, PTL DEF Spec

\* TypeOK: the state of SemsApi keeps its types.
THEOREM SessionTypes == Spec => []TypeOK
<1>1. IInv => TypeOK
  BY DEF IInv
<1> QED BY <1>1, SessionInvariant, PTL

\* DoneAtMostOnce: no call reaches the charger twice, and none that was refused
\* reaches it at all, through renewals, cooldowns and retries (sems_api.py, _post_*).
THEOREM AtMostOnce == Spec => []DoneAtMostOnce
<1>1. IInv => DoneAtMostOnce
  BY SMT DEF IInv, SentInv, DoneAtMostOnce
<1> QED BY <1>1, SessionInvariant, PTL

\* SessionOfAccount: no request is sent with a session of credentials that were
\* replaced meanwhile (SemsApi.replace_credentials, _login).
THEOREM OwnSession == Spec => []SessionOfAccount
<1>1. IInv => SessionOfAccount
  BY DEF IInv
<1> QED BY <1>1, SessionInvariant, PTL

-----------------------------------------------------------------------------
(* The fence of an unconfirmed write: however many calls there are and writes under
   way, a late write changes no setting that it was not asked to change.  IInv says
   which call has the lock. *)

\* A write afloat that changes nothing when it lands.
Harmless(e) == \A f \in Fields : e.vals[f] \in {None, settings[f]}
AllHarmless == \A i \in 1..Len(afloat) : Harmless(afloat[i])

\* One that changes only what it was asked to change.
Own(asked, vals) == \A f \in Fields \ asked : vals[f] \in {None, settings[f]}

\* The newest write afloat is the one that is pending, and alone may change anything.
NewestPending ==
    \A i \in 1..Len(afloat) :
        \/ Harmless(afloat[i])
        \/ /\ i = Len(afloat) /\ afloat[i].vals = pending
           /\ Own(afloat[i].asked, afloat[i].vals)

\* Who is about to write has nothing before it, and has been noted.
NextPending ==
    job.call # 0 /\ Kind \in Tracked /\ job.then = "write" =>
        AllHarmless /\ pending = job.vals /\ Own(AskedFields, job.vals)

FenceInv ==
    /\ NewestPending /\ NextPending
    /\ pending = None => AllHarmless
    /\ job.read \in Settings => AllHarmless /\ job.read = settings

\* What a step of the call with the lock does to the fence.
Quietly ==
    /\ UNCHANGED <<call, pending>> /\ job'.call = job.call /\ job'.read = job.read
    /\ job'.then # "write" \/ (job'.then = job.then /\ job'.vals = job.vals)
GivesUp ==
    job' = NoJob /\ (pending' = pending \/ (AllHarmless /\ pending' = None))
Prepares ==
    /\ AllHarmless /\ UNCHANGED call /\ job'.call = job.call
    /\ job'.read \in Settings => job'.read = settings
    /\ job'.then = "write" => pending' = job'.vals /\ Own(AskedFields, job'.vals)

Fences == Quietly \/ GivesUp \/ Prepares

Known == SessionAssumption /\ IInv /\ FenceInv /\ Running /\ job \in Jobs /\ Placed(job, Kind)

-----------------------------------------------------------------------------
(* The steps of the call with the lock.                                      *)

\* A call that has read nothing is told from one that has.
LEMMA NoneIsNoSettings == SessionAssumption => None \notin Settings
  BY Zenon DEF SessionAssumption, Settings, Partial

\* What is known when a request is possible.
LEMMA KnownRunning ==
  ASSUME SessionAssumption, IInv, FenceInv, job.at # "none"
  PROVE  Known
  BY RunningCall DEF Known, IInv

\* An answer gives up the fence only when nothing afloat can do harm.
LEMMA AnswerFences ==
  ASSUME Known, NEW a, Answer(a)
  PROVE  Fences
<1>1. job' = NoJob /\ pending' = FenceAfter(a)
  BY DEF Answer
<1>2. CASE Kind \in Tracked /\ job.then = "write"
  <2>1. AllHarmless
    BY <1>2, SMT DEF Known, FenceInv, NextPending, Running, SessionAssumption
  <2> QED BY <1>1, <2>1, Zenon DEF Fences, GivesUp, FenceAfter
<1>3. CASE ~(Kind \in Tracked /\ job.then = "write")
  BY <1>1, <1>3, Zenon DEF Fences, GivesUp, FenceAfter
<1> QED BY <1>2, <1>3

\* A call that goes on with the same values leaves the fence.
LEMMA GoOnFences ==
  ASSUME NEW j, GoOn(j), j.call = job.call, j.read = job.read,
         j.then # "write" \/ (j.then = job.then /\ j.vals = job.vals)
  PROVE  Fences
  BY Zenon DEF Fences, Quietly, GoOn

\* A step that is no write leaves the fence.
LEMMA GoesFences ==
  ASSUME Known, NEW step \in Steps \ {"write"}, Goes(step)
  PROVE  Fences
<1>1. /\ To(job, step).call = job.call /\ To(job, step).read = job.read
      /\ To(job, step).then = step
  BY ToIsJob DEF Known
<1> QED BY <1>1, GoOnFences DEF Goes

\* What a write was not asked for is as it was read.
LEMMA OwnCandidate ==
  ASSUME NEW r \in Request, NEW f \in Fields \ Asks(r)
  PROVE  Candidate(r, settings)[f] \in {None, settings[f]}
  BY Zenon DEF Asks, Candidate

\* A write that is prepared behind the fence is noted, and changes only its own fields.
LEMMA WriteFences ==
  ASSUME Known, AllHarmless, NEW vals, vals = Candidate(call[job.call], settings),
         job' = [To(job, "write") EXCEPT !.vals = vals], pending' = vals, call' = call,
         job.read \in Settings => job.read = settings
  PROVE  Fences
<1>1. "write" \in Steps
  BY DEF Steps
<1>2. /\ To(job, "write") \in Jobs /\ To(job, "write").call = job.call
      /\ To(job, "write").read = job.read
  BY <1>1, ToIsJob DEF Known
<1>3. job'.call = job.call /\ job'.read = job.read /\ job'.vals = vals
  BY <1>2, Zenon DEF Jobs
<1>4. Own(AskedFields, vals)
  <2>1. call[job.call] \in Request
    BY DEF Known, Running
  <2> QED BY <2>1, OwnCandidate, Zenon DEF Own, AskedFields
<1> QED BY <1>3, <1>4, Zenon DEF Fences, Prepares

\* Reading a status again leaves the fence.
LEMMA IncoherentFences ==
  ASSUME Known, Incoherent
  PROVE  Fences
<1>1. CASE job.round + 1 < Rounds
  <2>1. "equipment" \in Steps
    BY DEF Steps
  <2>2. /\ To(job, "equipment") \in Jobs /\ To(job, "equipment").call = job.call
        /\ To(job, "equipment").read = job.read /\ To(job, "equipment").then = "equipment"
    BY <2>1, ToIsJob DEF Known
  <2> DEFINE j == [To(job, "equipment") EXCEPT !.at = "pause", !.round = @ + 1, !.whole = TRUE]
  <2>3. j.call = job.call /\ j.read = job.read /\ j.then = "equipment"
    BY <2>2, Zenon DEF Jobs
  <2>4. GoOn(j)
    BY <1>1 DEF Incoherent
  <2> HIDE DEF j
  <2> QED BY <2>3, <2>4, GoOnFences
<1>2. CASE ~(job.round + 1 < Rounds)
  BY <1>2, AnswerFences DEF Incoherent
<1> QED BY <1>1, <1>2

\* A minimum-power write goes on with the settings it read behind the fence.
LEMMA ObservedFences ==
  ASSUME Known, Observed, ForStatus \/ job.step = "legacy"
  PROVE  Fences
<1>1. CASE Answer("done") \/ Answer("refused")
  BY <1>1, AnswerFences
<1>2. CASE Kind = "floor" /\ Write(job.read)
  <2>1. job.read \in Settings
    <3>1. job.step = "legacy" => job.then # "detail"
      BY SMT DEF Known, Placed
    <3>2. job.read \in Settings \cup {None}
      BY Zenon DEF Known, Jobs
    <3> QED BY <1>2, <3>1, <3>2, SMT DEF Known, Placed, ForStatus
  <2>2. AllHarmless /\ job.read = settings
    BY <2>1 DEF Known, FenceInv
  <2>3. Kind \in Tracked
    BY <1>2 DEF Tracked
  <2> QED BY <1>2, <2>2, <2>3, WriteFences DEF Write
<1> QED BY <1>1, <1>2 DEF Observed

\* A status put together.
LEMMA CombineFences ==
  ASSUME Known, Combine, ForStatus
  PROVE  Fences
  BY IncoherentFences, ObservedFences, AnswerFences DEF Combine

\* A step that brought nothing leaves the fence.
LEMMA NothingFences ==
  ASSUME Known, Nothing
  PROVE  Fences
<1>1. CASE job.step = "stations" /\ job.then \in {"equipment", "detail"}
  <2> DEFINE j == [job EXCEPT !.step = job.then, !.at = "send", !.renewed = FALSE, !.tries = 1]
  <2>1. j.call = job.call /\ j.read = job.read /\ j.then = job.then /\ j.vals = job.vals
    BY Zenon DEF Known, Jobs
  <2>2. GoOn(j)
    BY <1>1, SMT DEF Nothing
  <2> HIDE DEF j
  <2> QED BY <2>1, <2>2, GoOnFences
<1>2. CASE GoOn([To(job, "detail") EXCEPT !.whole = FALSE])
  <2>1. "detail" \in Steps
    BY DEF Steps
  <2>2. /\ To(job, "detail") \in Jobs /\ To(job, "detail").call = job.call
        /\ To(job, "detail").read = job.read /\ To(job, "detail").then = "detail"
    BY <2>1, ToIsJob DEF Known
  <2> DEFINE j == [To(job, "detail") EXCEPT !.whole = FALSE]
  <2>3. j.call = job.call /\ j.read = job.read /\ j.then = "detail"
    BY <2>2, Zenon DEF Jobs
  <2> HIDE DEF j
  <2> QED BY <1>2, <2>3, GoOnFences DEF j
<1>3. CASE job.step = "detail" /\ ForStatus /\ Combine
  BY <1>3, CombineFences
<1>4. CASE Answer(Declined)
  BY <1>4, AnswerFences
<1> QED BY <1>1, <1>2, <1>3, <1>4, SMT DEF Nothing

\* A write that is confirmed changes nothing any more.
LEMMA ConfirmedHarmless ==
  ASSUME FenceInv, Confirms(settings)
  PROVE  AllHarmless
  BY Zenon DEF FenceInv, Confirms, AllHarmless, NewestPending, Harmless

\* A call passes the fence only behind harmless writes.
LEMMA FencedFences ==
  ASSUME Known, Fenced
  PROVE  Fences
<1>1. CASE Answer("refused")
  BY <1>1, AnswerFences
<1>2. CASE Confirms(settings) /\ ~Answer("refused")
  <2>1. AllHarmless
    BY <1>2, ConfirmedHarmless DEF Known
  <2>2. job.read \in Settings => job.read = settings
    BY DEF Known, FenceInv
  <2>3. CASE \E vals : /\ vals = Candidate(call[job.call], settings)
                       /\ pending' = vals /\ job' = [To(job, "write") EXCEPT !.vals = vals]
                       /\ UNCHANGED <<call, status>>
    BY <2>1, <2>2, <2>3, WriteFences
  <2>4. CASE /\ job' = [To(job, StatusStep) EXCEPT !.read = settings]
             /\ pending' = None /\ UNCHANGED <<call, status>>
    <3>1. StatusStep \in Steps \ {"write"}
      BY Zenon DEF StatusStep, Steps
    <3>2. /\ To(job, StatusStep) \in Jobs /\ To(job, StatusStep).call = job.call
          /\ To(job, StatusStep).then = StatusStep
      BY <3>1, ToIsJob DEF Known
    <3>3. job'.call = job.call /\ job'.read = settings /\ job'.then = StatusStep
      BY <2>4, <3>2, Zenon DEF Jobs
    <3> QED BY <2>1, <2>4, <3>1, <3>3, Zenon DEF Fences, Prepares
  <2>5. CASE job' = NoJob /\ pending' = None
    BY <2>1, <2>5 DEF Fences, GivesUp
  <2> QED BY <1>2, <2>3, <2>4, <2>5, Zenon DEF Fenced
<1> QED BY <1>1, <1>2 DEF Fenced

\* A login leaves the fence.
LEMMA LoginFences ==
  ASSUME Known, LoginStep
  PROVE  Fences
<1>1. CASE \E a : Answer(a)
  BY <1>1, AnswerFences
<1>2. CASE Nothing
  BY <1>2, NothingFences
<1>3. ASSUME NEW at, NEW as,
             job' = [job EXCEPT !.at = at, !.as = as] \/ job' = [job EXCEPT !.at = at],
             UNCHANGED <<call, pending>>
      PROVE  Fences
  <2>1. /\ job'.call = job.call /\ job'.read = job.read
        /\ job'.then = job.then /\ job'.vals = job.vals
    BY <1>3, Zenon DEF Known, Jobs
  <2> QED BY <1>3, <2>1 DEF Fences, Quietly
<1>4. CASE Login \/ LoginElsewhere
  BY <1>3, <1>4, Zenon DEF Login, LoginElsewhere
<1>5. CASE LoginGranted
  <2>1. Answer("done") \/ GoOn([job EXCEPT !.at = "send", !.as = None])
    BY <1>5, Zenon DEF LoginGranted
  <2> QED BY <1>1, <1>3, <2>1 DEF GoOn
<1>6. CASE NoLogin \/ LoginRejected \/ LoginFailed
  BY <1>1, <1>2, <1>6, Zenon DEF NoLogin, LoginRejected, LoginFailed
<1> QED BY <1>4, <1>5, <1>6 DEF LoginStep

\* A request that is sent, refused or renewed leaves the fence.
LEMMA RequestFences ==
  ASSUME Known, NotSent \/ Send \/ Resume \/ Expired \/ Denied \/ Limited
  PROVE  Fences
<1>1. CASE \E a : Answer(a)
  BY <1>1, AnswerFences
<1>2. CASE Nothing
  BY <1>2, NothingFences
<1>3. CASE Send
  <2>1. /\ job'.call = job.call /\ job'.read = job.read
        /\ job'.then = job.then /\ job'.vals = job.vals
    BY <1>3, Zenon DEF Known, Jobs, Send
  <2> QED BY <1>3, <2>1 DEF Fences, Quietly, Send
<1>4. CASE GoOn([job EXCEPT !.at = "send", !.as = None])
  <2> DEFINE j == [job EXCEPT !.at = "send", !.as = None]
  <2>1. j.call = job.call /\ j.read = job.read /\ j.then = job.then /\ j.vals = job.vals
    BY Zenon DEF Known, Jobs
  <2> HIDE DEF j
  <2> QED BY <1>4, <2>1, GoOnFences DEF j
<1>5. CASE Expired /\ MayRenew
  <2> DEFINE j == [job EXCEPT !.at = "send", !.as = None, !.renewed = TRUE,
                              !.tries = IF job.step = "detail" THEN @ + 1 ELSE @]
  <2>1. j.call = job.call /\ j.read = job.read /\ j.then = job.then /\ j.vals = job.vals
    BY Zenon DEF Known, Jobs
  <2>2. GoOn(j)
    BY <1>5 DEF Expired
  <2> HIDE DEF j
  <2> QED BY <2>1, <2>2, GoOnFences
<1>6. CASE Expired /\ ~MayRenew
  <2>1. Answer(TurnedDown) \/ Answer("refused") \/ Nothing
    BY <1>6, SMT DEF Expired
  <2> QED BY <1>1, <1>2, <2>1
<1>7. CASE NotSent \/ Denied \/ Limited
  BY <1>1, <1>7 DEF NotSent, Denied, Limited
<1>8. CASE Resume
  BY <1>1, <1>4, <1>8, Zenon DEF Resume
<1> QED BY <1>3, <1>5, <1>6, <1>7, <1>8

\* The answers of reads.
LEMMA ReadFences ==
  ASSUME Known, LegacyRead \/ EquipmentRead \/ SessionRead \/ DetailRead \/ StationsRead
                \/ HintRead \/ DeviceRead \/ ChargersRead
  PROVE  Fences
<1>1. CASE \E a : Answer(a)
  BY <1>1, AnswerFences
<1>2. CASE Nothing
  BY <1>2, NothingFences
<1>3. CASE \E step \in {"equipment", "session", "detail"} : Goes(step)
  BY <1>3, GoesFences DEF Steps
<1>4. CASE LegacyRead
  BY <1>1, <1>3, <1>4, ObservedFences, Zenon DEF LegacyRead
<1>5. CASE EquipmentRead
  BY <1>1, <1>3, <1>5, IncoherentFences, Zenon DEF EquipmentRead
<1>6. CASE SessionRead
  BY <1>1, <1>2, <1>3, <1>6, Zenon DEF SessionRead
<1>7. CASE DetailRead
  <2>1. CASE GoOn([job EXCEPT !.at = "pause", !.tries = @ + 1])
    <3> DEFINE j == [job EXCEPT !.at = "pause", !.tries = @ + 1]
    <3>1. j.call = job.call /\ j.read = job.read /\ j.then = job.then /\ j.vals = job.vals
      BY Zenon DEF Known, Jobs
    <3> HIDE DEF j
    <3> QED BY <2>1, <3>1, GoOnFences DEF j
  <2>2. CASE ForStatus /\ Combine
    BY <2>2, CombineFences
  <2>3. CASE Fenced
    BY <2>3, FencedFences
  <2> QED BY <1>1, <1>2, <1>7, <2>1, <2>2, <2>3, SMT DEF DetailRead
<1>8. CASE StationsRead
  <2>1. CASE GoOn([job EXCEPT !.step = job.then, !.at = "send", !.as = None, !.tries = 1])
    <3> DEFINE j == [job EXCEPT !.step = job.then, !.at = "send", !.as = None, !.tries = 1]
    <3>1. j.call = job.call /\ j.read = job.read /\ j.then = job.then /\ j.vals = job.vals
      BY Zenon DEF Known, Jobs
    <3> HIDE DEF j
    <3> QED BY <2>1, <3>1, GoOnFences DEF j
  <2> QED BY <1>1, <1>2, <1>8, <2>1, Zenon DEF StationsRead
<1>9. CASE HintRead \/ DeviceRead \/ ChargersRead
  BY <1>1, <1>2, <1>9, Zenon DEF HintRead, DeviceRead, ChargersRead
<1> QED BY <1>4, <1>5, <1>6, <1>7, <1>8, <1>9

-----------------------------------------------------------------------------
(* The invariant.                                                            *)

\* The writes afloat and the settings are as they were.
LEMMA FencesKeep ==
  ASSUME Known, Fences, UNCHANGED <<settings, afloat>>
  PROVE  FenceInv'
<1>0. NoJob.call = 0 /\ NoJob.read = None /\ None \notin Settings
  BY NoneIsNoSettings DEF NoJob, Known
<1>1. AllHarmless' <=> AllHarmless
  BY Zenon DEF AllHarmless, Harmless
<1>2. CASE Quietly
  <2>1. Kind' = Kind /\ AskedFields' = AskedFields
    BY <1>2 DEF Quietly, Kind, AskedFields
  <2>2. NewestPending'
    BY <1>2, Zenon DEF Known, FenceInv, NewestPending, Harmless, Own, Quietly
  <2>3. NextPending'
    BY <1>1, <1>2, <2>1, Zenon DEF Known, FenceInv, NextPending, Own, Quietly
  <2> QED BY <1>1, <1>2, <2>2, <2>3, Zenon DEF Known, FenceInv, Quietly
<1>3. CASE GivesUp
  <2>1. NewestPending'
    BY <1>1, <1>3, Zenon DEF Known, FenceInv, NewestPending, Harmless, AllHarmless, Own, GivesUp
  <2> QED BY <1>0, <1>1, <1>3, <2>1, Zenon DEF Known, FenceInv, NextPending, GivesUp
<1>4. CASE Prepares
  <2>1. Kind' = Kind /\ AskedFields' = AskedFields
    BY <1>4 DEF Prepares, Kind, AskedFields
  <2>2. NewestPending'
    BY <1>1, <1>4, Zenon DEF NewestPending, AllHarmless, Prepares
  <2> QED BY <1>1, <1>4, <2>1, <2>2, Zenon DEF FenceInv, NextPending, Own, Prepares
<1> QED BY <1>2, <1>3, <1>4 DEF Fences

\* The write that is sent is the newest.
LEMMA DispatchedFences ==
  ASSUME Known, Dispatched, NEW a, a # "refused", Answer(a), job.then = "write"
  PROVE  FenceInv'
<1>1. job' = NoJob /\ pending' = pending /\ settings' = settings
  BY Zenon DEF Answer, FenceAfter, Dispatched
<1>2. NoJob.call = 0 /\ NoJob.read = None /\ None \notin Settings
  BY NoneIsNoSettings DEF NoJob, Known
<1>3. CASE Kind \notin Tracked
  <2>1. afloat' = afloat
    BY <1>3, Zenon DEF Dispatched
  <2> QED BY <1>1, <2>1, FencesKeep DEF Fences, GivesUp
<1>4. CASE Kind \in Tracked
  <2>1. /\ AllHarmless /\ pending = job.vals /\ Own(AskedFields, job.vals)
        /\ job.vals \in Partial
    BY <1>4, SMT DEF Known, FenceInv, NextPending, Running, SessionAssumption, Placed
  <2> DEFINE e == [asked |-> AskedFields, vals |-> job.vals]
  <2>2. e.asked = AskedFields /\ e.vals = job.vals
    OBVIOUS
  <2>3. afloat' = Append(afloat, e)
    BY <1>4 DEF Dispatched
  <2> HIDE DEF e
  <2>4. /\ Len(afloat') = Len(afloat) + 1 /\ afloat'[Len(afloat) + 1] = e
        /\ Len(afloat) \in Nat /\ \A i \in 1..Len(afloat) : afloat'[i] = afloat[i]
    BY <2>3, SMT DEF Known, IInv, TypeOK
  <2>5. \A i \in 1..Len(afloat') : i \in 1..Len(afloat) \/ i = Len(afloat')
    BY <2>4, SMT
  <2>6. NewestPending'
    <3>1. ASSUME NEW i \in 1..Len(afloat)
          PROVE  \A f \in Fields : afloat'[i].vals[f] \in {None, settings'[f]}
      BY <1>1, <2>1, <2>4, Zenon DEF AllHarmless, Harmless
    <3>2. \A f \in Fields \ afloat'[Len(afloat')].asked :
             afloat'[Len(afloat')].vals[f] \in {None, settings'[f]}
      BY <1>1, <2>1, <2>2, <2>4, Zenon DEF Own
    <3>3. afloat'[Len(afloat')].vals = pending'
      BY <1>1, <2>1, <2>2, <2>4, Zenon
    <3> QED BY <2>5, <3>1, <3>2, <3>3, Zenon DEF NewestPending, Harmless, Own
  <2>7. pending' # None
    BY <1>1, <2>1, SMT DEF Known, SessionAssumption
  <2> QED BY <1>1, <1>2, <2>6, <2>7, Zenon DEF FenceInv, NextPending
<1> QED BY <1>3, <1>4

\* The steps of the call with the lock keep FenceInv.
LEMMA JobStepFenced ==
  ASSUME SessionAssumption, IInv, FenceInv, JobStep
  PROVE  FenceInv'
<1>1. Known
  <2>1. job.at # "none"
    BY SMT DEF JobStep, LoginStep, NoLogin, Login, LoginGranted, LoginRejected, LoginElsewhere,
       LoginFailed, NotSent, Send, Resume, AnswerStep, Expired, Denied, Limited, LegacyRead,
       EquipmentRead, SessionRead, DetailRead, StationsRead, HintRead, DeviceRead, ChargersRead,
       ModeWritten, ConfigWritten, CommandSent, Sending, Out
  <2> QED BY <2>1, KnownRunning
<1>2. CASE LoginStep \/ NotSent \/ Send \/ Resume
  <2>1. UNCHANGED <<settings, afloat>>
    BY <1>2 DEF LoginStep, NoLogin, Login, LoginGranted, LoginRejected, LoginElsewhere,
       LoginFailed, NotSent, Send, Resume, server
  <2> QED BY <1>1, <1>2, <2>1, LoginFences, RequestFences, FencesKeep
<1>3. CASE Expired \/ Denied \/ Limited
  <2>1. UNCHANGED <<settings, afloat>>
    BY <1>3 DEF Expired, Denied, Limited, server
  <2> QED BY <1>1, <1>3, <2>1, RequestFences, FencesKeep
<1>4. CASE LegacyRead \/ EquipmentRead \/ SessionRead \/ DetailRead \/ StationsRead
           \/ HintRead \/ DeviceRead \/ ChargersRead
  <2>1. UNCHANGED <<settings, afloat>>
    BY <1>4 DEF LegacyRead, EquipmentRead, SessionRead, DetailRead, StationsRead, HintRead,
       DeviceRead, ChargersRead, Quiet, server
  <2> QED BY <1>1, <1>4, <2>1, ReadFences, FencesKeep
<1>5. CASE ModeWritten \/ ConfigWritten \/ CommandSent
  <2>1. CASE Quiet /\ Answer(TurnedDown)
    BY <1>1, <2>1, AnswerFences, FencesKeep DEF Quiet, server
  <2>2. CASE Dispatched /\ (Answer("done") \/ Answer("unsure"))
    <3>1. job.then = "write"
      BY <1>1, <1>5, SMT DEF Known, Placed, ModeWritten, ConfigWritten, CommandSent
    <3> QED BY <1>1, <2>2, <3>1, DispatchedFences
  <2> QED BY <1>5, <2>1, <2>2 DEF ModeWritten, ConfigWritten, CommandSent
<1> QED BY <1>2, <1>3, <1>4, <1>5 DEF JobStep, AnswerStep

\* A write is begun at once only when none is pending.
LEMMA TakeFenced ==
  ASSUME SessionAssumption, IInv, FenceInv, NEW c \in Calls, Take(c)
  PROVE  FenceInv'
<1> DEFINE j == [NoJob EXCEPT !.call = c]
           step == FirstStep(c)
           vals == Candidate(call[c], settings)
<1>1. /\ status[c] = "waiting" /\ job = NoJob
      /\ job' = [To(j, step) EXCEPT !.vals = IF step = "write" THEN vals ELSE None]
      /\ pending' = IF call[c].kind \in Tracked /\ step = "write" THEN vals ELSE pending
      /\ call' = call /\ settings' = settings /\ afloat' = afloat
      /\ call[c].kind \notin {"replace", "close"}
  BY Zenon DEF Take, server
<1>2. call[c] \in Request
  BY <1>1, Zenon DEF IInv, JobInv
<1>3. step \in Steps
  <2>1. call[c].kind \in Kinds
    BY <1>2, Zenon DEF Request
  <2> QED BY <1>1, <2>1, SMT DEF FirstStep, StatusStep, Kinds, Reads, Writes, Tracked, Steps
<1>4. call[c].kind \in Tracked /\ step = "write" => pending = None
  BY SMT DEF FirstStep, StatusStep, Tracked
<1>5. j \in Jobs /\ j.call = c /\ j.read = None /\ None \notin Settings
  <2>1. NoJob \in Jobs /\ NoJob.read = None
    BY SMT DEF NoJob, Jobs, SessionAssumption
  <2> QED BY <2>1, NoneIsNoSettings, Zenon DEF Jobs
<1>6. /\ To(j, step) \in Jobs /\ To(j, step).call = c /\ To(j, step).read = None
      /\ To(j, step).then = step
  <2> HIDE DEF j, step
  <2> QED BY <1>3, <1>5, ToIsJob
<1>7. Own(Asks(call[c]), vals)
  BY <1>2, OwnCandidate, Zenon DEF Own
<1> HIDE DEF j, vals, step
<1>8. /\ job'.call = c /\ job'.read = None /\ job'.then = step
      /\ step = "write" => job'.vals = vals
  BY <1>1, <1>6, Zenon DEF Jobs
<1>9. Kind' = call[c].kind /\ AskedFields' = Asks(call[c])
  BY <1>1, <1>8 DEF Kind, AskedFields
<1>10. AllHarmless' <=> AllHarmless
  BY <1>1, Zenon DEF AllHarmless, Harmless
<1>11. CASE call[c].kind \in Tracked /\ step = "write"
  <2>1. AllHarmless
    BY <1>4, <1>11 DEF FenceInv
  <2>2. NewestPending'
    BY <1>10, <2>1, Zenon DEF NewestPending, AllHarmless
  <2>3. NextPending'
    BY <1>1, <1>7, <1>8, <1>9, <1>10, <1>11, <2>1, Zenon DEF NextPending, Own
  <2> QED BY <1>5, <1>8, <1>10, <2>1, <2>2, <2>3, Zenon DEF FenceInv
<1>12. CASE ~(call[c].kind \in Tracked /\ step = "write")
  <2>1. NewestPending'
    BY <1>1, <1>12, Zenon DEF FenceInv, NewestPending, Harmless, Own
  <2> QED BY <1>1, <1>5, <1>8, <1>9, <1>10, <1>12, <2>1, Zenon DEF FenceInv, NextPending
<1> QED BY <1>11, <1>12

\* A call that comes or goes elsewhere in the queue.
LEMMA OtherFenced ==
  ASSUME SessionAssumption, IInv, FenceInv, UNCHANGED <<job, pending, settings, afloat>>,
         job.call # 0 => call'[job.call] = call[job.call]
  PROVE  FenceInv'
<1>1. AllHarmless' <=> AllHarmless
  BY Zenon DEF AllHarmless, Harmless
<1>2. job.call # 0 => Kind' = Kind /\ AskedFields' = AskedFields
  BY DEF Kind, AskedFields
<1>3. NewestPending'
  BY Zenon DEF FenceInv, NewestPending, Harmless, Own
<1>4. NextPending'
  BY <1>1, <1>2, Zenon DEF FenceInv, NextPending, Own
<1> QED BY <1>1, <1>3, <1>4, Zenon DEF FenceInv

\* The steps of the calls that wait keep FenceInv.
LEMMA QueueFenced ==
  ASSUME SessionAssumption, IInv, FenceInv, NEW c \in Calls,
         \/ \E r \in Requests[c] : Ask(c, r)
         \/ GiveUp(c) \/ TakeClosed(c) \/ ReplaceCredentials(c) \/ Close(c)
  PROVE  FenceInv'
<1>1. /\ status[c] \in {"idle", "waiting"} /\ UNCHANGED <<job, pending, settings, afloat>>
      /\ \E r : call' = [call EXCEPT ![c] = r]
  BY Zenon DEF Ask, GiveUp, TakeClosed, ReplaceCredentials, Close, Returns, session, server
<1>2. job.call # c /\ job.call \in {0} \cup Calls /\ call \in [Calls -> Request \cup {None}]
  BY <1>1, SMT DEF IInv, JobInv, TypeOK
<1>3. job.call # 0 => call'[job.call] = call[job.call]
  BY <1>1, <1>2, Zenon
<1> QED BY <1>1, <1>3, OtherFenced

\* Functions are equal that agree everywhere.
LEMMA SameFunction ==
  ASSUME NEW S, NEW T, NEW f \in [S -> T], NEW g \in [S -> T], \A x \in S : f[x] = g[x]
  PROVE  f = g
  OBVIOUS

\* The head of a sequence is its first element.
LEMMA HeadIsFirst ==
  ASSUME NEW S, NEW s \in Seq(S), s # << >>
  PROVE  Head(s) = s[1]
  BY SMT

\* The oldest write afloat takes effect or is lost.
LEMMA CloudFenced ==
  ASSUME SessionAssumption, IInv, FenceInv, Land \/ Sinks
  PROVE  FenceInv'
<1>1. /\ afloat # << >> /\ afloat \in Seq([asked : SUBSET Fields, vals : Partial])
      /\ settings \in Settings /\ settings' \in Settings
      /\ afloat' = Tail(afloat) /\ call' = call /\ job' = job /\ pending' = pending
  <2>1. settings' \in Settings
    BY CloudKeeps DEF IInv, TypeOK
  <2> QED BY <2>1, Zenon DEF Land, Sinks, IInv, TypeOK
<1>2. /\ Len(afloat) \in Nat \ {0} /\ Len(afloat') = Len(afloat) - 1
      /\ \A i \in 1..Len(afloat') : i + 1 \in 1..Len(afloat) /\ afloat'[i] = afloat[i + 1]
      /\ \A i \in 1..Len(afloat') : i + 1 = Len(afloat) => i = Len(afloat')
  BY <1>1, SMT
<1>3. settings' = settings \/ (Len(afloat') = 0 /\ ~AllHarmless)
  <2>1. Head(afloat) = afloat[1]
    BY <1>1, HeadIsFirst
  <2>2. 1 \in 1..Len(afloat)
    BY <1>2, SMT
  <2>3. CASE Harmless(afloat[1])
    <3>1. ASSUME NEW f \in Fields PROVE settings'[f] = settings[f]
      <4>1. afloat[1].vals[f] \in {None, settings[f]}
        BY <2>3 DEF Harmless
      <4>2. CASE Land
        BY <2>1, <4>1, <4>2, Zenon DEF Land
      <4>3. CASE Sinks
        BY <4>3 DEF Sinks
      <4> QED BY <4>2, <4>3
    <3>2. settings \in [Fields -> Values] /\ settings' \in [Fields -> Values]
      BY <1>1 DEF Settings
    <3>3. settings' = settings
      BY <3>1, <3>2, SameFunction
    <3> QED BY <3>3
  <2>4. CASE ~Harmless(afloat[1])
    <3>1. 1 = Len(afloat)
      BY <2>2, <2>4, Zenon DEF FenceInv, NewestPending
    <3>2. ~AllHarmless
      BY <2>2, <2>4, Zenon DEF AllHarmless
    <3>3. Len(afloat') = 0
      <4>1. Len(afloat') = Len(afloat) - 1
        BY <1>2
      <4> HIDE <1>2
      <4> QED BY <3>1, <4>1, SMT
    <3> QED BY <3>2, <3>3
  <2> QED BY <2>3, <2>4
<1>4. CASE settings' = settings
  <2>1. AllHarmless => AllHarmless'
    BY <1>2, <1>4, Zenon DEF AllHarmless, Harmless
  <2>2. Kind' = Kind /\ AskedFields' = AskedFields
    BY <1>1 DEF Kind, AskedFields
  <2>3. NewestPending'
    <3>1. ASSUME NEW i \in 1..Len(afloat'), NEW e, e = afloat'[i]
          PROVE  \/ \A f \in Fields : e.vals[f] \in {None, settings'[f]}
                 \/ /\ i = Len(afloat') /\ e.vals = pending'
                    /\ \A f \in Fields \ e.asked : e.vals[f] \in {None, settings'[f]}
      <4>1. PICK k \in 1..Len(afloat) : e = afloat[k] /\ (k = Len(afloat) => i = Len(afloat'))
        BY <1>2, <3>1, Zenon
      <4> QED BY <1>1, <1>4, <4>1, Zenon DEF FenceInv, NewestPending, Harmless, Own
    <3> QED BY <3>1, Zenon DEF NewestPending, Harmless, Own
  <2> QED BY <1>1, <1>4, <2>1, <2>2, <2>3, Zenon DEF FenceInv, NextPending, Own
<1>5. CASE Len(afloat') = 0 /\ ~AllHarmless
  <2>1. \A i \in 1..Len(afloat') : FALSE
    BY <1>5, SMT
  <2>2. AllHarmless' /\ NewestPending'
    BY <2>1, Zenon DEF AllHarmless, NewestPending
  <2>3. Kind' = Kind
    BY <1>1 DEF Kind
  <2> QED BY <1>1, <1>5, <2>2, <2>3, Zenon DEF FenceInv, NextPending
<1> QED BY <1>3, <1>4, <1>5

\* Every step keeps FenceInv.
LEMMA NextFenced ==
  ASSUME SessionAssumption, IInv, FenceInv, [Next]_vars
  PROVE  FenceInv'
<1>1. CASE \E c \in Calls : (\E r \in Requests[c] : Ask(c, r)) \/ GiveUp(c) \/ LockStep(c)
  BY <1>1, QueueFenced, TakeFenced DEF LockStep
<1>2. CASE JobStep
  BY <1>2, JobStepFenced
<1>3. CASE Land \/ Sinks
  BY <1>3, CloudFenced
<1>4. CASE UNCHANGED vars \/ \E t \in Timers : Over(t)
  <2>1. UNCHANGED <<call, job, pending, settings, afloat>>
    BY <1>4 DEF vars, Over, server
  <2> QED BY <2>1, OtherFenced
<1> QED BY <1>1, <1>2, <1>3, <1>4 DEF Next

\* FenceInv holds at the start.
LEMMA InitFenced == ASSUME SessionAssumption, Init PROVE FenceInv
<1>1. NoJob.call = 0 /\ NoJob.read = None /\ None \notin Settings
  BY NoneIsNoSettings DEF NoJob
<1>2. \A i \in 1..Len(afloat) : FALSE
  BY SMT DEF Init
<1> QED BY <1>1, <1>2, Zenon DEF Init, FenceInv, NewestPending, NextPending, AllHarmless

\* FenceInv is an invariant of the client: what is pending, in _pending_mode_edits,
\* is the newest write that may still take effect (sems_api.py, _confirm_previous_mode_edit).
THEOREM FenceInvariant == Spec => []FenceInv
<1>1. Init => FenceInv
  BY SessionAssumption, InitFenced
<1>2. IInv /\ FenceInv /\ [Next]_vars => FenceInv'
  BY SessionAssumption, NextFenced
<1> QED BY <1>1, <1>2, SessionInvariant, PTL DEF Spec

\* NothingReverted: when a write takes effect it is the newest one, or it changes
\* nothing, however late the cloud hands it on (sems_api.py, the pending mode edits).
THEOREM NothingUndone == Spec => NothingReverted
<1> DEFINE Kept == \A f \in Fields : settings'[f] # settings[f] => f \in Head(afloat).asked
<1>1. ASSUME IInv, FenceInv, [Next]_vars PROVE [Kept]_vars
  <2>1. CASE settings' = settings
    BY <2>1
  <2>2. CASE Land
    <3>1. /\ afloat # << >> /\ afloat \in Seq([asked : SUBSET Fields, vals : Partial])
          /\ \A f \in Fields : settings'[f] \in {settings[f], Head(afloat).vals[f]}
      BY <1>1, <2>2, Zenon DEF Land, IInv, TypeOK
    <3>2. Head(afloat) = afloat[1] /\ 1 \in 1..Len(afloat)
      BY <3>1, SMT
    <3>3. \/ Harmless(Head(afloat))
          \/ Own(Head(afloat).asked, Head(afloat).vals)
      BY <1>1, <3>2 DEF FenceInv, NewestPending
    <3>4. \A f \in Fields : Head(afloat).vals[f] # None \/ settings'[f] = settings[f]
      BY <2>2, Zenon DEF Land
    <3> QED BY <3>1, <3>3, <3>4, Zenon DEF Harmless, Own
  <2>3. Land \/ settings' = settings
    BY <1>1, Zenon DEF Next, Ask, GiveUp, LockStep, Take, TakeClosed, ReplaceCredentials, Close,
       JobStep, LoginStep, NoLogin, Login, LoginGranted, LoginRejected, LoginElsewhere,
       LoginFailed, NotSent, Send, Resume, AnswerStep, Expired, Denied, Limited, LegacyRead,
       EquipmentRead, SessionRead, DetailRead, StationsRead, HintRead, DeviceRead, ChargersRead,
       ModeWritten, ConfigWritten, CommandSent, Dispatched, Quiet, Sinks, Over, server, vars
  <2> QED BY <2>1, <2>2, <2>3
<1> QED BY <1>1, SessionInvariant, FenceInvariant, PTL DEF Spec, NothingReverted
=============================================================================

---------------------- MODULE WriteConfirmationProofs ----------------------
(***************************************************************************)
(* Theorems about WriteConfirmation, for any fields, requests, slots and     *)
(* number of handovers.  First what is owed: whose readback, on which route, *)
(* and when the timer is armed.  Then the histories: which values the        *)
(* wallbox had since a readback was armed, and how old a configuration is.   *)
(***************************************************************************)
EXTENDS WriteConfirmation, WellFoundedInduction, TLAPS

Owing == [Fields -> Readback \cup {None}]
Asked == [field : Fields, value : Values, epoch : Nat]
States == {"new", "waiting", "over"} \cup InLock
Configuring == {"first", "checked", "refused", "last"}

-----------------------------------------------------------------------------
(* The scheduler.                                                            *)

\* The least of a set of times is one of them.
LEMMA LeastIs ==
  ASSUME NEW S \in SUBSET Nat, S # {}
  PROVE  Least(S) \in S /\ \A x \in S : Least(S) <= x
<1>1. \E x \in S : \A y \in S : x <= y
  <2> DEFINE R == {ss \in Nat \X Nat : ss[1] < ss[2]}
  <2>1. IsWellFoundedOn(R, Nat)
    BY NatLessThanWellFounded DEF OpToRel
  <2> HIDE DEF R
  <2>2. PICK x \in S : \A y \in S : <<y, x>> \notin R
    BY <2>1, WFMin
  <2> USE DEF R
  <2>3. ASSUME NEW y \in S PROVE ~(y < x)
    BY <2>2
  <2> QED BY <2>3
<1> QED BY <1>1, Zenon DEF Least

\* The earlier of two times.
LEMMA LeastOfTwo ==
  ASSUME NEW a \in Nat, NEW b \in Nat
  PROVE  Least({a, b}) \in Nat /\ Least({a, b}) <= a
<1>1. {a, b} \in SUBSET Nat /\ {a, b} # {}
  OBVIOUS
<1> HIDE <1>1
<1>2. Least({a, b}) \in {a, b} /\ Least({a, b}) <= a
  BY <1>1, LeastIs
<1> QED BY <1>2

\* The next read of a readback that has not expired is due within the deadline.
LEMMA DueInBounded ==
  ASSUME ConfirmationAssumption, NEW t \in Readback, ~Expired(t)
  PROVE  DueIn(t) \in 0..Deadline
<1>1. Candidates(t) \in SUBSET Nat /\ Candidates(t) # {}
  <2>1. \A s \in Slots : s \in Nat
    BY SMT DEF ConfirmationAssumption
  <2>2. Candidates(t) # {}
    BY Zenon DEF Expired
  <2> QED BY <2>1, <2>2, Zenon DEF Candidates
<1>2. Least(Candidates(t)) \in Nat
  BY <1>1, LeastIs
<1>3. t.age \in Nat /\ t.readAge \in Nat /\ Deadline \in Nat
  BY SMT DEF Readback, ConfirmationAssumption
<1> DEFINE first == Least(Candidates(t))
           next == Larger(first, t.age - t.readAge + 1)
<1>4. next \in Nat
  BY <1>2, <1>3, SMT DEF Larger
<1>5. Least({Deadline, next}) \in Nat /\ Least({Deadline, next}) <= Deadline
  BY <1>3, <1>4, LeastOfTwo
<1> HIDE DEF next
<1>6. DueIn(t) = Larger(0, Least({Deadline, next}) - t.age)
  BY DEF DueIn, next
<1> QED BY <1>3, <1>5, <1>6, SMT DEF Larger

\* _schedule drops readbacks and adds none; the timer is armed when one is left.
LEMMA ScheduleEffect ==
  ASSUME ConfirmationAssumption, NEW p \in Owing, NEW rs \in [Fields -> Outcomes],
         NEW b, NEW c, Schedule(p, rs, b, c)
  PROVE  /\ pending' \in Owing /\ results' \in [Fields -> Outcomes]
         /\ timer' \in 0..Deadline \cup {None}
         /\ \A f \in Fields : pending'[f] \in {None, p[f]}
         /\ \A f \in Fields : results'[f] \in {rs[f], "over"}
         /\ timer' # None <=> (\E f \in Fields : pending'[f] # None) /\ ~b /\ ~c
<1> DEFINE kept == {f \in Fields : p[f] # None /\ ~Rerouted(p[f]) /\ ~Expired(p[f])}
           dues == {DueIn(p[f]) : f \in kept}
<1>1. /\ pending' = [f \in Fields |-> IF f \in kept THEN p[f] ELSE None]
      /\ results' = [f \in Fields |-> IF p[f] = None \/ f \in kept THEN rs[f] ELSE "over"]
      /\ timer' = IF kept = {} \/ b \/ c THEN None ELSE Least(dues)
  BY Zenon DEF Schedule
<1>2. \A f \in kept : f \in Fields /\ p[f] # None /\ p[f] \in Readback /\ ~Expired(p[f])
  BY Zenon DEF Owing
<1>3. \A f \in kept : DueIn(p[f]) \in 0..Deadline
  BY <1>2, DueInBounded
<1> HIDE DEF kept
<1>4. kept # {} => Least(dues) \in 0..Deadline
  <2> SUFFICES ASSUME kept # {} PROVE Least(dues) \in 0..Deadline
    OBVIOUS
  <2>1. dues \in SUBSET (0..Deadline) /\ dues # {}
    BY <1>3
  <2>2. dues \in SUBSET Nat
    BY <2>1, SMT
  <2> HIDE DEF dues
  <2>3. Least(dues) \in dues
    BY <2>1, <2>2, LeastIs
  <2> QED BY <2>1, <2>3
<1>5. None \notin 0..Deadline
  BY SMT DEF ConfirmationAssumption
<1> HIDE DEF dues
<1>6. \A f \in Fields : pending'[f] # None <=> f \in kept
  BY <1>1, <1>2, Zenon
<1>7. \A f \in kept : f \in Fields
  BY <1>2
<1>8. pending' \in Owing /\ results' \in [Fields -> Outcomes]
  <2>1. "over" \in Outcomes
    BY DEF Outcomes
  <2> QED BY <1>1, <1>2, <2>1, Zenon DEF Owing
<1>9. /\ timer' \in 0..Deadline \cup {None}
      /\ timer' # None <=> kept # {} /\ ~b /\ ~c
  BY <1>1, <1>4, <1>5, Zenon
<1>10. kept # {} <=> \E f \in Fields : pending'[f] # None
  BY <1>6, <1>7, Zenon
<1> QED BY <1>1, <1>8, <1>9, <1>10, Zenon

-----------------------------------------------------------------------------
(* Where the requests stand.                                                 *)

\* Requests begin in their order, one at a time is in the lock, and only a write of
\* a setting reads the configuration.
ShapeInv ==
    /\ TypeOK
    /\ \A r \in Requests : st[r] # "new" => req[r] \in Asked
    /\ \A r, q \in Requests : q < r /\ st[r] # "new" => st[q] # "new"
    /\ \A r \in Requests : st[r] \in InLock <=> lock = r
    /\ \A r \in Requests : st[r] \in Configuring => req[r].field \in Settings
    /\ read.who = "write" => lock # 0 /\ st[lock] \in {"first", "last"}

MonitorOK ==
    /\ tokens \in [Fields -> 0..N] /\ pending \in Owing /\ results \in [Fields -> Outcomes]
    /\ timer \in 0..Deadline \cup {None}
ReadsOK == poll \in Reading /\ read \in Reading
WallboxOK ==
    /\ device \in [Fields -> Reported] /\ after \subseteq Reported
    /\ held \in [Fields -> SUBSET Reported] /\ since \in [Fields -> SUBSET Reported]
RouteOK ==
    /\ local \in BOOLEAN /\ transitioning \in BOOLEAN /\ epoch \in Nat
    /\ restored \in BOOLEAN /\ success \in BOOLEAN
RefreshOK ==
    /\ busy \in BOOLEAN /\ closed \in BOOLEAN
    /\ ref \in {"idle", "start", "telemetry", "polling", "next", "join", "own", "finish"}
    /\ due \subseteq Sources
    /\ task \in BOOLEAN /\ valid \in [Fields -> Reported \cup {None}] \cup {None}
RequestsOK == st \in [Requests -> States] /\ req \in [Requests -> Asked \cup {None}] /\ lock \in 0..N

\* The types of the parts are all the types.
LEMMA TypesInParts ==
  TypeOK <=> MonitorOK /\ ReadsOK /\ WallboxOK /\ RouteOK /\ RefreshOK /\ RequestsOK
  BY Zenon DEF TypeOK, MonitorOK, ReadsOK, WallboxOK, RouteOK, RefreshOK, RequestsOK, Owing, Asked,
     States

\* The same after a step.
LEMMA TypesInPartsPrimed ==
  TypeOK' <=> (MonitorOK /\ ReadsOK /\ WallboxOK /\ RouteOK /\ RefreshOK /\ RequestsOK)'
  BY Zenon DEF TypeOK, MonitorOK, ReadsOK, WallboxOK, RouteOK, RefreshOK, RequestsOK, Owing, Asked,
     States

\* What a read has seen.
LEMMA SeesIsReading ==
  ASSUME NEW x \in Reading, NEW source, NEW f \in Fields, NEW v \in Reported
  PROVE  /\ Sees(x, source, f, v) \in Reading
         /\ Sees(x, source, f, v).who = x.who /\ Sees(x, source, f, v).current = x.current
         /\ Sees(x, source, f, v).old = x.old
         /\ \A g \in Fields : g # f => Sees(x, source, f, v).saw[g] = x.saw[g]
         /\ x.who # "nobody" /\ Source(f) = source =>
               Sees(x, source, f, v).saw[f] = x.saw[f] \cup {v}
         /\ Sees(x, source, f, v).saw[f] \subseteq x.saw[f] \cup {v}
<1>1. CASE x.who # "nobody" /\ Source(f) = source
  <2>1. Sees(x, source, f, v) = [x EXCEPT !.saw[f] = x.saw[f] \cup {v}]
    BY <1>1 DEF Sees
  <2> QED BY <1>1, <2>1, SMT DEF Reading
<1>2. CASE ~(x.who # "nobody" /\ Source(f) = source)
  <2>1. Sees(x, source, f, v) = x
    BY <1>2, Zenon DEF Sees
  <2> QED BY <1>2, <2>1, Zenon
<1> QED BY <1>1, <1>2

\* A read is older than a readback that is armed while it is under way.
LEMMA PrecedesIsReading ==
  ASSUME NEW x \in Reading, NEW f \in Fields
  PROVE  /\ Precedes(x, f) \in Reading /\ Precedes(x, f).who = x.who
         /\ Precedes(x, f).current = x.current /\ Precedes(x, f).saw = x.saw
         /\ x.old \subseteq Precedes(x, f).old
         /\ x.who # "nobody" => f \in Precedes(x, f).old
<1>1. CASE x.who # "nobody"
  <2>1. Precedes(x, f) = [x EXCEPT !.old = x.old \cup {f}]
    BY <1>1 DEF Precedes
  <2>2. x.old \cup {f} \in SUBSET Fields
    BY DEF Reading
  <2> QED BY <1>1, <2>1, <2>2, Zenon DEF Reading
<1>2. CASE x.who = "nobody"
  BY <1>2, Zenon DEF Precedes
<1> QED BY <1>1, <1>2

\* A read that does not count any more has seen what it has seen.
LEMMA DiscardedIsReading ==
  ASSUME NEW x \in Reading
  PROVE  /\ Discarded(x) \in Reading /\ Discarded(x).who = x.who /\ Discarded(x).current = FALSE
         /\ Discarded(x).old = x.old /\ Discarded(x).saw = x.saw
  BY Zenon DEF Discarded, Reading

\* No read is under way.
LEMMA NoReadIsReading == NoRead \in Reading /\ NoRead.who = "nobody" /\ NoRead.current = FALSE
  BY Zenon DEF NoRead, Reading

\* A new read has seen what the wallbox reports now.
LEMMA NewReadIsReading ==
  ASSUME NEW who \in {"timer", "refresh", "task", "write"}, NEW source, NEW c \in BOOLEAN,
         device \in [Fields -> Reported]
  PROVE  /\ NewRead(who, source, c) \in Reading /\ NewRead(who, source, c).who = who
         /\ NewRead(who, source, c).old = {} /\ NewRead(who, source, c).current = c
         /\ \A f \in Fields : Source(f) = source => NewRead(who, source, c).saw[f] = {device[f]}
<1>1. \A f \in Fields : (IF Source(f) = source THEN {device[f]} ELSE {}) \in SUBSET Reported
  BY Zenon
<1>2. [f \in Fields |-> IF Source(f) = source THEN {device[f]} ELSE {}] \in [Fields -> SUBSET Reported]
  BY <1>1, Zenon
<1> QED BY <1>2, Zenon DEF NewRead, Reading

\* What becomes of the configuration read when a request ends.
LEMMA ReadAfterIsReading ==
  ASSUME NEW r, read \in Reading
  PROVE  /\ ReadAfter(r) \in Reading
         /\ ReadAfter(r).who \in {read.who, "nobody"}
         /\ lock = r => ReadAfter(r).who # "write" \/ (Control(r) /\ ~local)
         /\ ReadAfter(r).who # "nobody" => ReadAfter(r).saw = read.saw /\ ReadAfter(r).old = read.old
         /\ ReadAfter(r).current => read.current /\ ~(Control(r) /\ ~local)
<1>1. CASE Control(r) /\ ~local
  BY <1>1, DiscardedIsReading, Zenon DEF ReadAfter
<1>2. CASE ~(Control(r) /\ ~local) /\ lock = r /\ read.who = "write"
  BY <1>2, NoReadIsReading, Zenon DEF ReadAfter
<1>3. CASE ~(Control(r) /\ ~local) /\ ~(lock = r /\ read.who = "write")
  <2>1. ReadAfter(r) = read
    BY <1>3, Zenon DEF ReadAfter
  <2> QED BY <1>3, <2>1, Zenon
<1> QED BY <1>1, <1>2, <1>3

\* observed() confirms what was met, of its own source and armed before the read.
LEMMA ObservedEffect ==
  ASSUME ConfirmationAssumption, MonitorOK, NEW source, NEW got, NEW old, NEW b,
         Observed(source, got, old, b)
  PROVE  /\ pending' \in Owing /\ results' \in [Fields -> Outcomes]
         /\ timer' \in 0..Deadline \cup {None}
         /\ timer' # None <=> (\E f \in Fields : pending'[f] # None) /\ ~b /\ ~closed
         /\ \A f \in Fields : pending'[f] # None =>
               /\ pending[f] # None /\ pending'[f].value = pending[f].value
               /\ pending'[f].epoch = pending[f].epoch
         /\ \A f \in Fields : results'[f] = "confirmed" =>
               \/ results[f] = "confirmed"
               \/ /\ f \notin old /\ Source(f) = source /\ pending[f] # None
                  /\ pending[f].value = got[f] /\ pending'[f] = None
         /\ \A f \in Fields : pending'[f] # None => results'[f] \in {results[f], "over"}
<1> DEFINE seen == {f \in Fields \ old : pending[f] # None /\ Source(f) = source}
           Refused(f) == f = Charging /\ pending[f].value = On /\ got[f] = Alarm
           Met(f) == pending[f].value = got[f]
           p == [f \in Fields |-> IF f \notin seen THEN pending[f]
                                  ELSE IF Met(f) \/ Refused(f) THEN None
                                  ELSE [pending[f] EXCEPT !.readAge = 0]]
           rs == [f \in Fields |-> IF f \notin seen THEN results[f]
                                   ELSE IF Refused(f) THEN "over"
                                   ELSE IF Met(f) THEN "confirmed" ELSE results[f]]
<1>1. Schedule(p, rs, b, closed)
  BY Zenon DEF Observed
<1>2. ASSUME NEW f \in Fields, pending[f] # None
      PROVE  /\ pending[f] \in Readback /\ [pending[f] EXCEPT !.readAge = 0] \in Readback
             /\ [pending[f] EXCEPT !.readAge = 0].value = pending[f].value
             /\ [pending[f] EXCEPT !.readAge = 0].epoch = pending[f].epoch
  <2>1. pending[f] \in Readback
    BY <1>2, Zenon DEF MonitorOK, Owing
  <2>2. 0 \in 0..Deadline + 1
    BY SMT DEF ConfirmationAssumption
  <2> QED BY <2>1, <2>2, Zenon DEF Readback
<1>3. \A f \in Fields : p[f] # None =>
         /\ pending[f] # None /\ p[f] \in Readback /\ p[f].value = pending[f].value
         /\ p[f].epoch = pending[f].epoch
  BY <1>2, Zenon
<1>4. \A f \in Fields : rs[f] \in {results[f], "over", "confirmed"}
  BY Zenon
<1>5. \A f \in Fields : p[f] # None => rs[f] = results[f]
  BY Zenon
<1>6. \A f \in Fields : rs[f] = "confirmed" /\ results[f] # "confirmed" =>
          /\ f \notin old /\ Source(f) = source /\ pending[f] # None
          /\ pending[f].value = got[f] /\ p[f] = None
  BY Zenon
<1>7. p \in Owing /\ rs \in [Fields -> Outcomes]
  <2>1. {"over", "confirmed"} \subseteq Outcomes /\ results \in [Fields -> Outcomes]
    BY DEF Outcomes, MonitorOK
  <2>2. \A f \in Fields : p[f] \in Readback \cup {None} /\ rs[f] \in Outcomes
    BY <1>3, <1>4, <2>1, Zenon
  <2> QED BY <2>2, Zenon DEF Owing
<1> HIDE DEF seen, Refused, Met, p, rs
<1>8. /\ pending' \in Owing /\ results' \in [Fields -> Outcomes]
      /\ timer' \in 0..Deadline \cup {None}
      /\ \A f \in Fields : pending'[f] \in {None, p[f]}
      /\ \A f \in Fields : results'[f] \in {rs[f], "over"}
      /\ timer' # None <=> (\E f \in Fields : pending'[f] # None) /\ ~b /\ ~closed
  BY <1>1, <1>7, ScheduleEffect
<1>9. ASSUME NEW f \in Fields, pending'[f] # None
      PROVE  /\ pending[f] # None /\ pending'[f].value = pending[f].value
             /\ pending'[f].epoch = pending[f].epoch /\ results'[f] \in {results[f], "over"}
  <2>1. pending'[f] = p[f]
    BY <1>8, <1>9, Zenon
  <2>2. rs[f] = results[f] /\ results'[f] \in {rs[f], "over"}
    BY <1>8, <1>9, <1>5, <2>1, Zenon
  <2> QED BY <1>3, <1>9, <2>1, <2>2, Zenon
<1>10. ASSUME NEW f \in Fields, results'[f] = "confirmed", results[f] # "confirmed"
      PROVE  /\ f \notin old /\ Source(f) = source /\ pending[f] # None
             /\ pending[f].value = got[f] /\ pending'[f] = None
  <2>1. results'[f] \in {rs[f], "over"} /\ pending'[f] \in {None, p[f]}
    BY <1>8
  <2>2. rs[f] = "confirmed"
    BY <1>10, <2>1
  <2> QED BY <1>10, <1>6, <2>1, <2>2, Zenon
<1> QED BY <1>8, <1>9, <1>10, Zenon

\* failed() drops every readback.
LEMMA FailedEffect ==
  ASSUME ConfirmationAssumption, MonitorOK, NEW b, Failed(b)
  PROVE  /\ pending' = [f \in Fields |-> None] /\ results' \in [Fields -> Outcomes]
         /\ timer' = None /\ \A f \in Fields : results'[f] \in {results[f], "over"}
<1> DEFINE p == [f \in Fields |-> None]
           rs == [f \in Fields |-> IF pending[f] = None THEN results[f] ELSE "over"]
<1>1. Schedule(p, rs, b, closed)
  BY DEF Failed
<1>2. p \in Owing /\ rs \in [Fields -> Outcomes] /\ \A f \in Fields : rs[f] \in {results[f], "over"}
  BY Zenon DEF MonitorOK, Owing, Outcomes
<1>3. \A f \in Fields : p[f] = None
  OBVIOUS
<1> HIDE DEF p, rs
<1>4. /\ pending' \in Owing /\ results' \in [Fields -> Outcomes]
      /\ \A f \in Fields : pending'[f] \in {None, p[f]}
      /\ \A f \in Fields : results'[f] \in {rs[f], "over"}
      /\ timer' # None <=> (\E f \in Fields : pending'[f] # None) /\ ~b /\ ~closed
  BY <1>1, <1>2, ScheduleEffect
<1>5. pending' = [f \in Fields |-> None]
  BY <1>3, <1>4, Zenon DEF Owing
<1> QED BY <1>2, <1>3, <1>4, <1>5, Zenon

\* cancel() drops every readback and every write under way.
LEMMA CancelEffect ==
  ASSUME MonitorOK, CancelAll
  PROVE  /\ pending' = [f \in Fields |-> None] /\ tokens' = [f \in Fields |-> 0] /\ timer' = None
         /\ results' \in [Fields -> Outcomes]
         /\ \A f \in Fields : results'[f] \in {results[f], "over"}
  BY Zenon DEF CancelAll, MonitorOK, Outcomes

-----------------------------------------------------------------------------
(* What the steps do to what is owed.                                        *)

\* No request begins, and nothing new is owed.
Settled == req' = req /\ \A r \in Requests : st[r] = "new" <=> st'[r] = "new"
Fades ==
    /\ MonitorOK'
    /\ \A f \in Fields : tokens'[f] \in {0, tokens[f]}
    /\ \A f \in Fields : pending'[f] # None =>
          /\ pending[f] # None /\ pending'[f].value = pending[f].value
          /\ pending'[f].epoch = pending[f].epoch /\ results'[f] \in {results[f], "over"}
TimerKept == TimerWhileOwed => TimerWhileOwed'
RouteKept ==
    RouteOfRequest => \A f \in Fields : pending'[f] # None =>
                          UNCHANGED <<local, transitioning, closed, epoch>>

Keeps == ShapeInv' /\ Settled /\ Fades /\ TimerKept /\ RouteKept

\* The parts have their types.
LEMMA ShapeParts ==
  ASSUME ShapeInv
  PROVE  MonitorOK /\ ReadsOK /\ WallboxOK /\ RouteOK /\ RefreshOK /\ RequestsOK
  BY TypesInParts DEF ShapeInv

\* The requests stand where they stood.
LEMMA ShapeFrame ==
  ASSUME ShapeInv, TypeOK', UNCHANGED <<st, req, lock>>, read'.who = "write" => read.who = "write"
  PROVE  ShapeInv' /\ Settled
  BY Zenon DEF ShapeInv, Settled

\* A step that leaves the monitor alone.
LEMMA MonitorFrame ==
  ASSUME MonitorOK, UNCHANGED <<monitor, busy, closed>>
  PROVE  Fades /\ TimerKept
<1>1. tokens' = tokens /\ pending' = pending /\ results' = results /\ timer' = timer
  BY DEF monitor
<1> QED BY <1>1, Zenon DEF MonitorOK, Fades, TimerKept, TimerWhileOwed, Owed

\* A step that ends with _schedule, and arms nothing.
LEMMA ScheduledFades ==
  ASSUME MonitorOK', tokens' = tokens,
         \A f \in Fields : pending'[f] # None =>
            /\ pending[f] # None /\ pending'[f].value = pending[f].value
            /\ pending'[f].epoch = pending[f].epoch /\ results'[f] \in {results[f], "over"},
         timer' # None <=> (\E f \in Fields : pending'[f] # None) /\ ~busy' /\ ~closed'
  PROVE  Fades /\ TimerKept
  BY Zenon DEF Fades, TimerKept, TimerWhileOwed, Owed

\* Nothing is owed any more.
LEMMA NothingOwed ==
  ASSUME ConfirmationAssumption, MonitorOK, tokens' = tokens \/ tokens' = [f \in Fields |-> 0],
         pending' = [f \in Fields |-> None], timer' = None, results' \in [Fields -> Outcomes]
  PROVE  Fades /\ TimerKept /\ RouteKept
<1>1. \A f \in Fields : pending'[f] = None
  OBVIOUS
<1>2. tokens' \in [Fields -> 0..N] /\ \A f \in Fields : tokens'[f] \in {0, tokens[f]}
  <2>1. CASE tokens' = tokens
    BY <2>1, Zenon DEF MonitorOK
  <2>2. CASE tokens' = [f \in Fields |-> 0]
    <3>1. 0 \in 0..N
      BY SMT DEF ConfirmationAssumption
    <3> QED BY <2>2, <3>1, Zenon
  <2> QED BY <2>1, <2>2
<1>3. MonitorOK'
  BY <1>2, Zenon DEF MonitorOK, Owing
<1> QED BY <1>1, <1>2, <1>3, Zenon DEF Fades, TimerKept, RouteKept, TimerWhileOwed, Owed

\* A step that leaves the route alone.
LEMMA RouteFrame ==
  ASSUME UNCHANGED <<local, transitioning, closed, epoch>>
  PROVE  RouteKept
  BY Zenon DEF RouteKept

-----------------------------------------------------------------------------
(* The reads.                                                                *)

\* A telemetry read begins.
LEMMA PollBeginsKeeps == ASSUME ShapeInv, PollBegins PROVE Keeps
<1>1. /\ device' = device /\ st' = st /\ req' = req /\ lock' = lock /\ local' = local
      /\ transitioning' = transitioning /\ epoch' = epoch /\ restored' = restored
      /\ success' = success
      /\ tokens' = tokens /\ pending' = pending /\ results' = results /\ timer' = timer
      /\ closed' = closed /\ busy' = busy /\ due' = due /\ read' = read
      /\ held' = held /\ since' = since /\ after' = after
  BY Zenon DEF PollBegins, route, monitor, history
<1>2. ReadsOK'
  <2>1. PICK who \in {"timer", "refresh"} : poll' = NewRead(who, "telemetry", ~transitioning)
    BY Zenon DEF PollBegins
  <2>2. (~transitioning) \in BOOLEAN /\ device \in [Fields -> Reported] /\ read \in Reading
    BY ShapeParts, Zenon DEF WallboxOK, ReadsOK
  <2> QED BY <1>1, <2>1, <2>2, NewReadIsReading DEF ReadsOK
<1>3. RefreshOK'
  <2>1. ref' \in {ref, "polling"} /\ task' \in {task, TRUE} /\ valid' \in {valid, None}
    BY Zenon DEF PollBegins
  <2> QED BY <1>1, <2>1, ShapeParts, Zenon DEF RefreshOK
<1>4. TypeOK'
  BY <1>1, <1>2, <1>3, ShapeParts, TypesInPartsPrimed, Zenon DEF MonitorOK, WallboxOK, RouteOK,
     RequestsOK
<1>5. Fades /\ TimerKept /\ RouteKept
  BY <1>1, ShapeParts, MonitorFrame, RouteFrame DEF monitor
<1> QED BY <1>1, <1>4, <1>5, ShapeFrame DEF Keeps

\* A telemetry read ends: what it reports is observed, or nothing is owed any more.
LEMMA PollEndsKeeps ==
  ASSUME ConfirmationAssumption, ShapeInv, PollReturns \/ PollFails
  PROVE  Keeps
<1>1. /\ device' = device /\ st' = st /\ req' = req /\ lock' = lock /\ local' = local
      /\ transitioning' = transitioning /\ epoch' = epoch /\ tokens' = tokens
      /\ closed' = closed /\ busy' = busy /\ due' = due /\ read' = read
      /\ held' = held /\ since' = since /\ after' = after
      /\ poll' = NoRead /\ ref' \in {ref, "next"} /\ task' = task /\ valid' = valid
      /\ success' \in BOOLEAN /\ restored' \in {restored, FALSE}
  BY Zenon DEF PollReturns, PollFails, PollEnds, settings, history
<1>2. MonitorOK' /\ Fades /\ TimerKept
  <2>1. CASE PollReturns
    <3>1. PICK got : Observed("telemetry", got, poll.old, busy)
      BY <2>1, Zenon DEF PollReturns
    <3>2. /\ pending' \in Owing /\ results' \in [Fields -> Outcomes]
          /\ timer' \in 0..Deadline \cup {None}
          /\ timer' # None <=> (\E f \in Fields : pending'[f] # None) /\ ~busy /\ ~closed
          /\ \A f \in Fields : pending'[f] # None =>
                /\ pending[f] # None /\ pending'[f].value = pending[f].value
                /\ pending'[f].epoch = pending[f].epoch
          /\ \A f \in Fields : pending'[f] # None => results'[f] \in {results[f], "over"}
      BY <3>1, ShapeParts, ObservedEffect
    <3>3. MonitorOK'
      BY <1>1, <3>2, ShapeParts, Zenon DEF MonitorOK
    <3> QED BY <1>1, <3>2, <3>3, ScheduledFades
  <2>2. CASE PollFails
    <3>1. Failed(busy)
      BY <2>2 DEF PollFails
    <3>2. MonitorOK
      BY ShapeParts
    <3>3. /\ pending' = [f \in Fields |-> None] /\ results' \in [Fields -> Outcomes]
          /\ timer' = None
      BY <3>1, <3>2, FailedEffect
    <3> QED BY <1>1, <3>2, <3>3, NothingOwed DEF Fades
  <2> QED BY <2>1, <2>2
<1>3. TypeOK'
  BY <1>1, <1>2, ShapeParts, TypesInPartsPrimed, NoReadIsReading, Zenon
     DEF WallboxOK, RouteOK, RequestsOK, ReadsOK, RefreshOK
<1> QED BY <1>1, <1>2, <1>3, ShapeFrame, RouteFrame DEF Keeps

\* Whoever waits for a configuration read goes on.
LEMMA ReadGoesOnShape ==
  ASSUME ShapeInv, NEW who, NEW v \in BOOLEAN, ReadGoesOn(who, v),
         who = "write" => lock # 0 /\ st[lock] \in {"first", "last"}
  PROVE  /\ task' \in BOOLEAN
         /\ ref' \in {"idle", "start", "telemetry", "polling", "next", "join", "own", "finish"}
         /\ st' \in [Requests -> States] /\ \A r \in Requests : st[r] = "new" <=> st'[r] = "new"
         /\ \A r \in Requests : st[r] \in InLock <=> st'[r] \in InLock
         /\ \A r \in Requests : st'[r] \in Configuring => st[r] \in Configuring
<1>1. st \in [Requests -> States] /\ task \in BOOLEAN
      /\ ref \in {"idle", "start", "telemetry", "polling", "next", "join", "own", "finish"}
  BY ShapeParts, Zenon DEF RequestsOK, RefreshOK
<1>2. CASE who # "write"
  <2>1. st' = st
    BY <1>2, Zenon DEF ReadGoesOn
  <2> QED BY <1>1, <2>1, Zenon DEF ReadGoesOn
<1>3. CASE who = "write"
  <2>1. PICK place \in {"sent", "checked", "refused"} : st' = [st EXCEPT ![lock] = place]
    BY <1>3, Zenon DEF ReadGoesOn
  <2>2. place \in States /\ place \in InLock /\ place # "new"
    BY Zenon DEF States, InLock
  <2>3. lock \in Requests /\ st[lock] \in InLock /\ st[lock] # "new" /\ st[lock] \in Configuring
    <3>1. lock \in 0..N /\ lock # 0
      BY <1>3, ShapeParts DEF RequestsOK
    <3>2. lock \in Requests
      BY <3>1, SMT DEF Requests, ConfirmationAssumption
    <3> QED BY <1>3, <3>2, Zenon DEF InLock, Configuring
  <2>4. ref' = ref /\ task' = task
    BY <1>1, <1>3, SMT DEF ReadGoesOn
  <2> QED BY <1>1, <2>1, <2>2, <2>3, <2>4, Zenon
<1> QED BY <1>2, <1>3

\* A configuration read begins, or is refused.
LEMMA ReadBeginsKeeps == ASSUME ConfirmationAssumption, ShapeInv, ReadBegins PROVE Keeps
<1>1. /\ device' = device /\ req' = req /\ lock' = lock /\ local' = local
      /\ transitioning' = transitioning /\ epoch' = epoch /\ restored' = restored
      /\ success' = success
      /\ tokens' = tokens /\ pending' = pending /\ results' = results /\ timer' = timer
      /\ closed' = closed /\ busy' = busy /\ due' = due /\ poll' = poll
      /\ held' = held /\ since' = since /\ after' = after
  BY Zenon DEF ReadBegins, route, monitor, history
<1>2. PICK who \in {"task", "refresh", "write"} :
         /\ read.who = "nobody"
         /\ who = "write" => lock # 0 /\ st[lock] \in {"first", "last"}
         /\ \/ read' = NewRead(who, "settings", TRUE) /\ UNCHANGED <<valid, st, ref, task>>
            \/ valid' = None /\ ReadGoesOn(who, FALSE) /\ UNCHANGED read
  BY Zenon DEF ReadBegins
<1>3. Fades /\ TimerKept /\ RouteKept
  BY <1>1, ShapeParts, MonitorFrame, RouteFrame DEF monitor
<1>4. CASE read' = NewRead(who, "settings", TRUE) /\ UNCHANGED <<valid, st, ref, task>>
  <2>1. read' \in Reading /\ read'.who = who
    <3>1. TRUE \in BOOLEAN /\ device \in [Fields -> Reported]
      BY ShapeParts, Zenon DEF WallboxOK
    <3>2. who \in {"timer", "refresh", "task", "write"}
      BY <1>2
    <3> QED BY <1>4, <3>1, <3>2, NewReadIsReading
  <2>2. TypeOK'
    BY <1>1, <1>4, <2>1, ShapeParts, TypesInPartsPrimed, Zenon
       DEF MonitorOK, WallboxOK, RouteOK, RequestsOK, ReadsOK, RefreshOK
  <2>3. ShapeInv' /\ Settled
    BY <1>1, <1>2, <1>4, <2>1, <2>2, Zenon DEF ShapeInv, Settled
  <2> QED BY <1>3, <2>3 DEF Keeps
<1>5. CASE valid' = None /\ ReadGoesOn(who, FALSE) /\ UNCHANGED read
  <2>1. /\ task' \in BOOLEAN
        /\ ref' \in {"idle", "start", "telemetry", "polling", "next", "join", "own", "finish"}
        /\ st' \in [Requests -> States] /\ \A r \in Requests : st[r] = "new" <=> st'[r] = "new"
        /\ \A r \in Requests : st[r] \in InLock <=> st'[r] \in InLock
        /\ \A r \in Requests : st'[r] \in Configuring => st[r] \in Configuring
    BY <1>2, <1>5, ReadGoesOnShape
  <2>2. TypeOK'
    BY <1>1, <1>5, <2>1, ShapeParts, TypesInPartsPrimed, Zenon
       DEF MonitorOK, WallboxOK, RouteOK, RequestsOK, ReadsOK, RefreshOK
  <2>3. read'.who = "nobody"
    BY <1>2, <1>5
  <2>4. ShapeInv' /\ Settled
    BY <1>1, <2>1, <2>2, <2>3, Zenon DEF ShapeInv, Settled
  <2> QED BY <1>3, <2>4 DEF Keeps
<1> QED BY <1>2, <1>4, <1>5

\* A configuration read ends.
LEMMA ReadEndsKeeps ==
  ASSUME ConfirmationAssumption, ShapeInv, ReadCrossed \/ ReadReturns \/ ReadFails
  PROVE  Keeps
<1>1. /\ device' = device /\ req' = req /\ lock' = lock /\ local' = local
      /\ transitioning' = transitioning /\ epoch' = epoch /\ restored' = restored
      /\ success' = success
      /\ tokens' = tokens /\ closed' = closed /\ busy' = busy /\ due' = due /\ poll' = poll
      /\ held' = held /\ since' = since /\ after' = after /\ read' = NoRead
  BY Zenon DEF ReadCrossed, ReadReturns, ReadFails, ReadEnds, route, history
<1>2. MonitorOK' /\ Fades /\ TimerKept
  <2>0. MonitorOK
    BY ShapeParts
  <2>1. CASE ReadCrossed
    <3>1. UNCHANGED <<monitor, busy, closed>>
      BY <1>1, <2>1 DEF ReadCrossed, monitor
    <3> QED BY <2>0, <3>1, MonitorFrame DEF Fades
  <2>2. CASE ReadReturns
    <3>1. PICK got : Observed("settings", got, read.old, busy)
      BY <2>2, Zenon DEF ReadReturns
    <3>2. /\ pending' \in Owing /\ results' \in [Fields -> Outcomes]
          /\ timer' \in 0..Deadline \cup {None}
          /\ timer' # None <=> (\E f \in Fields : pending'[f] # None) /\ ~busy /\ ~closed
          /\ \A f \in Fields : pending'[f] # None =>
                /\ pending[f] # None /\ pending'[f].value = pending[f].value
                /\ pending'[f].epoch = pending[f].epoch
          /\ \A f \in Fields : pending'[f] # None => results'[f] \in {results[f], "over"}
      BY <2>0, <3>1, ObservedEffect
    <3>3. MonitorOK'
      BY <1>1, <2>0, <3>2, Zenon DEF MonitorOK
    <3> QED BY <1>1, <3>2, <3>3, ScheduledFades
  <2>3. CASE ReadFails
    <3>1. Failed(busy)
      BY <2>3 DEF ReadFails
    <3>2. /\ pending' = [f \in Fields |-> None] /\ results' \in [Fields -> Outcomes]
          /\ timer' = None
      BY <2>0, <3>1, FailedEffect
    <3> QED BY <1>1, <2>0, <3>2, NothingOwed DEF Fades
  <2> QED BY <2>1, <2>2, <2>3
<1>3. valid' \in [Fields -> Reported \cup {None}] \cup {None}
  <2>1. CASE ReadReturns
    <3>1. PICK got \in Returns(read, "settings") :
             valid' = [f \in Fields |-> IF Source(f) = "settings" THEN got[f] ELSE None]
      BY <2>1 DEF ReadReturns
    <3>2. \A f \in Fields : got[f] \in Reported
      BY <3>1, Zenon DEF Returns
    <3> QED BY <3>1, <3>2, Zenon
  <2>2. CASE ReadCrossed \/ ReadFails
    BY <2>2, Zenon DEF ReadCrossed, ReadFails
  <2> QED BY <2>1, <2>2
<1>4. PICK v \in BOOLEAN : ReadGoesOn(read.who, v)
  BY Zenon DEF ReadCrossed, ReadReturns, ReadFails
<1>5. read.who = "write" => lock # 0 /\ st[lock] \in {"first", "last"}
  BY DEF ShapeInv
<1>6. /\ task' \in BOOLEAN
      /\ ref' \in {"idle", "start", "telemetry", "polling", "next", "join", "own", "finish"}
      /\ st' \in [Requests -> States] /\ \A r \in Requests : st[r] = "new" <=> st'[r] = "new"
      /\ \A r \in Requests : st[r] \in InLock <=> st'[r] \in InLock
      /\ \A r \in Requests : st'[r] \in Configuring => st[r] \in Configuring
  BY <1>4, <1>5, ReadGoesOnShape
<1>7. TypeOK'
  BY <1>1, <1>2, <1>3, <1>6, ShapeParts, TypesInPartsPrimed, NoReadIsReading, Zenon
     DEF WallboxOK, RouteOK, RequestsOK, ReadsOK, RefreshOK
<1>8. ShapeInv' /\ Settled
  BY <1>1, <1>6, <1>7, NoReadIsReading, Zenon DEF ShapeInv, Settled
<1> QED BY <1>1, <1>2, <1>8, RouteFrame DEF Keeps

-----------------------------------------------------------------------------
(* The refresh, and time.                                                    *)

\* The timer fires.
LEMMA WakeKeeps == ASSUME ShapeInv, Wake PROVE Keeps
<1>1. /\ device' = device /\ st' = st /\ req' = req /\ lock' = lock /\ local' = local
      /\ transitioning' = transitioning /\ epoch' = epoch /\ restored' = restored
      /\ success' = success
      /\ tokens' = tokens /\ pending' = pending /\ results' = results /\ timer' = None
      /\ closed' = closed /\ due' = due /\ read' = read /\ poll' = poll
      /\ held' = held /\ since' = since /\ after' = after /\ task' = task /\ valid' = valid
      /\ IF busy \/ closed \/ ~Owed THEN UNCHANGED <<busy, ref>> ELSE busy' = TRUE /\ ref' = "start"
  BY Zenon DEF Wake, route, settings, history
<1>2. TypeOK'
  <2>1. MonitorOK' /\ RefreshOK'
    BY <1>1, ShapeParts, Zenon DEF MonitorOK, RefreshOK
  <2> QED BY <1>1, <2>1, ShapeParts, TypesInPartsPrimed, Zenon DEF WallboxOK, RouteOK, RequestsOK,
  ReadsOK
<1>3. Fades
  BY <1>1, <1>2, TypesInPartsPrimed, Zenon DEF Fades
<1>4. TimerKept
  BY <1>1, Zenon DEF TimerKept, TimerWhileOwed, Owed
<1> QED BY <1>1, <1>2, <1>3, <1>4, ShapeFrame, RouteFrame DEF Keeps

\* finally: what was attempted counts as read, and the rest is scheduled.
LEMMA FinallyEffect ==
  ASSUME ConfirmationAssumption, MonitorOK, NEW attempted, Finally(attempted)
  PROVE  /\ pending' \in Owing /\ results' \in [Fields -> Outcomes]
         /\ timer' \in 0..Deadline \cup {None}
         /\ \A f \in Fields : pending'[f] # None =>
               /\ pending[f] # None /\ pending'[f].value = pending[f].value
               /\ pending'[f].epoch = pending[f].epoch
         /\ \A f \in Fields : results'[f] \in {results[f], "over"}
         /\ timer' # None <=> (\E f \in Fields : pending'[f] # None) /\ ~closed
         /\ busy' = FALSE /\ ref' = "idle" /\ due' = {}
<1> DEFINE p == [f \in Fields |-> IF pending[f] # None /\ Source(f) \in attempted
                                  THEN [pending[f] EXCEPT !.readAge = 0] ELSE pending[f]]
<1>1. Schedule(p, results, FALSE, closed) /\ Over
  BY Zenon DEF Finally
<1>2. ASSUME NEW f \in Fields, pending[f] # None
      PROVE  /\ pending[f] \in Readback /\ [pending[f] EXCEPT !.readAge = 0] \in Readback
             /\ [pending[f] EXCEPT !.readAge = 0].value = pending[f].value
             /\ [pending[f] EXCEPT !.readAge = 0].epoch = pending[f].epoch
  <2>1. pending[f] \in Readback
    BY <1>2, Zenon DEF MonitorOK, Owing
  <2>2. 0 \in 0..Deadline + 1
    BY SMT DEF ConfirmationAssumption
  <2> QED BY <2>1, <2>2, Zenon DEF Readback
<1>3. \A f \in Fields : p[f] # None =>
         /\ pending[f] # None /\ p[f] \in Readback /\ p[f].value = pending[f].value
         /\ p[f].epoch = pending[f].epoch
  BY <1>2, Zenon
<1>4. p \in Owing /\ results \in [Fields -> Outcomes]
  BY <1>3, Zenon DEF Owing, MonitorOK
<1> HIDE DEF p
<1>5. /\ pending' \in Owing /\ results' \in [Fields -> Outcomes]
      /\ timer' \in 0..Deadline \cup {None}
      /\ \A f \in Fields : pending'[f] \in {None, p[f]}
      /\ \A f \in Fields : results'[f] \in {results[f], "over"}
      /\ timer' # None <=> (\E f \in Fields : pending'[f] # None) /\ ~closed
  <2> DEFINE no == FALSE
  <2>1. Schedule(p, results, no, closed) /\ ~no
    BY <1>1
  <2> HIDE DEF no
  <2>2. /\ pending' \in Owing /\ results' \in [Fields -> Outcomes]
        /\ timer' \in 0..Deadline \cup {None}
        /\ \A f \in Fields : pending'[f] \in {None, p[f]}
        /\ \A f \in Fields : results'[f] \in {results[f], "over"}
        /\ timer' # None <=> (\E f \in Fields : pending'[f] # None) /\ ~no /\ ~closed
    BY <1>4, <2>1, ScheduleEffect
  <2> QED BY <2>1, <2>2, Zenon
<1>6. \A f \in Fields : pending'[f] # None =>
         /\ pending[f] # None /\ pending'[f].value = pending[f].value
         /\ pending'[f].epoch = pending[f].epoch
  BY <1>3, <1>5, Zenon
<1> QED BY <1>1, <1>5, <1>6, Zenon DEF Over

\* A step of the refresh: it goes on, or it ends with what is owed scheduled or dropped.
RefreshEffect ==
    /\ MonitorOK' /\ RefreshOK' /\ Fades /\ TimerKept
    /\ closed' = closed

\* The refresh ends.
LEMMA FinallyKeeps ==
  ASSUME ConfirmationAssumption, ShapeInv, NEW attempted, Finally(attempted), tokens' = tokens,
         closed' = closed, UNCHANGED settings
  PROVE  RefreshEffect
<1>1. MonitorOK /\ RefreshOK
  BY ShapeParts
<1>2. /\ pending' \in Owing /\ results' \in [Fields -> Outcomes]
      /\ timer' \in 0..Deadline \cup {None}
      /\ \A f \in Fields : pending'[f] # None =>
            /\ pending[f] # None /\ pending'[f].value = pending[f].value
            /\ pending'[f].epoch = pending[f].epoch
      /\ \A f \in Fields : results'[f] \in {results[f], "over"}
      /\ timer' # None <=> (\E f \in Fields : pending'[f] # None) /\ ~closed
      /\ busy' = FALSE /\ ref' = "idle" /\ due' = {}
  BY <1>1, FinallyEffect
<1>3. MonitorOK'
  BY <1>1, <1>2, Zenon DEF MonitorOK
<1>4. RefreshOK'
  BY <1>1, <1>2, Zenon DEF RefreshOK, settings
<1>5. Fades /\ TimerKept
  BY <1>2, <1>3, ScheduledFades
<1> QED BY <1>3, <1>4, <1>5 DEF RefreshEffect

\* The refresh ends with nothing owed.
LEMMA DroppedKeeps ==
  ASSUME ConfirmationAssumption, ShapeInv, Over, (Failed(FALSE) /\ tokens' = tokens) \/ CancelAll,
         closed' = closed, UNCHANGED settings
  PROVE  RefreshEffect
<1>1. MonitorOK /\ RefreshOK
  BY ShapeParts
<1>2. /\ pending' = [f \in Fields |-> None] /\ results' \in [Fields -> Outcomes] /\ timer' = None
      /\ tokens' = tokens \/ tokens' = [f \in Fields |-> 0]
  BY <1>1, FailedEffect, CancelEffect
<1>3. Fades /\ TimerKept
  BY <1>1, <1>2, NothingOwed
<1>4. RefreshOK'
  BY <1>1, Zenon DEF RefreshOK, settings, Over
<1> QED BY <1>3, <1>4 DEF RefreshEffect, Fades

\* The refresh goes on.
LEMMA GoesOnKeeps ==
  ASSUME ShapeInv, UNCHANGED <<monitor, busy, closed, settings>>,
         ref' \in {"telemetry", "join", "own", "next"}, due' \subseteq Sources
  PROVE  RefreshEffect
<1>1. MonitorOK /\ RefreshOK
  BY ShapeParts
<1>2. Fades /\ TimerKept
  BY <1>1, MonitorFrame
<1>3. RefreshOK'
  BY <1>1, Zenon DEF RefreshOK, settings
<1> QED BY <1>2, <1>3 DEF RefreshEffect, Fades

\* The refresh after its telemetry part.
LEMMA AfterTelemetryKeeps ==
  ASSUME ConfirmationAssumption, ShapeInv, NEW d \in SUBSET Sources, AfterTelemetry(d),
         tokens' = tokens,
         closed' = closed, UNCHANGED settings
  PROVE  RefreshEffect
<1>1. CASE "settings" \in d /\ Owed
  <2>1. /\ ref' \in {"join", "own"} /\ due' = d /\ UNCHANGED <<busy, pending, results, timer>>
    BY <1>1, Zenon DEF AfterTelemetry
  <2>2. UNCHANGED <<monitor, busy, closed, settings>> /\ ref' \in {"telemetry", "join", "own",
  "next"}
    BY <2>1 DEF monitor
  <2> QED BY <2>1, <2>2, GoesOnKeeps
<1>2. CASE ~("settings" \in d /\ Owed)
  BY <1>2, FinallyKeeps, Zenon DEF AfterTelemetry
<1> QED BY <1>1, <1>2

\* Every step of the refresh.
LEMMA RefresherKeeps == ASSUME ConfirmationAssumption, ShapeInv, Refresher PROVE Keeps
<1>0. due \in SUBSET Sources
  BY ShapeParts DEF RefreshOK
<1>1. RefreshKeeps
  BY Zenon DEF Refresher, RefreshStarts, Debounced, RefreshGoesOn, RefreshEnds, RefreshRaises
<1>2. closed' = closed /\ UNCHANGED settings
  BY <1>1 DEF RefreshKeeps
<1>3. RefreshEffect
  <2>1. CASE RefreshStarts
    <3> DEFINE d == {Source(f) : f \in {g \in Fields : pending[g] # None /\ pending[g].readAge >= 1}}
    <3>1. d \in SUBSET Sources
      BY Zenon DEF Source, Sources
    <3>2. CASE closed \/ transitioning
      <4>1. CancelAll /\ Over
        BY <2>1, <3>2, Zenon DEF RefreshStarts
      <4> QED BY <1>2, <4>1, DroppedKeeps
    <3>3. CASE ~(closed \/ transitioning) /\ "telemetry" \in d
      <4>1. tokens' = tokens /\ ref' = "telemetry" /\ due' = d /\ UNCHANGED <<busy, pending, results, timer>>
        BY <2>1, <3>3, Zenon DEF RefreshStarts
      <4>2. UNCHANGED <<monitor, busy, closed, settings>>
        BY <1>2, <4>1 DEF monitor
      <4> QED BY <3>1, <4>1, <4>2, GoesOnKeeps
    <3>4. CASE ~(closed \/ transitioning) /\ ~("telemetry" \in d)
      <4>1. tokens' = tokens /\ AfterTelemetry(d)
        BY <2>1, <3>4, Zenon DEF RefreshStarts
      <4> HIDE DEF d
      <4> QED BY <1>2, <3>1, <4>1, AfterTelemetryKeeps
    <3> QED BY <3>2, <3>3, <3>4
  <2>2. CASE Debounced
    <3>1. UNCHANGED <<monitor, busy, closed, settings>> /\ ref' = "next" /\ due' = due
      BY <1>2, <2>2 DEF Debounced
    <3> QED BY <1>0, <3>1, GoesOnKeeps
  <2>3. CASE RefreshGoesOn
    <3>1. tokens' = tokens /\ (AfterTelemetry(due) \/ (Over /\ Failed(FALSE)))
      BY <2>3, Zenon DEF RefreshGoesOn
    <3> QED BY <1>0, <1>2, <3>1, AfterTelemetryKeeps, DroppedKeeps
  <2>4. CASE RefreshEnds
    BY <1>2, <2>4, FinallyKeeps DEF RefreshEnds
  <2>5. CASE RefreshRaises
    BY <1>2, <2>5, DroppedKeeps DEF RefreshRaises
  <2> QED BY <2>1, <2>2, <2>3, <2>4, <2>5 DEF Refresher
<1>4. /\ device' = device /\ st' = st /\ req' = req /\ lock' = lock /\ local' = local
      /\ transitioning' = transitioning /\ epoch' = epoch /\ restored' = restored
      /\ success' = success
      /\ read' = read /\ poll' = poll
      /\ held' = held /\ since' = since /\ after' = after
  BY <1>1, Zenon DEF RefreshKeeps, route, history
<1>5. TypeOK'
  BY <1>3, <1>4, ShapeParts, TypesInPartsPrimed, Zenon DEF RefreshEffect, WallboxOK, RouteOK,
     RequestsOK, ReadsOK
<1> QED BY <1>2, <1>3, <1>4, <1>5, ShapeFrame, RouteFrame DEF Keeps, RefreshEffect

\* Time passes.
LEMMA TickKeeps == ASSUME ConfirmationAssumption, ShapeInv, Tick PROVE Keeps
<1>1. /\ device' = device /\ st' = st /\ req' = req /\ lock' = lock /\ local' = local
      /\ transitioning' = transitioning /\ epoch' = epoch /\ restored' = restored
      /\ success' = success
      /\ tokens' = tokens /\ results' = results
      /\ closed' = closed /\ due' = due /\ read' = read /\ poll' = poll /\ busy' = busy
      /\ ref' = ref
      /\ held' = held /\ since' = since /\ after' = after /\ task' = task /\ valid' = valid
      /\ pending' = [f \in Fields |-> IF pending[f] = None THEN None
                                    ELSE [pending[f] EXCEPT !.age = Older(pending[f].age),
                                                            !.readAge = Older(pending[f].readAge)]]
      /\ timer' = IF timer \in {None, 0} THEN timer ELSE timer - 1
  BY Zenon DEF Tick, route, settings, history, refresh
<1>2. ASSUME NEW f \in Fields, NEW b \in Readback, b = pending[f], b # None
      PROVE  /\ pending'[f] \in Readback /\ pending'[f].value = b.value /\ pending'[f].epoch = b.epoch
  <2>1. Older(b.age) \in 0..Deadline + 1 /\ Older(b.readAge) \in 0..Deadline + 1
    BY SMT DEF Older, Readback, ConfirmationAssumption
  <2>2. pending'[f] = [b EXCEPT !.age = Older(b.age), !.readAge = Older(b.readAge)]
    BY <1>1, <1>2, Zenon
  <2> QED BY <2>1, <2>2, Zenon DEF Readback
<1>3. \A f \in Fields : IF pending[f] = None THEN pending'[f] = None
         ELSE pending'[f] \in Readback /\ pending'[f].value = pending[f].value /\ pending'[f].epoch = pending[f].epoch
  <2>1. \A f \in Fields : pending[f] \in Readback \cup {None}
    BY ShapeParts, Zenon DEF MonitorOK, Owing
  <2> QED BY <1>1, <1>2, <2>1, Zenon
<1>4. None \notin Readback
  BY NoneIsNoReadback
<1>5. \A f \in Fields : pending'[f] # None <=> pending[f] # None
  BY <1>3, <1>4, Zenon
<1>6. timer' \in 0..Deadline \cup {None} /\ (timer' # None <=> timer # None)
  <2>1. None \notin Nat /\ Deadline \in Nat
    BY SMT DEF ConfirmationAssumption
  <2>2. timer \in 0..Deadline \cup {None}
    BY ShapeParts DEF MonitorOK
  <2>3. CASE timer \in {None, 0}
    BY <1>1, <2>2, <2>3, Zenon
  <2>4. CASE timer \notin {None, 0}
    <3>1. timer' = timer - 1 /\ timer \in 0..Deadline /\ timer # 0
      BY <1>1, <2>2, <2>4, Zenon
    <3>2. timer' \in 0..Deadline /\ timer' \in Nat
      BY <2>1, <3>1, SMT
    <3> QED BY <2>1, <2>4, <3>2, Zenon
  <2> QED BY <2>3, <2>4
<1>7. MonitorOK'
  <2>1. \A f \in Fields : pending'[f] \in Readback \cup {None}
    BY <1>3, Zenon
  <2>2. pending' \in Owing
    BY <1>1, <2>1, Zenon DEF Owing
  <2> QED BY <1>1, <1>6, <2>2, ShapeParts, Zenon DEF MonitorOK
<1>8. Fades /\ TimerKept
  <2>1. Fades
    BY <1>1, <1>3, <1>7, Zenon DEF Fades
  <2> QED BY <1>1, <1>5, <1>6, <2>1, Zenon DEF TimerKept, TimerWhileOwed, Owed
<1>9. TypeOK'
  BY <1>1, <1>7, ShapeParts, TypesInPartsPrimed, Zenon DEF WallboxOK, RouteOK, RequestsOK, ReadsOK,
     RefreshOK
<1> QED BY <1>1, <1>8, <1>9, ShapeFrame, RouteFrame DEF Keeps

-----------------------------------------------------------------------------
(* The router, and the end of the entry.                                     *)

\* A handover cancels everything.
LEMMA HandoverBeginsKeeps ==
  ASSUME ConfirmationAssumption, ShapeInv, HandoverBegins
  PROVE  Keeps
<1>1. /\ device' = device /\ st' = st /\ req' = req /\ lock' = lock /\ local' = local
      /\ transitioning' = TRUE /\ epoch' = epoch + 1 /\ restored' = restored /\ success' = FALSE
      /\ closed' = closed /\ busy' = busy /\ ref' = ref /\ due' = due /\ task' = task
      /\ valid' = None /\ read' = Discarded(read) /\ poll' = Discarded(poll)
      /\ since' = [f \in Fields |-> {device[f]}] /\ held' = held /\ after' = after
  BY Zenon DEF HandoverBegins, refresh
<1>2. /\ pending' = [f \in Fields |-> None] /\ tokens' = [f \in Fields |-> 0] /\ timer' = None
      /\ results' \in [Fields -> Outcomes]
  BY ShapeParts, CancelEffect DEF HandoverBegins
<1>3. Fades /\ TimerKept /\ RouteKept
  BY <1>2, ShapeParts, NothingOwed
<1>4. read' \in Reading /\ poll' \in Reading /\ read'.who = read.who
  BY <1>1, ShapeParts, DiscardedIsReading DEF ReadsOK
<1>5. WallboxOK' /\ RouteOK' /\ RefreshOK'
  <2>1. \A f \in Fields : {device[f]} \in SUBSET Reported
    BY ShapeParts, Zenon DEF WallboxOK
  <2>2. since' \in [Fields -> SUBSET Reported]
    BY <1>1, <2>1, Zenon
  <2>3. epoch' \in Nat
    BY <1>1, ShapeParts, SMT DEF RouteOK
  <2>4. WallboxOK'
    BY <1>1, <2>2, ShapeParts, Zenon DEF WallboxOK
  <2>5. RouteOK'
    BY <1>1, <2>3, ShapeParts, Zenon DEF RouteOK
  <2>6. RefreshOK'
    BY <1>1, ShapeParts, Zenon DEF RefreshOK
  <2> QED BY <2>4, <2>5, <2>6
<1>6. TypeOK'
  BY <1>1, <1>3, <1>4, <1>5, ShapeParts, TypesInPartsPrimed, Zenon DEF RequestsOK, ReadsOK, Fades
<1> QED BY <1>1, <1>3, <1>4, <1>6, ShapeFrame DEF Keeps

\* Nothing is owed when a handover ends.
LEMMA HandoverEndsKeeps == ASSUME ShapeInv, HandoverEnds PROVE Keeps
<1>1. /\ device' = device /\ st' = st /\ req' = req /\ lock' = lock
      /\ epoch' = epoch /\ success' = FALSE /\ transitioning' = FALSE
      /\ local' \in BOOLEAN /\ restored' = (restored \/ ~local')
      /\ tokens' = tokens /\ pending' = pending /\ results' = results /\ timer' = timer
      /\ closed' = closed /\ busy' = busy /\ due' = due /\ ref' = ref /\ read' = read
      /\ poll' = poll
      /\ held' = held /\ since' = since /\ after' = after /\ task' = task /\ valid' = valid
  BY Zenon DEF HandoverEnds, monitor, refresh, settings, history
<1>2. RouteOK'
  <2>1. (restored \/ ~local') \in BOOLEAN
    OBVIOUS
  <2> QED BY <1>1, <2>1, ShapeParts, Zenon DEF RouteOK
<1>3. TypeOK'
  BY <1>1, <1>2, ShapeParts, TypesInPartsPrimed, Zenon
     DEF MonitorOK, WallboxOK, RequestsOK, ReadsOK, RefreshOK
<1>4. Fades /\ TimerKept
  BY <1>1, ShapeParts, MonitorFrame DEF monitor
<1>5. RouteKept
  <2>1. transitioning
    BY DEF HandoverEnds
  <2> QED BY <1>1, <2>1, Zenon DEF RouteKept, RouteOfRequest
<1> QED BY <1>1, <1>3, <1>4, <1>5, ShapeFrame DEF Keeps

\* The end of the entry cancels everything.
LEMMA CloseKeeps == ASSUME ConfirmationAssumption, ShapeInv, Close PROVE Keeps
<1>1. /\ device' = device /\ st' = st /\ req' = req /\ lock' = lock /\ local' = local
      /\ transitioning' = transitioning /\ epoch' = epoch /\ restored' = restored
      /\ success' = success
      /\ closed' = TRUE /\ busy' = busy /\ due' = due /\ ref' = ref /\ read' = read /\ poll' = poll
      /\ held' = held /\ since' = since /\ after' = after /\ task' = task /\ valid' = valid
  BY Zenon DEF Close, route, refresh, settings, history
<1>2. /\ pending' = [f \in Fields |-> None] /\ tokens' = [f \in Fields |-> 0] /\ timer' = None
      /\ results' \in [Fields -> Outcomes]
  BY ShapeParts, CancelEffect DEF Close
<1>3. Fades /\ TimerKept /\ RouteKept
  BY <1>2, ShapeParts, NothingOwed
<1>4. TypeOK'
  BY <1>1, <1>3, ShapeParts, TypesInPartsPrimed, Zenon
     DEF Fades, RouteOK, WallboxOK, RequestsOK, ReadsOK, RefreshOK
<1> QED BY <1>1, <1>3, <1>4, ShapeFrame DEF Keeps

-----------------------------------------------------------------------------
(* The requests.                                                             *)

\* A request that has begun is one that was asked.
LEMMA BegunIsAsked ==
  ASSUME ConfirmationAssumption, ShapeInv, NEW r \in Requests, st[r] # "new"
  PROVE  /\ req[r] \in Asked /\ req[r].field \in Fields /\ req[r].value \in Values
         /\ req[r].epoch \in Nat /\ r # 0 /\ r \in 0..N
<1>1. req[r] \in Asked
  BY DEF ShapeInv
<1>2. r # 0 /\ r \in 0..N
  BY SMT DEF Requests, ConfirmationAssumption
<1> QED BY <1>1, <1>2, Zenon DEF Asked

\* A request takes the lock.
LEMMA AcquireKeeps == ASSUME ConfirmationAssumption, ShapeInv, Acquire PROVE Keeps
<1>1. PICK r \in Requests :
         /\ st[r] = "waiting" /\ lock = 0 /\ lock' = r
         /\ Goto(r, IF req[r].field \notin Settings THEN "begun"
                    ELSE IF Ready /\ success THEN "first" ELSE "refused")
  BY Zenon DEF Acquire
<1>2. /\ device' = device /\ req' = req /\ local' = local
      /\ transitioning' = transitioning /\ epoch' = epoch /\ restored' = restored
      /\ success' = success
      /\ tokens' = tokens /\ pending' = pending /\ results' = results /\ timer' = timer
      /\ closed' = closed /\ busy' = busy /\ due' = due /\ ref' = ref /\ read' = read
      /\ poll' = poll
      /\ held' = held /\ since' = since /\ after' = after /\ task' = task /\ valid' = valid
  BY Zenon DEF Acquire, route, monitor, refresh, settings, history
<1>3. /\ st' = [st EXCEPT ![r] = st'[r]] /\ st'[r] \in {"begun", "first", "refused"}
      /\ st'[r] \in Configuring => req[r].field \in Settings
  <2>1. st \in [Requests -> States]
    BY ShapeParts DEF RequestsOK
  <2> QED BY <1>1, <2>1, Zenon DEF Goto, Configuring
<1>4. r \in 0..N /\ r # 0
  BY <1>1, BegunIsAsked
<1>5. TypeOK'
  <2>1. RequestsOK'
    BY <1>1, <1>2, <1>3, <1>4, ShapeParts, Zenon DEF RequestsOK, States, InLock
  <2> QED BY <1>2, <2>1, ShapeParts, TypesInPartsPrimed, Zenon
             DEF MonitorOK, WallboxOK, RouteOK, ReadsOK, RefreshOK
<1>6. \A q \in Requests \ {r} : st'[q] = st[q]
  BY <1>3, ShapeParts, Zenon DEF RequestsOK
<1>7. \A q \in Requests : st[q] = "new" <=> st'[q] = "new"
  BY <1>1, <1>3, <1>6, Zenon
<1>8. \A q \in Requests : st'[q] \in InLock <=> lock' = q
  <2>1. \A q \in Requests : st[q] \notin InLock
    <3>1. 0 \notin Requests
      BY SMT DEF Requests
    <3> QED BY <1>1, <3>1, Zenon DEF ShapeInv
  <2>2. st'[r] \in InLock
    BY <1>3, Zenon DEF InLock
  <2> QED BY <1>1, <1>6, <2>1, <2>2, Zenon
<1>9. read'.who # "write"
  BY <1>1, <1>2, Zenon DEF ShapeInv
<1>10. ShapeInv' /\ Settled
  <2>1. Settled
    BY <1>2, <1>7 DEF Settled
  <2>2. \A q \in Requests : st'[q] \in Configuring => req'[q].field \in Settings
    BY <1>2, <1>3, <1>6, Zenon DEF ShapeInv
  <2> QED BY <1>2, <1>5, <1>7, <1>8, <1>9, <2>1, <2>2, Zenon DEF ShapeInv
<1>11. Fades /\ TimerKept
  BY <1>2, ShapeParts, MonitorFrame DEF monitor
<1> QED BY <1>2, <1>10, <1>11, RouteFrame DEF Keeps

\* A write is sent.
LEMMA SendKeeps == ASSUME ConfirmationAssumption, ShapeInv, Send PROVE Keeps
<1> DEFINE f == req[lock].field
<1>1. /\ lock # 0 /\ st[lock] \in {"begun", "checked"} /\ lock' = lock
      /\ Goto(lock, IF f \in Settings THEN "last" ELSE "sent")
      /\ valid' = IF f \in Settings THEN None ELSE valid
  BY Zenon DEF Send
<1>2. /\ req' = req /\ local' = local
      /\ transitioning' = transitioning /\ epoch' = epoch /\ restored' = restored
      /\ success' = success
      /\ tokens' = tokens /\ pending' = pending /\ results' = results /\ timer' = timer
      /\ closed' = closed /\ busy' = busy /\ due' = due /\ ref' = ref /\ task' = task
  BY Zenon DEF Send, route, monitor, refresh
<1>3. lock \in Requests
  <2>1. lock \in 0..N
    BY ShapeParts DEF RequestsOK
  <2> QED BY <1>1, <2>1, SMT DEF Requests, ConfirmationAssumption
<1>4. f \in Fields /\ req[lock].value \in Values
  <2>1. st[lock] # "new"
    BY <1>1
  <2> QED BY <1>3, <2>1, BegunIsAsked
<1>5. PICK now : now \in Reported /\ Becomes(f, now) /\ after' = {now}
  <2>1. PICK now \in {device[f], req[lock].value}
                     \cup (IF f = Charging /\ req[lock].value = On THEN {Alarm} ELSE {}) :
                 Becomes(f, now) /\ after' = {now}
    BY Zenon DEF Send
  <2>2. device[f] \in Reported /\ req[lock].value \in Reported /\ Alarm \in Reported
    BY <1>4, ShapeParts, Zenon DEF WallboxOK, Reported
  <2>3. now \in Reported
    BY <2>2, Zenon
  <2> QED BY <2>1, <2>3
<1> HIDE DEF f
<1>6. /\ device' = [device EXCEPT ![f] = now]
      /\ held' = [held EXCEPT ![f] = IF pending[f] = None THEN {} ELSE held[f] \cup {now}]
      /\ since' = IF Source(f) = "settings" THEN [since EXCEPT ![f] = since[f] \cup {now}] ELSE since
      /\ poll' = Sees(poll, "telemetry", f, now) /\ read' = Sees(read, "settings", f, now)
  BY <1>5, Zenon DEF Becomes
<1>7. WallboxOK'
  <2>1. WallboxOK
    BY ShapeParts
  <2>2. held[f] \cup {now} \in SUBSET Reported /\ since[f] \cup {now} \in SUBSET Reported
    BY <1>4, <1>5, <2>1 DEF WallboxOK
  <2> QED BY <1>4, <1>5, <1>6, <2>1, <2>2, Zenon DEF WallboxOK
<1>8. ReadsOK' /\ read'.who = read.who
  <2>1. poll \in Reading /\ read \in Reading
    BY ShapeParts DEF ReadsOK
  <2>2. Sees(poll, "telemetry", f, now) \in Reading
    BY <1>4, <1>5, <2>1, SeesIsReading
  <2>3. Sees(read, "settings", f, now) \in Reading /\ Sees(read, "settings", f, now).who = read.who
    BY <1>4, <1>5, <2>1, SeesIsReading
  <2> QED BY <1>6, <2>2, <2>3 DEF ReadsOK
<1>9. st' = [st EXCEPT ![lock] = st'[lock]] /\ st'[lock] \in {"last", "sent"}
      /\ (st'[lock] = "last" => f \in Settings)
  <2>1. st \in [Requests -> States]
    BY ShapeParts DEF RequestsOK
  <2> QED BY <1>1, <1>3, <2>1, Zenon DEF Goto
<1>10. TypeOK'
  <2>1. RequestsOK'
    BY <1>1, <1>2, <1>3, <1>9, ShapeParts, Zenon DEF RequestsOK, States, InLock
  <2>2. RefreshOK'
    BY <1>1, <1>2, ShapeParts, Zenon DEF RefreshOK
  <2> QED BY <1>2, <1>7, <1>8, <2>1, <2>2, ShapeParts, TypesInPartsPrimed, Zenon
             DEF MonitorOK, RouteOK
<1>11. \A q \in Requests \ {lock} : st'[q] = st[q]
  BY <1>9, ShapeParts, Zenon DEF RequestsOK
<1>12. ShapeInv' /\ Settled
  <2>1. Settled
    BY <1>1, <1>2, <1>9, <1>11, Zenon DEF Settled
  <2>2. \A q \in Requests : st'[q] \in InLock <=> lock' = q
    BY <1>1, <1>9, <1>11, Zenon DEF ShapeInv, InLock
  <2>3. \A q \in Requests : st'[q] \in Configuring => req'[q].field \in Settings
    BY <1>2, <1>9, <1>11, Zenon DEF ShapeInv, Configuring, f
  <2>4. read'.who # "write"
    BY <1>1, <1>8, Zenon DEF ShapeInv
  <2> QED BY <1>2, <1>10, <2>1, <2>2, <2>3, <2>4, Zenon DEF ShapeInv, Settled
<1>13. Fades /\ TimerKept
  BY <1>2, ShapeParts, MonitorFrame DEF monitor
<1> QED BY <1>2, <1>12, <1>13, RouteFrame DEF Keeps

\* A request that ends gives up the lock, and its read.
LEMMA EndsShape ==
  ASSUME ConfirmationAssumption, ShapeInv, NEW r \in Requests, st[r] \in InLock \cup {"waiting"},
         Ends(r),
         MonitorOK', poll' \in Reading, read' \in Reading, read'.who = ReadAfter(r).who,
         held' \in [Fields -> SUBSET Reported]
  PROVE  ShapeInv' /\ Settled /\ UNCHANGED <<local, transitioning, closed, epoch>>
<1> DEFINE f == req[r].field
<1>1. /\ device' = device /\ req' = req /\ local' = local
      /\ transitioning' = transitioning /\ epoch' = epoch /\ restored' = restored
      /\ success' = success
      /\ closed' = closed /\ busy' = busy /\ due' = due /\ ref' = ref /\ task' = task
      /\ st' = [st EXCEPT ![r] = "over"] /\ lock' = IF lock = r THEN 0 ELSE lock
      /\ valid' \in {None, valid}
      /\ since' \in {since, [since EXCEPT ![f] = {device[f]}], [since EXCEPT ![f] = after]}
      /\ after' \in {{}, after}
  BY Zenon DEF Ends, Goto, route, refresh
<1>2. st[r] # "new" /\ f \in Fields /\ r # 0
  <2>1. st[r] # "new"
    BY DEF InLock
  <2> QED BY <2>1, BegunIsAsked
<1>3. WallboxOK'
  <2>1. WallboxOK
    BY ShapeParts
  <2>2. {device[f]} \in SUBSET Reported /\ after \in SUBSET Reported
    BY <1>2, <2>1 DEF WallboxOK
  <2> HIDE DEF f
  <2>3. since' \in [Fields -> SUBSET Reported]
    BY <1>1, <2>1, <2>2, Zenon DEF WallboxOK
  <2>4. after' \subseteq Reported
    BY <1>1, <2>2
  <2> QED BY <1>1, <2>1, <2>3, <2>4, Zenon DEF WallboxOK
<1>4. TypeOK'
  <2>1. RequestsOK'
    <3>1. 0 \in 0..N
      BY SMT DEF ConfirmationAssumption
    <3> QED BY <1>1, <3>1, ShapeParts, Zenon DEF RequestsOK, States
  <2>2. RefreshOK'
    BY <1>1, ShapeParts, Zenon DEF RefreshOK
  <2>3. RouteOK' /\ ReadsOK'
    BY <1>1, ShapeParts, Zenon DEF RouteOK, ReadsOK
  <2> QED BY <1>3, <2>1, <2>2, <2>3, TypesInPartsPrimed
<1>5. \A q \in Requests : st'[q] = IF q = r THEN "over" ELSE st[q]
  BY <1>1, ShapeParts, Zenon DEF RequestsOK
<1>6. Settled
  BY <1>1, <1>2, <1>5 DEF Settled
<1>7. \A q \in Requests : st'[q] \in InLock <=> lock' = q
  <2>1. "over" \notin InLock
    BY DEF InLock
  <2>2. 0 \notin Requests
    BY SMT DEF Requests
  <2>3. \A q \in Requests : st[q] \in InLock <=> lock = q
    BY DEF ShapeInv
  <2>4. CASE lock = r
    BY <1>1, <1>5, <2>1, <2>2, <2>3, <2>4, Zenon
  <2>5. CASE lock # r
    BY <1>1, <1>5, <2>1, <2>3, <2>5, Zenon
  <2> QED BY <2>4, <2>5
<1>8. \A q \in Requests : st'[q] \in Configuring => req'[q].field \in Settings
  BY <1>1, <1>5 DEF ShapeInv, Configuring
<1>9. read'.who = "write" => lock' # 0 /\ st'[lock'] \in {"first", "last"}
  <2> SUFFICES ASSUME read'.who = "write" PROVE lock' # 0 /\ st'[lock'] \in {"first", "last"}
    OBVIOUS
  <2>1. read \in Reading
    BY ShapeParts DEF ReadsOK
  <2>2. read.who = "write" /\ (lock = r => Control(r) /\ ~local)
    BY <2>1, ReadAfterIsReading
  <2>3. lock # 0 /\ st[lock] \in {"first", "last"}
    BY <2>2 DEF ShapeInv
  <2>4. lock # r
    <3> SUFFICES ASSUME lock = r PROVE FALSE
      OBVIOUS
    <3>1. st[r] \in Configuring
      BY <2>3 DEF Configuring
    <3>2. f \in Settings
      BY <3>1 DEF ShapeInv
    <3> QED BY <2>2, <3>2, Zenon DEF Control
  <2>5. lock \in Requests
    <3>1. lock \in 0..N
      BY ShapeParts DEF RequestsOK
    <3> QED BY <2>3, <3>1, SMT DEF Requests, ConfirmationAssumption
  <2> QED BY <1>1, <1>5, <2>3, <2>4, <2>5, Zenon
<1>10. ShapeInv'
  BY <1>1, <1>4, <1>6, <1>7, <1>8, <1>9, Zenon DEF ShapeInv, Settled
<1> QED BY <1>1, <1>6, <1>10

\* The token of a request that ends is used up.
LEMMA TokenUsedEffect ==
  ASSUME ConfirmationAssumption, MonitorOK, NEW r, NEW f \in Fields, TokenUsed(r, f)
  PROVE  /\ tokens' \in [Fields -> 0..N]
         /\ \A g \in Fields : tokens'[g] \in {0, tokens[g]}
         /\ \A g \in Fields \ {f} : tokens'[g] = tokens[g]
         /\ tokens[f] = r => tokens'[f] = 0
<1>1. 0 \in 0..N
  BY SMT DEF ConfirmationAssumption
<1>2. tokens' = [tokens EXCEPT ![f] = IF tokens[f] = r THEN 0 ELSE tokens[f]]
  BY Zenon DEF TokenUsed
<1> QED BY <1>1, <1>2, Zenon DEF MonitorOK

\* A request that ends and arms nothing.
LEMMA NotArmedKeeps ==
  ASSUME ConfirmationAssumption, ShapeInv, NEW r \in Requests, st[r] \in InLock \cup {"waiting"},
         Ends(r),
         TokenUsed(r, req[r].field), NotArmed(r, "over")
  PROVE  Keeps
<1> DEFINE f == req[r].field
<1>0. MonitorOK /\ read \in Reading /\ poll \in Reading
  BY ShapeParts DEF ReadsOK
<1>1. f \in Fields
  <2>1. st[r] # "new"
    BY DEF InLock
  <2> QED BY <2>1, BegunIsAsked
<1>2. /\ pending' = pending /\ timer' = timer /\ poll' = poll /\ held' = held
      /\ read' = ReadAfter(r)
      /\ results' = IF tokens[f] = r THEN [results EXCEPT ![f] = "over"] ELSE results
  BY Zenon DEF NotArmed
<1>3. closed' = closed /\ busy' = busy
  BY DEF Ends, refresh
<1>4. tokens' \in [Fields -> 0..N] /\ \A g \in Fields : tokens'[g] \in {0, tokens[g]}
  BY <1>0, <1>1, TokenUsedEffect
<1> HIDE DEF f
<1>5. results' \in [Fields -> Outcomes] /\ \A g \in Fields : results'[g] \in {results[g], "over"}
  <2>1. "over" \in Outcomes /\ results \in [Fields -> Outcomes]
    BY <1>0 DEF Outcomes, MonitorOK
  <2> QED BY <1>2, <2>1, Zenon
<1>6. Fades /\ TimerKept
  BY <1>0, <1>2, <1>3, <1>4, <1>5, Zenon DEF Fades, TimerKept, TimerWhileOwed, MonitorOK, Owed
<1>7. read' \in Reading /\ held' \in [Fields -> SUBSET Reported]
  BY <1>0, <1>2, ShapeParts, ReadAfterIsReading DEF WallboxOK
<1>8. ShapeInv' /\ Settled /\ UNCHANGED <<local, transitioning, closed, epoch>>
  BY <1>0, <1>2, <1>6, <1>7, EndsShape DEF Fades
<1> QED BY <1>6, <1>8, RouteFrame DEF Keeps

\* A readback of r is owed from now on, unless it is dropped at once.
Arms(r) ==
    LET f == req[r].field IN
    /\ ShapeInv' /\ Settled
    /\ tokens[f] = r /\ tokens'[f] = 0 /\ req[r].epoch = epoch
    /\ ~local /\ ~transitioning /\ ~closed
    /\ UNCHANGED <<device, local, transitioning, closed, epoch>>
    /\ pending'[f] # None => pending'[f].value = req[r].value /\ pending'[f].epoch = epoch
    /\ results'[f] # "confirmed"
    /\ \A g \in Fields \ {f} :
          /\ tokens'[g] \in {0, tokens[g]} /\ held'[g] = held[g]
          /\ pending'[g] # None =>
                /\ pending[g] # None /\ pending'[g].value = pending[g].value
                /\ pending'[g].epoch = pending[g].epoch
          /\ results'[g] \in {results[g], "over"}
    /\ held'[f] = {device[f]}
    /\ TimerWhileOwed'
    /\ poll' = Precedes(poll, f) /\ read' = Precedes(ReadAfter(r), f)

\* A request that ends and arms its readback.
LEMMA ArmedKeeps ==
  ASSUME ConfirmationAssumption, ShapeInv, NEW r \in Requests, st[r] \in InLock, Ends(r),
         TokenUsed(r, req[r].field), tokens[req[r].field] = r, Armed(r),
         ~closed /\ ~local /\ ~transitioning /\ req[r].epoch = epoch
  PROVE  Arms(r)
<1> DEFINE f == req[r].field
           b == [value |-> req[r].value, epoch |-> epoch, age |-> 0, readAge |-> 0]
           p == [pending EXCEPT ![f] = b]
           rs == [results EXCEPT ![f] = "pending"]
<1>0. MonitorOK /\ read \in Reading /\ poll \in Reading /\ WallboxOK
  BY ShapeParts DEF ReadsOK
<1>1. f \in Fields /\ req[r].value \in Values /\ r # 0
  <2>1. st[r] # "new"
    BY DEF InLock
  <2> QED BY <2>1, BegunIsAsked
<1>2. /\ Schedule(p, rs, busy, closed)
      /\ poll' = Precedes(poll, f) /\ read' = Precedes(ReadAfter(r), f)
      /\ held' = [held EXCEPT ![f] = {device[f]}]
  BY Zenon DEF Armed
<1>3. closed' = closed /\ busy' = busy /\ device' = device
  BY DEF Ends, refresh
<1>4. /\ tokens' \in [Fields -> 0..N] /\ \A g \in Fields : tokens'[g] \in {0, tokens[g]}
      /\ tokens'[f] = 0
  BY <1>0, <1>1, TokenUsedEffect
<1>5. b \in Readback
  <2>1. epoch \in Nat
    BY ShapeParts DEF RouteOK
  <2>2. 0 \in 0..Deadline + 1
    BY SMT DEF ConfirmationAssumption
  <2> QED BY <1>1, <2>1, <2>2, Zenon DEF Readback
<1>6. b.value = req[r].value /\ b.epoch = epoch
  OBVIOUS
<1> HIDE DEF f, b
<1>7. p \in Owing /\ rs \in [Fields -> Outcomes]
  <2>1. "pending" \in Outcomes
    BY DEF Outcomes
  <2> QED BY <1>0, <1>1, <1>5, <2>1, Zenon DEF MonitorOK, Owing
<1>8. /\ p[f] = b /\ rs[f] = "pending"
      /\ \A g \in Fields \ {f} : p[g] = pending[g] /\ rs[g] = results[g]
  BY <1>0, <1>1, Zenon DEF MonitorOK, Owing
<1> HIDE DEF p, rs
<1>9. /\ pending' \in Owing /\ results' \in [Fields -> Outcomes]
      /\ timer' \in 0..Deadline \cup {None}
      /\ \A g \in Fields : pending'[g] \in {None, p[g]}
      /\ \A g \in Fields : results'[g] \in {rs[g], "over"}
      /\ timer' # None <=> (\E g \in Fields : pending'[g] # None) /\ ~busy /\ ~closed
  BY <1>2, <1>7, ScheduleEffect
<1>10. MonitorOK' /\ TimerWhileOwed'
  BY <1>3, <1>4, <1>9, Zenon DEF MonitorOK, TimerWhileOwed, Owed
<1>11. held' \in [Fields -> SUBSET Reported] /\ held'[f] = {device[f]}
       /\ \A g \in Fields \ {f} : held'[g] = held[g]
  <2>1. {device[f]} \in SUBSET Reported
    BY <1>0, <1>1 DEF WallboxOK
  <2> QED BY <1>0, <1>1, <1>2, <2>1, Zenon DEF WallboxOK
<1>12. poll' \in Reading /\ read' \in Reading /\ read'.who = ReadAfter(r).who
  <2>1. ReadAfter(r) \in Reading
    BY <1>0, ReadAfterIsReading
  <2> QED BY <1>0, <1>1, <1>2, <2>1, PrecedesIsReading
<1>13. ShapeInv' /\ Settled /\ UNCHANGED <<local, transitioning, closed, epoch>>
  BY <1>10, <1>11, <1>12, EndsShape
<1>14. pending'[f] # None => pending'[f].value = req[r].value /\ pending'[f].epoch = epoch
  BY <1>1, <1>6, <1>8, <1>9, Zenon
<1>15. results'[f] # "confirmed"
  BY <1>1, <1>8, <1>9
<1>16. ASSUME NEW g \in Fields \ {f}
       PROVE  /\ tokens'[g] \in {0, tokens[g]} /\ held'[g] = held[g]
              /\ pending'[g] # None =>
                    /\ pending[g] # None /\ pending'[g].value = pending[g].value
                    /\ pending'[g].epoch = pending[g].epoch
              /\ results'[g] \in {results[g], "over"}
  BY <1>4, <1>8, <1>9, <1>11, Zenon
<1> QED BY <1>2, <1>3, <1>4, <1>10, <1>11, <1>13, <1>14, <1>15, <1>16 DEF Arms, f

\* An answer, or a timeout, arms the readback or not; a rejection does not.
LEMMA AcceptedKeeps ==
  ASSUME ConfirmationAssumption, ShapeInv, Answered \/ Uncertain \/ Rejected
  PROVE  \E r \in Requests : /\ st[r] \in InLock \cup {"waiting"} /\ Ends(r)
                             /\ \/ Keeps /\ NotArmed(r, "over")
                                \/ st[r] \in InLock /\ Arms(r)
<1>1. CASE Rejected
  <2>1. PICK r \in Requests : /\ st[r] \in InLock \cup {"waiting"} /\ Ends(r)
                              /\ TokenUsed(r, req[r].field) /\ NotArmed(r, "over")
    BY <1>1 DEF Rejected
  <2> QED BY <2>1, NotArmedKeeps
<1>2. CASE Answered \/ Uncertain
  <2>1. PICK r \in Requests : st[r] \in InLock /\ Ends(r) /\ Accepted(r)
    BY <1>2, Zenon DEF Answered, Uncertain, InLock
  <2>2. CASE /\ tokens[req[r].field] = r
             /\ ~closed /\ ~local /\ ~transitioning /\ req[r].epoch = epoch
    <3>1. TokenUsed(r, req[r].field) /\ Armed(r)
      BY <2>1, <2>2, Zenon DEF Accepted
    <3> QED BY <2>1, <2>2, <3>1, ArmedKeeps
  <2>3. CASE ~(/\ tokens[req[r].field] = r
               /\ ~closed /\ ~local /\ ~transitioning /\ req[r].epoch = epoch)
    <3>1. TokenUsed(r, req[r].field) /\ NotArmed(r, "over")
      BY <2>1, <2>3, Zenon DEF Accepted
    <3> QED BY <2>1, <3>1, NotArmedKeeps
  <2> QED BY <2>2, <2>3
<1> QED BY <1>1, <1>2

\* r begins, with field f; what was owed for f is not owed any more.
Starts(r, f) ==
    /\ ShapeInv'
    /\ st[r] = "new" /\ \A q \in Requests : q < r => st[q] # "new"
    /\ \A q \in Requests : st'[q] = "new" <=> st[q] = "new" /\ q # r
    /\ req'[r].field = f /\ \A q \in Requests \ {r} : req'[q] = req[q]
    /\ tokens'[f] = r /\ pending'[f] = None
    /\ \A g \in Fields \ {f} :
          /\ tokens'[g] = tokens[g] /\ pending'[g] \in {None, pending[g]}
          /\ results'[g] \in {results[g], "over"}
    /\ results'[f] # "confirmed"
    /\ TimerWhileOwed'
    /\ UNCHANGED <<device, lock, local, transitioning, epoch, closed, poll, read, valid, history>>

\* A request that begins.
LEMMA BeginKeeps ==
  ASSUME ConfirmationAssumption, ShapeInv, Begin
  PROVE  \E r \in Requests, f \in Fields : Starts(r, f)
<1>0. PICK r \in Requests : \E w \in Writes[r] :
         LET f == w[1]
             v == w[2]
         IN  /\ st[r] = "new" /\ \A q \in Requests : q < r => st[q] # "new"
             /\ req' = [req EXCEPT ![r] = [field |-> f, value |-> v, epoch |-> epoch]]
             /\ tokens' = [tokens EXCEPT ![f] = r]
             /\ Schedule([pending EXCEPT ![f] = None], [results EXCEPT ![f] = "writing"], busy, closed)
             /\ Goto(r, "waiting")
  BY Zenon DEF Begin
<1>1. PICK w \in Writes[r] :
         LET f == w[1]
             v == w[2]
         IN  /\ st[r] = "new" /\ \A q \in Requests : q < r => st[q] # "new"
             /\ req' = [req EXCEPT ![r] = [field |-> f, value |-> v, epoch |-> epoch]]
             /\ tokens' = [tokens EXCEPT ![f] = r]
             /\ Schedule([pending EXCEPT ![f] = None], [results EXCEPT ![f] = "writing"], busy, closed)
             /\ Goto(r, "waiting")
  BY <1>0, Zenon
<1> DEFINE f == w[1]
           v == w[2]
           asked == [field |-> f, value |-> v, epoch |-> epoch]
           p == [pending EXCEPT ![f] = None]
           rs == [results EXCEPT ![f] = "writing"]
<1>2. /\ device' = device /\ lock' = lock /\ local' = local
      /\ transitioning' = transitioning /\ epoch' = epoch /\ restored' = restored
      /\ success' = success
      /\ closed' = closed /\ busy' = busy /\ due' = due /\ ref' = ref /\ read' = read
      /\ poll' = poll
      /\ held' = held /\ since' = since /\ after' = after /\ task' = task /\ valid' = valid
  BY Zenon DEF Begin, route, refresh, settings, history
<1>3. f \in Fields /\ v \in Values
  <2>1. w \in Fields \X Values
    BY SMT DEF ConfirmationAssumption
  <2> QED BY <2>1
<1>4. asked \in Asked /\ asked.field = f
  <2>1. epoch \in Nat
    BY ShapeParts DEF RouteOK
  <2> QED BY <1>3, <2>1, Zenon DEF Asked
<1>5. /\ st' = [st EXCEPT ![r] = "waiting"] /\ req' = [req EXCEPT ![r] = asked]
      /\ tokens' = [tokens EXCEPT ![f] = r] /\ Schedule(p, rs, busy, closed)
      /\ st[r] = "new" /\ \A q \in Requests : q < r => st[q] # "new"
  BY <1>1, Zenon DEF Goto
<1>6. r \in 0..N /\ r \in Nat /\ \A q \in Requests : q \in Nat
  BY SMT DEF Requests, ConfirmationAssumption
<1> HIDE DEF f, v, asked
<1>7. MonitorOK
  BY ShapeParts
<1>8. p \in Owing /\ rs \in [Fields -> Outcomes]
  <2>1. "writing" \in Outcomes
    BY DEF Outcomes
  <2> QED BY <1>3, <1>7, <2>1, Zenon DEF MonitorOK, Owing
<1>9. p[f] = None /\ rs[f] = "writing" /\ \A g \in Fields \ {f} : p[g] = pending[g] /\ rs[g] = results[g]
  BY <1>3, <1>7, Zenon DEF MonitorOK, Owing
<1> HIDE DEF p, rs
<1>10. /\ pending' \in Owing /\ results' \in [Fields -> Outcomes]
       /\ timer' \in 0..Deadline \cup {None}
       /\ \A g \in Fields : pending'[g] \in {None, p[g]}
       /\ \A g \in Fields : results'[g] \in {rs[g], "over"}
       /\ timer' # None <=> (\E g \in Fields : pending'[g] # None) /\ ~busy /\ ~closed
  BY <1>5, <1>8, ScheduleEffect
<1>11. /\ tokens' \in [Fields -> 0..N] /\ tokens'[f] = r
       /\ \A g \in Fields \ {f} : tokens'[g] = tokens[g]
  BY <1>3, <1>5, <1>6, <1>7, Zenon DEF MonitorOK
<1>12. MonitorOK' /\ TimerWhileOwed'
  <2>1. MonitorOK'
    BY <1>10, <1>11 DEF MonitorOK
  <2>2. busy' = busy /\ closed' = closed
    BY <1>2
  <2>3. TimerWhileOwed'
    BY <1>10, <2>2, Zenon DEF TimerWhileOwed, Owed
  <2> QED BY <2>1, <2>3
<1>13. \A q \in Requests : /\ st'[q] = IF q = r THEN "waiting" ELSE st[q]
                          /\ req'[q] = IF q = r THEN asked ELSE req[q]
  BY <1>5, ShapeParts, Zenon DEF RequestsOK
<1>14. TypeOK'
  <2>1. RequestsOK'
    BY <1>2, <1>4, <1>5, ShapeParts, Zenon DEF RequestsOK, States
  <2>2. RefreshOK' /\ RouteOK'
    BY <1>2, ShapeParts, Zenon DEF RefreshOK, RouteOK
  <2> QED BY <1>2, <1>12, <2>1, <2>2, ShapeParts, TypesInPartsPrimed, Zenon DEF WallboxOK, ReadsOK
<1>15. ShapeInv'
  <2>1. \A q \in Requests : st'[q] # "new" => req'[q] \in Asked
    BY <1>4, <1>13, Zenon DEF ShapeInv
  <2>2. ASSUME NEW a \in Requests, NEW q \in Requests, q < a, st'[a] # "new" PROVE st'[q] # "new"
    BY <1>5, <1>13, <2>2 DEF ShapeInv
  <2>3. \A q \in Requests : st'[q] \in InLock <=> lock' = q
    <3>1. "waiting" \notin InLock /\ "new" \notin InLock
      BY DEF InLock
    <3> QED BY <1>2, <1>5, <1>13, <3>1, Zenon DEF ShapeInv
  <2>4. \A q \in Requests : st'[q] \in Configuring => req'[q].field \in Settings
    <3>1. "waiting" \notin Configuring
      BY DEF Configuring
    <3> QED BY <1>13, <3>1, Zenon DEF ShapeInv
  <2>5. read'.who = "write" => lock' # 0 /\ st'[lock'] \in {"first", "last"}
    <3> SUFFICES ASSUME read'.who = "write" PROVE lock' # 0 /\ st'[lock'] \in {"first", "last"}
      OBVIOUS
    <3>1. lock # 0 /\ st[lock] \in {"first", "last"}
      BY <1>2 DEF ShapeInv
    <3>2. lock \in Requests
      <4>1. lock \in 0..N
        BY ShapeParts DEF RequestsOK
      <4> QED BY <3>1, <4>1, SMT DEF Requests, ConfirmationAssumption
    <3>3. lock # r
      BY <1>5, <3>1
    <3> QED BY <1>2, <1>13, <3>1, <3>2, <3>3
  <2> QED BY <1>14, <2>1, <2>2, <2>3, <2>4, <2>5, Zenon DEF ShapeInv
<1>16. \A q \in Requests : st'[q] = "new" <=> st[q] = "new" /\ q # r
  BY <1>13
<1>17. req'[r].field = f /\ \A q \in Requests \ {r} : req'[q] = req[q]
  BY <1>4, <1>13
<1>18. /\ pending'[f] = None /\ results'[f] # "confirmed"
       /\ \A g \in Fields \ {f} : pending'[g] \in {None, pending[g]} /\ results'[g] \in {results[g], "over"}
  <2>1. pending'[f] \in {None, p[f]} /\ results'[f] \in {rs[f], "over"}
    BY <1>3, <1>10
  <2>2. ASSUME NEW g \in Fields \ {f}
        PROVE  pending'[g] \in {None, pending[g]} /\ results'[g] \in {results[g], "over"}
    BY <1>9, <1>10, Zenon
  <2> QED BY <1>9, <2>1, <2>2
<1>19. UNCHANGED history
  BY <1>2 DEF history
<1>20. Starts(r, f)
  BY <1>2, <1>5, <1>11, <1>12, <1>15, <1>16, <1>17, <1>18, <1>19, Zenon DEF Starts
<1> QED BY <1>3, <1>20

\* The requests and the timer stand well at the start.
LEMMA InitShape == ASSUME ConfirmationAssumption, Init PROVE ShapeInv /\ TimerWhileOwed
<1>1. 0 \in 0..N /\ \A r \in Requests : r # 0 /\ r \in Nat
  BY SMT DEF Requests, ConfirmationAssumption
<1>2. MonitorOK
  BY <1>1, Zenon DEF Init, MonitorOK, Owing, Outcomes
<1>3. ReadsOK /\ read.who = "nobody"
  BY NoReadIsReading DEF Init, ReadsOK
<1>4. WallboxOK
  <2>1. \A f \in Fields : device[f] \in Reported
    BY Zenon DEF Init, Reported
  <2>2. \A f \in Fields : {device[f]} \in SUBSET Reported
    BY <2>1
  <2>3. device \in [Fields -> Reported] /\ since \in [Fields -> SUBSET Reported]
    BY <2>1, <2>2, Zenon DEF Init
  <2> QED BY <2>3, Zenon DEF Init, WallboxOK
<1>5. RouteOK /\ RefreshOK
  BY Zenon DEF Init, RouteOK, RefreshOK
<1>6. RequestsOK /\ \A r \in Requests : st[r] = "new"
  BY <1>1, Zenon DEF Init, RequestsOK, States
<1>7. TypeOK
  BY <1>2, <1>3, <1>4, <1>5, <1>6, TypesInParts
<1>8. \A r \in Requests : st[r] \notin InLock /\ st[r] \notin Configuring
  BY <1>6 DEF InLock, Configuring
<1>9. ShapeInv
  BY <1>1, <1>3, <1>6, <1>7, <1>8 DEF ShapeInv, Init
<1>10. TimerWhileOwed
  BY Zenon DEF Init, TimerWhileOwed, Owed
<1> QED BY <1>9, <1>10

\* Nothing happens.
LEMMA UnchangedKeeps == ASSUME ShapeInv, UNCHANGED vars PROVE Keeps
<1>1. /\ UNCHANGED <<monitor, busy, closed>> /\ UNCHANGED <<local, transitioning, closed, epoch>>
      /\ UNCHANGED <<st, req, lock, read>>
  BY Zenon DEF vars, refresh, route
<1>2. TypeOK'
  <2>1. MonitorOK' /\ RefreshOK'
    BY ShapeParts, Zenon DEF vars, monitor, refresh, settings, MonitorOK, RefreshOK
  <2>2. RouteOK' /\ WallboxOK'
    BY ShapeParts, Zenon DEF vars, route, history, RouteOK, WallboxOK
  <2>3. RequestsOK' /\ ReadsOK'
    BY ShapeParts, Zenon DEF vars, RequestsOK, ReadsOK
  <2> QED BY <2>1, <2>2, <2>3, TypesInPartsPrimed
<1> QED BY <1>1, <1>2, ShapeParts, ShapeFrame, MonitorFrame, RouteFrame DEF Keeps

\* Every step but the beginning of a request and the arming of a readback.
LEMMA StepKeeps ==
  ASSUME ConfirmationAssumption, ShapeInv, [Next]_vars
  PROVE  \/ Keeps
         \/ \E r \in Requests, f \in Fields : Starts(r, f)
         \/ \E r \in Requests : st[r] \in InLock /\ Ends(r) /\ Arms(r)
<1>1. CASE Begin
  BY <1>1, BeginKeeps
<1>2. CASE Answered \/ Uncertain \/ Rejected
  BY <1>2, AcceptedKeeps, Zenon
<1>3. CASE Acquire \/ Send
  BY <1>3, AcquireKeeps, SendKeeps
<1>4. CASE PollBegins \/ PollReturns \/ PollFails
  BY <1>4, PollBeginsKeeps, PollEndsKeeps
<1>5. CASE ReadBegins \/ ReadCrossed \/ ReadReturns \/ ReadFails
  BY <1>5, ReadBeginsKeeps, ReadEndsKeeps
<1>6. CASE Wake \/ Refresher \/ Tick
  BY <1>6, WakeKeeps, RefresherKeeps, TickKeeps
<1>7. CASE HandoverBegins \/ HandoverEnds \/ Close
  BY <1>7, HandoverBeginsKeeps, HandoverEndsKeeps, CloseKeeps
<1>8. CASE UNCHANGED vars
  BY <1>8, UnchangedKeeps
<1> QED BY <1>1, <1>2, <1>3, <1>4, <1>5, <1>6, <1>7, <1>8 DEF Next

-----------------------------------------------------------------------------
(* The invariant.  What is owed belongs to the newest request of its field.   *)

AskedFor(f) == {r \in Requests : st[r] # "new" /\ req[r].field = f}

\* The newest request is the largest that has begun; nothing is owed to none.
NewestIs(f) ==
    IF AskedFor(f) = {} THEN Newest(f) = 0 /\ pending[f] = None /\ tokens[f] = 0
    ELSE Newest(f) \in AskedFor(f) /\ \A q \in AskedFor(f) : q <= Newest(f)

NewestInv == NewestOnly /\ \A f \in Fields : NewestIs(f)
OwedInv   == ShapeInv /\ TimerWhileOwed /\ RouteOfRequest /\ NewestInv

\* Newest depends on what was asked for alone.
NewestIn(S) == IF S = {} THEN 0 ELSE CHOOSE r \in S : \A q \in S : q <= r

\* Newest, as a function of the set of requests.
LEMMA NewestOf ==
  ASSUME NEW f
  PROVE  Newest(f) = NewestIn(AskedFor(f)) /\ Newest(f)' = NewestIn(AskedFor(f)')
  BY Zenon DEF Newest, NewestIn, AskedFor

\* The newest request is the largest.
LEMMA NewestInIs ==
  ASSUME NEW S \in SUBSET Nat, NEW r \in S, \A q \in S : q <= r
  PROVE  NewestIn(S) = r
<1>1. NewestIn(S) \in S /\ \A q \in S : q <= NewestIn(S)
  BY Zenon DEF NewestIn
<1>2. NewestIn(S) <= r /\ r <= NewestIn(S)
  BY <1>1, Zenon
<1>3. NewestIn(S) \in Nat /\ r \in Nat
  BY <1>1
<1> QED BY <1>2, <1>3, SMT

\* While no request begins, the newest one is the same.
LEMMA SettledAsked ==
  ASSUME Settled, NEW f
  PROVE  AskedFor(f)' = AskedFor(f) /\ Newest(f)' = Newest(f)
<1>1. AskedFor(f)' = AskedFor(f)
  BY DEF Settled, AskedFor
<1> QED BY <1>1, NewestOf, Zenon

\* Steps that neither begin a request nor arm a readback keep the invariant.
LEMMA KeepsOwed ==
  ASSUME ConfirmationAssumption, OwedInv, Keeps
  PROVE  OwedInv'
<1>1. \A f \in Fields : AskedFor(f)' = AskedFor(f) /\ Newest(f)' = Newest(f)
  BY SettledAsked DEF Keeps
<1>2. req' = req
  BY DEF Keeps, Settled
<1>3. NewestInv'
  <2>1. ASSUME NEW f \in Fields PROVE NewestIs(f)'
    <3>1. pending[f] = None => pending'[f] = None
      BY Zenon DEF Keeps, Fades
    <3>2. tokens[f] = 0 => tokens'[f] = 0
      BY Zenon DEF Keeps, Fades
    <3>3. NewestIs(f)
      BY DEF OwedInv, NewestInv
    <3>4. AskedFor(f)' = AskedFor(f) /\ Newest(f)' = Newest(f)
      BY <1>1
    <3>5. NewestIs(f)' <=> IF AskedFor(f) = {} THEN Newest(f) = 0 /\ pending'[f] = None /\ tokens'[f] = 0
                           ELSE Newest(f) \in AskedFor(f) /\ \A q \in AskedFor(f) : q <= Newest(f)
      BY <3>4, Zenon DEF NewestIs
    <3> QED BY <3>1, <3>2, <3>3, <3>5, Zenon DEF NewestIs
  <2>2. ASSUME NEW f \in Fields
        PROVE  /\ tokens'[f] \in {0, Newest(f)'}
               /\ pending'[f] # None =>
                     pending'[f].value = req'[Newest(f)'].value /\ tokens'[f] = 0
    <3>1. /\ tokens[f] \in {0, Newest(f)}
          /\ pending[f] # None => pending[f].value = req[Newest(f)].value /\ tokens[f] = 0
      BY DEF OwedInv, NewestInv, NewestOnly
    <3>2. tokens'[f] \in {0, tokens[f]}
          /\ (pending'[f] # None => pending[f] # None /\ pending'[f].value = pending[f].value)
      BY Zenon DEF Keeps, Fades
    <3> QED BY <1>1, <1>2, <3>1, <3>2
  <2>3. NewestOnly'
    BY <2>2, Zenon DEF NewestOnly
  <2> QED BY <2>1, <2>3 DEF NewestInv
<1>4. RouteOfRequest'
  <2>1. ASSUME NEW f \in Fields, pending'[f] # None
        PROVE  /\ ~local' /\ ~transitioning' /\ ~closed'
               /\ pending'[f].epoch = epoch' /\ req'[Newest(f)'].epoch = epoch'
    <3>1. pending[f] # None /\ pending'[f].epoch = pending[f].epoch
      BY <2>1, Zenon DEF Keeps, Fades
    <3>2. /\ ~local /\ ~transitioning /\ ~closed
          /\ pending[f].epoch = epoch /\ req[Newest(f)].epoch = epoch
      BY <3>1 DEF OwedInv, RouteOfRequest
    <3>3. local' = local /\ transitioning' = transitioning /\ closed' = closed /\ epoch' = epoch
      BY <2>1, Zenon DEF Keeps, RouteKept, OwedInv
    <3> QED BY <1>1, <1>2, <3>1, <3>2, <3>3
  <2> QED BY <2>1, Zenon DEF RouteOfRequest
<1> QED BY <1>3, <1>4 DEF OwedInv, Keeps, TimerKept

\* A request that begins is the newest, and nothing is owed for its field.
LEMMA StartsOwed ==
  ASSUME ConfirmationAssumption, OwedInv, NEW r \in Requests, NEW f \in Fields, Starts(r, f)
  PROVE  OwedInv'
<1>0. N \in Nat /\ r # 0 /\ r \in Nat /\ \A q \in Requests : q \in Nat
  BY SMT DEF Requests, ConfirmationAssumption
<1>1. AskedFor(f)' = AskedFor(f) \cup {r}
  BY DEF Starts, AskedFor
<1>2. Newest(f)' = r /\ \A q \in AskedFor(f)' : q <= r
  <2>1. ASSUME NEW q \in Requests, st'[q] # "new" PROVE q <= r
    <3>1. q = r \/ st[q] # "new"
      BY <2>1 DEF Starts
    <3>2. r < q => st[q] = "new"
      BY DEF Starts, OwedInv, ShapeInv
    <3> QED BY <1>0, <3>1, <3>2
  <2>2. \A q \in AskedFor(f)' : q <= r
    BY <2>1 DEF AskedFor
  <2>3. r \in AskedFor(f)'
    BY <1>1
  <2>4. Newest(f)' = r
    <3>1. AskedFor(f)' \in SUBSET Nat
      BY <1>0 DEF AskedFor
    <3>2. NewestIn(AskedFor(f)') = r
      BY <2>2, <2>3, <3>1, NewestInIs
    <3> QED BY <3>2, NewestOf
  <2> QED BY <2>2, <2>4
<1>3. ASSUME NEW g \in Fields \ {f}
      PROVE  AskedFor(g)' = AskedFor(g) /\ Newest(g)' = Newest(g)
  <2>1. AskedFor(g)' = AskedFor(g)
    BY DEF AskedFor, Starts
  <2> QED BY <2>1, NewestOf, Zenon
<1>4. ASSUME NEW g \in Fields \ {f}
      PROVE  /\ NewestIs(g)'
             /\ tokens'[g] \in {0, Newest(g)'}
             /\ pending'[g] # None =>
                   /\ pending'[g].value = req'[Newest(g)'].value /\ tokens'[g] = 0
                   /\ pending'[g] = pending[g] /\ req'[Newest(g)'] = req[Newest(g)]
  <2>1. tokens'[g] = tokens[g] /\ pending'[g] \in {None, pending[g]}
    BY DEF Starts
  <2>2. NewestIs(g)
    BY DEF OwedInv, NewestInv
  <2>3. NewestIs(g)'
    BY <1>3, <2>1, <2>2 DEF NewestIs
  <2>4. /\ tokens[g] \in {0, Newest(g)}
        /\ pending[g] # None => pending[g].value = req[Newest(g)].value /\ tokens[g] = 0
    BY DEF OwedInv, NewestInv, NewestOnly
  <2>5. pending[g] # None => req'[Newest(g)'] = req[Newest(g)]
    <3> SUFFICES ASSUME pending[g] # None PROVE req'[Newest(g)'] = req[Newest(g)]
      OBVIOUS
    <3>1. Newest(g) \in AskedFor(g)
      BY <2>2 DEF NewestIs
    <3>2. Newest(g) \in Requests \ {r}
      BY <3>1 DEF AskedFor, Starts
    <3> QED BY <1>3, <3>2 DEF Starts
  <2> QED BY <1>3, <2>1, <2>3, <2>4, <2>5
<1>5. pending'[f] = None /\ tokens'[f] = r
  BY DEF Starts
<1>6. NewestIs(f)'
  BY <1>1, <1>2 DEF NewestIs
<1>7. NewestInv'
  <2>1. \A g \in Fields : NewestIs(g)'
    BY <1>4, <1>6
  <2>2. NewestOnly'
    BY <1>2, <1>4, <1>5, Zenon DEF NewestOnly
  <2> QED BY <2>1, <2>2, Zenon DEF NewestInv
<1>8. RouteOfRequest'
  <2>1. ASSUME NEW g \in Fields, pending'[g] # None
        PROVE  /\ ~local' /\ ~transitioning' /\ ~closed'
               /\ pending'[g].epoch = epoch' /\ req'[Newest(g)'].epoch = epoch'
    <3>1. g \in Fields \ {f}
      BY <1>5, <2>1
    <3>2. pending'[g] = pending[g] /\ req'[Newest(g)'] = req[Newest(g)]
      BY <1>4, <2>1, <3>1
    <3>3. UNCHANGED <<local, transitioning, epoch, closed>>
      BY DEF Starts
    <3> QED BY <2>1, <3>2, <3>3 DEF OwedInv, RouteOfRequest
  <2> QED BY <2>1, Zenon DEF RouteOfRequest
<1> QED BY <1>7, <1>8 DEF OwedInv, Starts

\* A readback is armed for the newest request only.
LEMMA ArmsOwed ==
  ASSUME ConfirmationAssumption, OwedInv, NEW r \in Requests, st[r] \in InLock, Arms(r)
  PROVE  OwedInv'
<1> DEFINE f == req[r].field
<1>0. r # 0 /\ f \in Fields
  <2>1. st[r] # "new"
    BY DEF InLock
  <2> QED BY <2>1, BegunIsAsked DEF OwedInv
<1>1. req' = req /\ \A g \in Fields : AskedFor(g)' = AskedFor(g) /\ Newest(g)' = Newest(g)
  <2>1. Settled
    BY DEF Arms
  <2> QED BY <2>1, SettledAsked DEF Settled
<1>2. /\ tokens[f] = r /\ tokens'[f] = 0 /\ req[r].epoch = epoch
      /\ ~local /\ ~transitioning /\ ~closed
      /\ UNCHANGED <<local, transitioning, closed, epoch>>
      /\ pending'[f] # None => pending'[f].value = req[r].value /\ pending'[f].epoch = epoch
      /\ \A g \in Fields \ {f} :
            /\ tokens'[g] \in {0, tokens[g]}
            /\ pending'[g] # None =>
                  /\ pending[g] # None /\ pending'[g].value = pending[g].value
                  /\ pending'[g].epoch = pending[g].epoch
  BY Zenon DEF Arms
<1> HIDE DEF f
<1>3. Newest(f) = r
  BY <1>0, <1>2 DEF OwedInv, NewestInv, NewestOnly
<1>4. ASSUME NEW g \in Fields
      PROVE  /\ NewestIs(g)'
             /\ tokens'[g] \in {0, Newest(g)'}
             /\ pending'[g] # None =>
                   /\ pending'[g].value = req'[Newest(g)'].value /\ tokens'[g] = 0
                   /\ pending'[g].epoch = epoch /\ req'[Newest(g)'].epoch = epoch
  <2>1. NewestIs(g)
    BY DEF OwedInv, NewestInv
  <2>2. CASE g = f
    <3>1. AskedFor(g) # {}
      BY <1>0, <1>2, <2>1, <2>2 DEF NewestIs
    <3>2. NewestIs(g)'
      BY <1>1, <2>1, <2>2, <3>1 DEF NewestIs
    <3>3. req'[Newest(g)'] = req[r] /\ tokens'[g] = 0
      BY <1>1, <1>2, <1>3, <2>2
    <3> QED BY <1>2, <2>2, <3>2, <3>3
  <2>3. CASE g # f
    <3>1. /\ tokens[g] \in {0, Newest(g)}
          /\ pending[g] # None =>
                /\ pending[g].value = req[Newest(g)].value /\ tokens[g] = 0
                /\ pending[g].epoch = epoch /\ req[Newest(g)].epoch = epoch
      BY DEF OwedInv, NewestInv, NewestOnly, RouteOfRequest
    <3>2. /\ tokens'[g] \in {0, tokens[g]}
          /\ pending'[g] # None =>
                /\ pending[g] # None /\ pending'[g].value = pending[g].value
                /\ pending'[g].epoch = pending[g].epoch
      BY <1>2, <2>3
    <3>3. NewestIs(g)'
      BY <1>1, <2>1, <3>2 DEF NewestIs
    <3> QED BY <1>1, <3>1, <3>2, <3>3
  <2> QED BY <2>2, <2>3
<1>5. NewestInv'
  BY <1>4, Zenon DEF NewestInv, NewestOnly
<1>6. RouteOfRequest'
  BY <1>2, <1>4, Zenon DEF RouteOfRequest
<1> QED BY <1>5, <1>6, Zenon DEF OwedInv, Arms

\* The invariant holds at the start.
LEMMA InitOwed == ASSUME ConfirmationAssumption, Init PROVE OwedInv
<1>1. \A f \in Fields : AskedFor(f) = {} /\ pending[f] = None /\ tokens[f] = 0
  BY DEF AskedFor, Init
<1>2. \A f \in Fields : Newest(f) = 0
  BY <1>1, NewestOf, Zenon DEF NewestIn
<1>3. NewestInv /\ RouteOfRequest
  BY <1>1, <1>2, Zenon DEF NewestInv, NewestIs, NewestOnly, RouteOfRequest
<1> QED BY <1>3, InitShape DEF OwedInv

\* The invariant of the readbacks, from write_confirmation.py: what is owed belongs to
\* the newest request of its field and to its route, and one timer waits for it.
THEOREM OwedInvariant == Spec => []OwedInv
<1>1. Init => OwedInv
  BY ConfirmationAssumption, InitOwed
<1>2. OwedInv /\ [Next]_vars => OwedInv'
  BY ConfirmationAssumption, StepKeeps, KeepsOwed, StartsOwed, ArmsOwed DEF OwedInv
<1> QED BY <1>1, <1>2, PTL DEF Spec

\* accepted, begin: whatever the order of the answers, what is owed for a field is what
\* its newest request asked for, and no older request can arm a readback.
THEOREM NewestIsOwed == Spec => []NewestOnly
<1>1. OwedInv => NewestOnly
  BY DEF OwedInv, NewestInv
<1> QED BY <1>1, OwedInvariant, PTL

\* _schedule: the timer is armed exactly while something is owed and nobody reads.
THEOREM TimerIsArmed == Spec => []TimerWhileOwed
<1>1. OwedInv => TimerWhileOwed
  BY DEF OwedInv
<1> QED BY <1>1, OwedInvariant, PTL

\* cancel, on a handover or at the end: nothing is owed but on the cloud route of its
\* own request.
THEOREM OwedOnItsRoute == Spec => []RouteOfRequest
<1>1. OwedInv => RouteOfRequest
  BY DEF OwedInv
<1> QED BY <1>1, OwedInvariant, PTL

-----------------------------------------------------------------------------
(* The histories: what a readback confirms, and how old a valid configuration may be. *)

-----------------------------------------------------------------------------
(* What the steps do to the reads.                                            *)

\* y is the read x, or has begun just now, or is none.
Follows(x, y, source) ==
    y.who # "nobody" =>
        \/ /\ x.who = y.who /\ y.saw = x.saw /\ x.old \subseteq y.old
           /\ y.current => x.current
        \/ \A f \in Fields : Source(f) = source => y.saw[f] = {device[f]}

ReadsFollow == Follows(poll, poll', "telemetry") /\ Follows(read, read', "settings")

\* A read goes on.
LEMMA SameFollows == ASSUME NEW x, NEW source PROVE Follows(x, x, source)
  BY DEF Follows

\* A new read has seen what the wallbox reports now.
LEMMA NewReadSees ==
  ASSUME NEW who, NEW source, NEW c, NEW f \in Fields, Source(f) = source
  PROVE  NewRead(who, source, c).saw[f] = {device[f]}
  BY DEF NewRead

\* The steps of the telemetry read.
LEMMA PollReadsFollow ==
  ASSUME ShapeInv, PollBegins \/ PollReturns \/ PollFails
  PROVE  ReadsFollow /\ UNCHANGED <<device, held, since, after, st, lock, req, read>>
         /\ valid' \in {valid, None}
<1>1. UNCHANGED <<device, held, since, after, st, lock, req, read>> /\ valid' \in {valid, None}
  BY Zenon DEF PollBegins, PollReturns, PollFails, PollEnds, history, settings
<1>2. Follows(poll, poll', "telemetry")
  <2>1. CASE PollBegins
    <3>1. PICK who \in {"timer", "refresh"} : poll' = NewRead(who, "telemetry", ~transitioning)
      BY <2>1, Zenon DEF PollBegins
    <3>2. \A f \in Fields : Source(f) = "telemetry" => poll'.saw[f] = {device[f]}
      BY <3>1, NewReadSees
    <3> QED BY <3>2, Zenon DEF Follows
  <2>2. CASE PollReturns \/ PollFails
    <3>1. poll'.who = "nobody"
      BY <2>2, NoReadIsReading DEF PollReturns, PollFails, PollEnds
    <3> QED BY <3>1 DEF Follows
  <2> QED BY <2>1, <2>2
<1> QED BY <1>1, <1>2, SameFollows DEF ReadsFollow

\* The steps of the configuration read.
LEMMA ReadReadsFollow ==
  ASSUME ShapeInv, ReadBegins \/ ReadCrossed \/ ReadReturns \/ ReadFails
  PROVE  ReadsFollow /\ UNCHANGED <<device, held, since, after, lock, req, poll>>
<1>1. UNCHANGED <<device, held, since, after, lock, req, poll>>
  BY Zenon DEF ReadBegins, ReadCrossed, ReadReturns, ReadFails, ReadEnds, history
<1>2. Follows(read, read', "settings")
  <2>1. CASE ReadBegins
    <3>1. read' = read \/ \E who \in {"task", "refresh", "write"} : read' = NewRead(who, "settings", TRUE)
      BY <2>1, Zenon DEF ReadBegins
    <3>2. CASE read' = read
      BY <3>2, SameFollows
    <3>3. ASSUME NEW who,
    read' = NewRead(who, "settings", TRUE) PROVE Follows(read, read', "settings")
      <4>1. \A f \in Fields : Source(f) = "settings" => read'.saw[f] = {device[f]}
        BY <3>3, Zenon DEF NewRead
      <4> QED BY <4>1, Zenon DEF Follows
    <3> QED BY <3>1, <3>2, <3>3, Zenon
  <2>2. CASE ReadCrossed \/ ReadReturns \/ ReadFails
    <3>1. read'.who = "nobody"
      BY <2>2, NoReadIsReading DEF ReadCrossed, ReadReturns, ReadFails, ReadEnds
    <3> QED BY <3>1 DEF Follows
  <2> QED BY <2>1, <2>2
<1> QED BY <1>1, <1>2, SameFollows DEF ReadsFollow

\* A handover discards the reads.
LEMMA HandoverReadsFollow ==
  ASSUME ShapeInv, HandoverBegins
  PROVE  ReadsFollow /\ UNCHANGED <<device, held, after, st, lock, req>>
<1>1. UNCHANGED <<device, held, after, st, lock, req>> /\ read' = Discarded(read) /\ poll' = Discarded(poll)
  BY Zenon DEF HandoverBegins
<1> QED BY <1>1, ShapeParts, DiscardedIsReading DEF ReadsFollow, Follows, ReadsOK

\* The end of a request.
LEMMA EndReadsFollow ==
  ASSUME ShapeInv, NEW r \in Requests, st[r] # "new", ConfirmationAssumption,
         \/ poll' = poll /\ read' = ReadAfter(r)
         \/ poll' = Precedes(poll, req[r].field) /\ read' = Precedes(ReadAfter(r), req[r].field)
  PROVE  ReadsFollow
<1>1. poll \in Reading /\ read \in Reading /\ req[r].field \in Fields
  BY ShapeParts, BegunIsAsked DEF ReadsOK
<1>2. /\ ReadAfter(r) \in Reading /\ ReadAfter(r).who \in {read.who, "nobody"}
      /\ ReadAfter(r).who # "nobody" => ReadAfter(r).saw = read.saw /\ ReadAfter(r).old = read.old
      /\ ReadAfter(r).current => read.current
  BY <1>1, ReadAfterIsReading
<1>3. CASE poll' = poll /\ read' = ReadAfter(r)
  BY <1>2, <1>3 DEF ReadsFollow, Follows
<1>4. CASE poll' = Precedes(poll, req[r].field) /\ read' = Precedes(ReadAfter(r), req[r].field)
  <2>1. /\ poll'.who = poll.who /\ poll'.saw = poll.saw /\ poll.old \subseteq poll'.old
        /\ poll'.current = poll.current
    BY <1>1, <1>4, PrecedesIsReading
  <2>2. /\ read'.who = ReadAfter(r).who /\ read'.saw = ReadAfter(r).saw
        /\ ReadAfter(r).old \subseteq read'.old /\ read'.current = ReadAfter(r).current
    BY <1>1, <1>2, <1>4, PrecedesIsReading
  <2> QED BY <1>2, <2>1, <2>2 DEF ReadsFollow, Follows
<1> QED BY <1>3, <1>4

\* A value is seen in one field.
LEMMA SeesOneField ==
  ASSUME NEW x \in Reading, NEW source, NEW f, NEW v, NEW g \in Fields \ {f}
  PROVE  Sees(x, source, f, v).saw[g] = x.saw[g]
  BY SMT DEF Sees, Reading

\* A read that sees a value is the same read.
LEMMA SeesSameRead ==
  ASSUME NEW x \in Reading, NEW source, NEW f, NEW v
  PROVE  Sees(x, source, f, v).who = x.who /\ Sees(x, source, f, v).current = x.current
  BY SMT DEF Sees, Reading

\* Steps that leave the reads, the wallbox and the histories alone.
Still == Acquire \/ Wake \/ Refresher \/ HandoverEnds \/ Close \/ Tick \/ UNCHANGED vars

\* These steps are still.
LEMMA StillFollows ==
  ASSUME Still
  PROVE  ReadsFollow /\ UNCHANGED <<device, poll, read, valid, history>>
<1>1. UNCHANGED <<device, poll, read, valid, history>>
  <2>1. CASE Refresher
    <3>1. RefreshKeeps
      BY <2>1, Zenon DEF Refresher, RefreshStarts, Debounced, RefreshGoesOn, RefreshEnds,
         RefreshRaises
    <3> QED BY <3>1, Zenon DEF RefreshKeeps, settings
  <2>2. CASE Acquire \/ Wake \/ HandoverEnds \/ Close \/ Tick \/ UNCHANGED vars
    BY <2>2, Zenon DEF Acquire, Wake, HandoverEnds, Close, Tick, vars, settings
  <2> QED BY <2>1, <2>2 DEF Still
<1> QED BY <1>1, SameFollows DEF ReadsFollow

\* They arm and begin nothing.
LEMMA StillKeeps == ASSUME ConfirmationAssumption, ShapeInv, Still PROVE Keeps
<1>1. CASE UNCHANGED vars
  BY <1>1, UnchangedKeeps
<1> QED BY <1>1, AcquireKeeps, WakeKeeps, RefresherKeeps, TickKeeps, HandoverEndsKeeps,
CloseKeeps DEF Still

-----------------------------------------------------------------------------
(* What a readback confirms.                                                  *)

\* What a read that counts for f has seen is among S[f].
Within(x, source, S) ==
    x.who # "nobody" =>
        \A f \in Fields \ x.old : Source(f) = source /\ pending[f] # None => x.saw[f] \subseteq S[f]

HeldInv ==
    /\ \A f \in Fields : pending[f] # None => device[f] \in held[f] /\ results[f] # "confirmed"
    /\ Within(poll, "telemetry", held) /\ Within(read, "settings", held)

\* Nothing new is owed; what is held and the wallbox stay; the reads follow.
LEMMA HeldKept ==
  ASSUME HeldInv, ReadsFollow, UNCHANGED <<device, held>>,
         \A f \in Fields : pending'[f] # None =>
            pending[f] # None /\ results'[f] \in {results[f], "over"}
  PROVE  HeldInv'
<1>1. \A f \in Fields : pending'[f] # None => device'[f] \in held'[f] /\ results'[f] # "confirmed"
  BY DEF HeldInv
<1>2. ASSUME NEW source, NEW x, NEW y, Follows(x, y, source), Within(x, source, held),
y.who # "nobody",
             NEW f \in Fields \ y.old, Source(f) = source, pending'[f] # None
      PROVE  y.saw[f] \subseteq held'[f]
  <2>1. pending[f] # None /\ device[f] \in held[f] /\ held' = held
    BY <1>2 DEF HeldInv
  <2> QED BY <1>2, <2>1 DEF Follows, Within
<1>3. Within(poll, "telemetry", held)' /\ Within(read, "settings", held)'
  BY <1>2 DEF Within, HeldInv, ReadsFollow
<1> QED BY <1>1, <1>3 DEF HeldInv

\* A write is seen by the reads under way, and is held.
LEMMA SendHeld == ASSUME ConfirmationAssumption, ShapeInv, HeldInv, Send PROVE HeldInv'
<1>1. lock # 0 /\ st[lock] # "new" /\ lock \in Requests
  <2>1. lock \in 0..N /\ lock # 0
    BY ShapeParts DEF RequestsOK, Send
  <2>2. st[lock] # "new"
    BY Zenon DEF Send
  <2> QED BY <2>1, <2>2, SMT DEF Requests, ConfirmationAssumption
<1>2. PICK f \in Fields : f = req[lock].field
  BY <1>1, BegunIsAsked
<1>3. PICK now : now \in Reported /\ Becomes(f, now)
  <2>1. PICK now \in {device[f], req[lock].value}
                     \cup (IF f = Charging /\ req[lock].value = On THEN {Alarm} ELSE {}) :
                 Becomes(f, now)
    BY <1>2, Zenon DEF Send
  <2>2. device[f] \in Reported /\ req[lock].value \in Reported /\ Alarm \in Reported
    BY <1>1, <1>2, ShapeParts, BegunIsAsked, Zenon DEF WallboxOK, Reported
  <2>3. now \in Reported
    BY <2>2, Zenon
  <2> QED BY <2>1, <2>3
<1>4. pending' = pending /\ results' = results
  BY DEF Send, monitor
<1>5. WallboxOK /\ poll \in Reading /\ read \in Reading
  BY ShapeParts DEF ReadsOK
<1>6. /\ device'[f] = now /\ \A g \in Fields \ {f} : device'[g] = device[g] /\ held'[g] = held[g]
      /\ pending[f] # None => held'[f] = held[f] \cup {now}
  BY <1>3, <1>5, Zenon DEF Becomes, WallboxOK
<1>7. poll' = Sees(poll, "telemetry", f, now) /\ read' = Sees(read, "settings", f, now)
  BY <1>3, Zenon DEF Becomes
<1>8. ASSUME NEW x \in Reading, NEW source, Within(x, source, held), NEW y,
y = Sees(x, source, f, now),
             y.who # "nobody", NEW g \in Fields \ y.old, Source(g) = source, pending[g] # None
      PROVE  y.saw[g] \subseteq held'[g]
  <2>1. /\ y.who = x.who /\ y.old = x.old /\ y.saw[f] \subseteq x.saw[f] \cup {now}
        /\ \A h \in Fields \ {f} : y.saw[h] = x.saw[h]
    <3>1. now \in Reported
      BY <1>3
    <3>2. Sees(x, source, f, now).who = x.who /\ Sees(x, source, f, now).old = x.old
      BY <3>1, SeesIsReading
    <3>3. Sees(x, source, f, now).saw[f] \subseteq x.saw[f] \cup {now}
      BY <3>1, SeesIsReading
    <3>4. \A h \in Fields \ {f} : Sees(x, source, f, now).saw[h] = x.saw[h]
      BY SeesOneField
    <3> QED BY <1>8, <3>2, <3>3, <3>4
  <2>2. x.saw[g] \subseteq held[g]
    BY <1>8, <2>1 DEF Within
  <2>3. CASE g = f
    BY <1>6, <1>8, <2>1, <2>2, <2>3
  <2>4. CASE g # f
    BY <1>6, <2>1, <2>2, <2>4
  <2> QED BY <2>3, <2>4
<1>9. Within(poll, "telemetry", held)' /\ Within(read, "settings", held)'
  BY <1>4, <1>5, <1>7, <1>8 DEF Within, HeldInv
<1>10. \A g \in Fields : pending[g] # None => device'[g] \in held'[g]
  BY <1>6 DEF HeldInv
<1> QED BY <1>4, <1>9, <1>10 DEF HeldInv

\* A request that begins.
LEMMA StartsHeld ==
  ASSUME HeldInv, NEW r \in Requests, NEW f \in Fields, Starts(r, f)
  PROVE  HeldInv'
<1>1. UNCHANGED <<device, poll, read>> /\ held' = held
  BY DEF Starts, history
<1>2. ReadsFollow
  BY <1>1, SameFollows DEF ReadsFollow
<1>3. \A g \in Fields : pending'[g] # None => pending[g] # None /\ results'[g] \in {results[g], "over"}
  BY Zenon DEF Starts
<1> QED BY <1>1, <1>2, <1>3, HeldKept

\* A readback is armed: the reads under way do not count for it.
LEMMA ArmsHeld ==
  ASSUME ConfirmationAssumption, ShapeInv, HeldInv, NEW r \in Requests, st[r] \in InLock, Arms(r)
  PROVE  HeldInv'
<1>1. PICK f \in Fields : f = req[r].field
  <2>1. st[r] # "new"
    BY DEF InLock
  <2> QED BY <2>1, BegunIsAsked
<1>2. /\ poll' = Precedes(poll, f) /\ read' = Precedes(ReadAfter(r), f)
      /\ device' = device /\ held'[f] = {device[f]} /\ results'[f] # "confirmed"
      /\ \A g \in Fields \ {f} : /\ held'[g] = held[g]
                                 /\ pending'[g] # None => pending[g] # None
                                 /\ results'[g] \in {results[g], "over"}
  BY <1>1, Zenon DEF Arms
<1>3. poll \in Reading /\ read \in Reading
  BY ShapeParts DEF ReadsOK
<1>4. ReadAfter(r) \in Reading /\ Within(ReadAfter(r), "settings", held)
  BY <1>3, ReadAfterIsReading DEF HeldInv, Within
<1>5. ASSUME NEW x \in Reading, NEW source, Within(x, source, held), NEW y, y = Precedes(x, f),
             y.who # "nobody", NEW g \in Fields \ y.old, Source(g) = source, pending'[g] # None
      PROVE  y.saw[g] \subseteq held'[g]
  <2>1. /\ y.who = x.who /\ y.saw = x.saw /\ x.old \subseteq y.old /\ f \in y.old
    BY <1>5, PrecedesIsReading
  <2>2. g # f /\ pending[g] # None /\ held'[g] = held[g]
    BY <1>2, <1>5, <2>1
  <2> QED BY <1>5, <2>1, <2>2 DEF Within
<1>6. Within(poll, "telemetry", held)' /\ Within(read, "settings", held)'
  BY <1>2, <1>3, <1>4, <1>5 DEF Within, HeldInv
<1>7. \A g \in Fields : pending'[g] # None => device'[g] \in held'[g] /\ results'[g] # "confirmed"
  BY <1>2 DEF HeldInv
<1> QED BY <1>6, <1>7 DEF HeldInv

\* Every step keeps HeldInv.
LEMMA StepHeld ==
  ASSUME ConfirmationAssumption, ShapeInv, HeldInv, [Next]_vars
  PROVE  HeldInv'
<1>1. CASE Send
  BY <1>1, SendHeld
<1>2. CASE Begin
  BY <1>2, BeginKeeps, StartsHeld
<1>3. CASE Answered \/ Uncertain \/ Rejected
  <2>1. PICK r \in Requests : /\ st[r] \in InLock \cup {"waiting"} /\ Ends(r)
                              /\ \/ Keeps /\ NotArmed(r, "over")
                                 \/ st[r] \in InLock /\ Arms(r)
    BY <1>3, AcceptedKeeps
  <2>2. CASE Keeps /\ NotArmed(r, "over")
    <3>1. st[r] # "new"
      BY <2>1 DEF InLock
    <3>2. poll' = poll /\ read' = ReadAfter(r) /\ UNCHANGED <<device, held>>
      BY <2>1, <2>2 DEF NotArmed, Ends
    <3>3. ReadsFollow
      BY <3>1, <3>2, EndReadsFollow
    <3> QED BY <2>2, <3>2, <3>3, HeldKept DEF Keeps, Fades
  <2>3. CASE st[r] \in InLock /\ Arms(r)
    BY <2>3, ArmsHeld
  <2> QED BY <2>1, <2>2, <2>3
<1>4. CASE \/ PollBegins \/ PollReturns \/ PollFails
           \/ ReadBegins \/ ReadCrossed \/ ReadReturns \/ ReadFails \/ HandoverBegins \/ Still
  <2>1. Keeps
    BY <1>4, PollBeginsKeeps, PollEndsKeeps, ReadBeginsKeeps, ReadEndsKeeps, HandoverBeginsKeeps,
       StillKeeps
  <2>2. ReadsFollow /\ UNCHANGED <<device, held>>
    BY <1>4, PollReadsFollow, ReadReadsFollow, HandoverReadsFollow, StillFollows DEF history
  <2> QED BY <2>1, <2>2, HeldKept DEF Keeps, Fades
<1> QED BY <1>1, <1>2, <1>3, <1>4, Zenon DEF Next, Still

\* A read that counts for f and is under way has seen the value that is owed.
Confirms(f) ==
    \/ poll.who # "nobody" /\ f \notin poll.old /\ Source(f) = "telemetry" /\ pending[f].value \in poll.saw[f]
    \/ read.who # "nobody" /\ f \notin read.old /\ Source(f) = "settings" /\ pending[f].value \in read.saw[f]

\* What is observed was seen by the read.
LEMMA ReportConfirms ==
  ASSUME ConfirmationAssumption, ShapeInv, NEW f \in Fields, results[f] # "confirmed",
         results'[f] = "confirmed",
         PollReturns \/ ReadReturns
  PROVE  Confirms(f)
<1>0. MonitorOK
  BY ShapeParts
<1>1. CASE PollReturns
  <2>1. PICK got \in Returns(poll, "telemetry") : Observed("telemetry", got, poll.old, busy)
    BY <1>1, Zenon DEF PollReturns
  <2>2. f \notin poll.old /\ Source(f) = "telemetry" /\ pending[f].value = got[f]
    BY <1>0, <2>1, ObservedEffect
  <2>3. got[f] \in poll.saw[f]
    BY <2>1, <2>2, Zenon DEF Returns
  <2> QED BY <1>1, <2>2, <2>3, Zenon DEF Confirms, PollReturns, PollEnds
<1>2. CASE ReadReturns
  <2>1. PICK got \in Returns(read, "settings") : Observed("settings", got, read.old, busy)
    BY <1>2, Zenon DEF ReadReturns
  <2>2. f \notin read.old /\ Source(f) = "settings" /\ pending[f].value = got[f]
    BY <1>0, <2>1, ObservedEffect
  <2>3. got[f] \in read.saw[f]
    BY <2>1, <2>2, Zenon DEF Returns
  <2> QED BY <1>2, <2>2, <2>3, Zenon DEF Confirms, ReadReturns, ReadEnds
<1> QED BY <1>1, <1>2

\* The refresh itself confirms nothing.
LEMMA RefreshConfirmsNothing ==
  ASSUME ConfirmationAssumption, ShapeInv, Refresher, NEW f \in Fields
  PROVE  results'[f] \in {results[f], "over"}
<1>0. MonitorOK
  BY ShapeParts
<1>1. ASSUME NEW d, Finally(d) PROVE results'[f] \in {results[f], "over"}
  BY <1>0, <1>1, FinallyEffect
<1>2. ASSUME NEW d, AfterTelemetry(d) PROVE results'[f] \in {results[f], "over"}
  BY <1>1, <1>2, Zenon DEF AfterTelemetry
<1>3. ASSUME Failed(FALSE) PROVE results'[f] \in {results[f], "over"}
  BY <1>0, <1>3, FailedEffect
<1>4. ASSUME CancelAll PROVE results'[f] \in {results[f], "over"}
  BY <1>0, <1>4, CancelEffect
<1>5. results' = results \/ (\E d : Finally(d) \/ AfterTelemetry(d)) \/ Failed(FALSE) \/ CancelAll
  BY Zenon DEF Refresher, RefreshStarts, Debounced, RefreshGoesOn, RefreshEnds, RefreshRaises,
     monitor
<1> QED BY <1>1, <1>2, <1>3, <1>4, <1>5

\* Only a report of a read that counts confirms.
LEMMA StepConfirms ==
  ASSUME ConfirmationAssumption, ShapeInv, [Next]_vars, NEW f \in Fields,
         results[f] # "confirmed", results'[f] = "confirmed"
  PROVE  Confirms(f)
<1>0. MonitorOK
  BY ShapeParts
<1>1. CASE PollReturns \/ ReadReturns
  BY <1>1, ReportConfirms
<1>2. CASE Begin
  <2>1. PICK r \in Requests, g \in Fields : Starts(r, g)
    BY <1>2, BeginKeeps
  <2>2. results'[f] # "confirmed" \/ results'[f] \in {results[f], "over"}
    BY <2>1, Zenon DEF Starts
  <2> QED BY <2>2
<1>3. CASE Answered \/ Uncertain \/ Rejected
  <2>1. PICK r \in Requests : /\ st[r] \in InLock \cup {"waiting"} /\ Ends(r)
                              /\ \/ Keeps /\ NotArmed(r, "over")
                                 \/ st[r] \in InLock /\ Arms(r)
    BY <1>3, AcceptedKeeps
  <2>2. CASE NotArmed(r, "over")
    <3>1. results' = results \/ results' = [results EXCEPT ![req[r].field] = "over"]
      BY <2>2, Zenon DEF NotArmed
    <3>2. results'[f] \in {results[f], "over"}
      BY <1>0, <3>1, Zenon DEF MonitorOK
    <3> QED BY <3>2
  <2>3. CASE Arms(r)
    <3>1. results'[f] # "confirmed" \/ results'[f] \in {results[f], "over"}
      BY <2>3, Zenon DEF Arms
    <3> QED BY <3>1
  <2> QED BY <2>1, <2>2, <2>3
<1>4. CASE PollFails \/ ReadFails
  <2>1. Failed(busy)
    BY <1>4 DEF PollFails, ReadFails
  <2> QED BY <1>0, <2>1, FailedEffect
<1>5. CASE HandoverBegins \/ Close
  <2>1. CancelAll
    BY <1>5 DEF HandoverBegins, Close
  <2> QED BY <1>0, <2>1, CancelEffect
<1>6. CASE Refresher
  BY <1>6, RefreshConfirmsNothing
<1>7. CASE Acquire \/ Send \/ PollBegins \/ ReadBegins \/ ReadCrossed \/ Wake \/ HandoverEnds \/ Tick
           \/ UNCHANGED vars
  <2>1. results' = results
    BY <1>7, Zenon DEF Acquire, Send, PollBegins, ReadBegins, ReadCrossed, Wake, HandoverEnds, Tick,
       vars, monitor
  <2> QED BY <2>1
<1> QED BY <1>1, <1>2, <1>3, <1>4, <1>5, <1>6, <1>7 DEF Next

-----------------------------------------------------------------------------
(* How old a valid configuration may be.                                      *)

\* What is known of field f of the configuration while its write is under way.
WrittenInv(f) ==
    /\ st[lock] \in {"last", "sent"} => after = {device[f]}
    /\ st[lock] = "sent" => /\ valid # None => valid[f] = device[f]
                            /\ read.who # "nobody" => read.saw[f] \subseteq {device[f]}
    /\ st[lock] = "last" /\ read.who = "write" => read.saw[f] \subseteq {device[f]}

ConfigurationInv(f) ==
    /\ valid # None => valid[f] \in since[f]
    /\ device[f] \in since[f]
    /\ read.who # "nobody" /\ read.current => read.saw[f] \subseteq since[f]
    /\ lock # 0 /\ req[lock].field = f /\ f \in Settings => WrittenInv(f)

ValidInv == \A f \in Fields : Source(f) = "settings" => ConfigurationInv(f)

\* Nothing is written, and what is read is read on.
LEMMA ConfigurationKept ==
  ASSUME ShapeInv, NEW f \in Fields, Source(f) = "settings", ConfigurationInv(f),
         UNCHANGED <<device, since, after, st, lock, req>>, valid' \in {valid, None},
         Follows(read, read', "settings")
  PROVE  ConfigurationInv(f)'
  BY DEF ConfigurationInv, WrittenInv, Follows

\* Who has the lock is a request.
LEMMA LockIsRequest ==
  ASSUME ConfirmationAssumption, ShapeInv, lock # 0
  PROVE  lock \in Requests
<1>1. lock \in 0..N
  BY ShapeParts DEF RequestsOK
<1> QED BY <1>1, SMT DEF Requests, ConfirmationAssumption

\* A request that begins.
LEMMA StartsConfiguration ==
  ASSUME ConfirmationAssumption, ShapeInv, NEW f \in Fields, ConfigurationInv(f), Begin
  PROVE  ConfigurationInv(f)'
<1>1. PICK r \in Requests : st[r] = "new" /\ st' = [st EXCEPT ![r] = "waiting"]
                            /\ req' = [req EXCEPT ![r] = req'[r]]
  <2>1. req \in [Requests -> Asked \cup {None}]
    BY ShapeParts DEF RequestsOK
  <2> QED BY <2>1, Zenon DEF Begin, Goto
<1>2. UNCHANGED <<device, lock, read, valid, since, after>>
  BY DEF Begin, settings, history
<1>3. lock # 0 => lock \in Requests /\ lock # r
  <2>1. lock # 0 => st[lock] \in InLock
    BY LockIsRequest DEF ShapeInv
  <2>2. st[r] \notin InLock
    BY <1>1 DEF InLock
  <2> QED BY <2>1, <2>2, LockIsRequest
<1>4. lock # 0 => st'[lock] = st[lock] /\ req'[lock] = req[lock]
  BY <1>1, <1>3, ShapeParts, Zenon DEF RequestsOK
<1> QED BY <1>2, <1>4 DEF ConfigurationInv, WrittenInv

\* A request takes the lock; nothing is written yet.
LEMMA AcquireConfiguration ==
  ASSUME ShapeInv, NEW f \in Fields, ConfigurationInv(f), Acquire
  PROVE  ConfigurationInv(f)'
<1>1. PICK r \in Requests :
         /\ lock' = r
         /\ Goto(r, IF req[r].field \notin Settings THEN "begun"
                    ELSE IF Ready /\ success THEN "first" ELSE "refused")
  BY Zenon DEF Acquire
<1>2. UNCHANGED <<device, read, valid, since, after, req>>
  BY DEF Acquire, settings, history
<1>3. st'[lock'] \in {"begun", "first", "refused"}
  BY <1>1, ShapeParts, Zenon DEF Goto, RequestsOK
<1> QED BY <1>2, <1>3 DEF ConfigurationInv, WrittenInv

\* A handover invalidates the configuration.
LEMMA HandoverConfiguration ==
  ASSUME ShapeInv, NEW f \in Fields, HandoverBegins
  PROVE  ConfigurationInv(f)'
<1>1. /\ lock' = 0 /\ device' = device /\ valid' = None /\ read' = Discarded(read)
      /\ since' = [g \in Fields |-> {device[g]}]
  BY DEF HandoverBegins
<1>2. since'[f] = {device[f]} /\ ~read'.current
  BY <1>1, ShapeParts, DiscardedIsReading DEF ReadsOK
<1> QED BY <1>1, <1>2 DEF ConfigurationInv

\* A write of a setting invalidates the configuration.
LEMMA SendConfiguration ==
  ASSUME ConfirmationAssumption, ShapeInv, NEW f \in Fields, Source(f) = "settings",
         ConfigurationInv(f), Send
  PROVE  ConfigurationInv(f)'
<1>1. lock # 0 /\ lock \in Requests /\ st[lock] # "new" /\ lock' = lock /\ req' = req
  BY LockIsRequest DEF Send
<1>2. PICK g \in Fields : g = req[lock].field
  BY <1>1, BegunIsAsked
<1>3. PICK now : now \in Reported /\ Becomes(g, now) /\ after' = {now}
  <2>1. PICK now \in {device[g], req[lock].value}
                     \cup (IF g = Charging /\ req[lock].value = On THEN {Alarm} ELSE {}) :
                 Becomes(g, now) /\ after' = {now}
    BY <1>2, Zenon DEF Send
  <2>2. device[g] \in Reported /\ req[lock].value \in Reported /\ Alarm \in Reported
    BY <1>1, <1>2, ShapeParts, BegunIsAsked, Zenon DEF WallboxOK, Reported
  <2>3. now \in Reported
    BY <2>2, Zenon
  <2> QED BY <2>1, <2>3
<1>4. WallboxOK /\ read \in Reading
  BY ShapeParts DEF ReadsOK
<1>5. /\ valid' = IF g \in Settings THEN None ELSE valid
      /\ st[lock] \in {"begun", "checked"} /\ st'[lock] \in {"last", "sent"}
  BY <1>1, <1>2, ShapeParts, Zenon DEF Send, Goto, RequestsOK
<1>6. /\ device'[g] = now /\ \A h \in Fields \ {g} : device'[h] = device[h] /\ since'[h] = since[h]
      /\ Source(g) = "settings" => since'[g] = since[g] \cup {now}
      /\ read' = Sees(read, "settings", g, now)
  BY <1>3, <1>4, Zenon DEF Becomes, WallboxOK
<1>7. /\ read'.who = read.who /\ read'.current = read.current
      /\ read'.saw[f] \subseteq read.saw[f] \cup {now}
      /\ f # g => read'.saw[f] = read.saw[f]
  <2>1. now \in Reported
    BY <1>3
  <2>2. read'.who = read.who /\ read'.current = read.current
    BY <1>4, <1>6, SeesSameRead
  <2>3. CASE f = g
    BY <1>4, <1>6, <2>1, <2>2, <2>3, SeesIsReading
  <2>4. CASE f # g
    <3>1. f \in Fields \ {g}
      BY <2>4
    <3>2. Sees(read, "settings", g, now).saw[f] = read.saw[f]
      BY <1>4, <3>1, SeesOneField
    <3> QED BY <1>6, <2>2, <3>2
  <2> QED BY <2>3, <2>4
<1>8. read.who # "write"
  BY <1>5 DEF ShapeInv
<1>9. CASE f = g
  <2>1. device'[f] = now /\ since'[f] = since[f] \cup {now}
    BY <1>6, <1>9
  <2>2. valid' # None => valid'[f] \in since'[f]
    BY <1>5, <2>1 DEF ConfigurationInv
  <2>3. read'.who # "nobody" /\ read'.current => read'.saw[f] \subseteq since'[f]
    BY <1>7, <2>1 DEF ConfigurationInv
  <2>4. f \in Settings => WrittenInv(f)'
    <3>1. f \in Settings => st'[lock] = "last"
      BY <1>1, <1>2, <1>9, ShapeParts, Zenon DEF Send, Goto, RequestsOK
    <3> QED BY <1>1, <1>3, <1>7, <1>8, <2>1, <3>1 DEF WrittenInv
  <2> QED BY <2>1, <2>2, <2>3, <2>4 DEF ConfigurationInv
<1>10. CASE f # g
  BY <1>1, <1>2, <1>5, <1>6, <1>7, <1>10 DEF ConfigurationInv
<1> QED BY <1>9, <1>10

\* A configuration read begins, or is refused.
LEMMA ReadBeginsConfiguration ==
  ASSUME ConfirmationAssumption, ShapeInv, NEW f \in Fields, Source(f) = "settings",
         ConfigurationInv(f),
         ReadBegins
  PROVE  ConfigurationInv(f)'
<1>1. UNCHANGED <<device, since, after, lock, req>> /\ Follows(read, read', "settings")
  BY ReadReadsFollow DEF ReadsFollow
<1>2. PICK who \in {"task", "refresh", "write"} :
         /\ read.who = "nobody"
         /\ who = "write" => lock # 0 /\ st[lock] \in {"first", "last"}
         /\ \/ Ready /\ UNCHANGED <<valid, st>>
            \/ valid' = None /\ ReadGoesOn(who, FALSE) /\ read' = read
  BY Zenon DEF ReadBegins
<1>3. CASE UNCHANGED <<valid, st>>
  BY <1>1, <1>3, ConfigurationKept
<1>4. CASE valid' = None /\ ReadGoesOn(who, FALSE) /\ read' = read
  <2>1. read'.who = "nobody"
    BY <1>2, <1>4
  <2>2. lock # 0 /\ st'[lock] \in {"last", "sent"} => st[lock] \in {"last", "sent"}
    <3>1. CASE who # "write"
      BY <1>4, <3>1, Zenon DEF ReadGoesOn
    <3>2. CASE who = "write"
      BY <1>2, <1>4, <3>2, LockIsRequest, ShapeParts, Zenon DEF ReadGoesOn, RequestsOK
    <3> QED BY <3>1, <3>2
  <2> QED BY <1>1, <1>4, <2>1, <2>2 DEF ConfigurationInv, WrittenInv
<1> QED BY <1>2, <1>3, <1>4

\* A configuration read ends; the one after a write has seen what was written.
LEMMA ReadEndsConfiguration ==
  ASSUME ConfirmationAssumption, ShapeInv, NEW f \in Fields, Source(f) = "settings",
         ConfigurationInv(f),
         ReadCrossed \/ ReadReturns \/ ReadFails
  PROVE  ConfigurationInv(f)'
<1>1. UNCHANGED <<device, since, after, lock, req>> /\ read' = NoRead /\ read.who # "nobody"
  BY Zenon DEF ReadCrossed, ReadReturns, ReadFails, ReadEnds, history
<1>2. read'.who = "nobody"
  BY <1>1, NoReadIsReading
<1>3. valid' = None \/ (valid'[f] \in read.saw[f] /\ read.current)
  <2>1. CASE ReadReturns
    <3>1. PICK got \in Returns(read, "settings") :
             valid' = [g \in Fields |-> IF Source(g) = "settings" THEN got[g] ELSE None]
      BY <2>1, Zenon DEF ReadReturns
    <3>2. got[f] \in read.saw[f]
      BY Zenon DEF Returns
    <3>3. valid'[f] = got[f]
      BY <3>1
    <3> QED BY <2>1, <3>2, <3>3 DEF ReadReturns
  <2>2. CASE ReadCrossed \/ ReadFails
    <3>1. valid' = None
      BY <2>2, Zenon DEF ReadCrossed, ReadFails
    <3> QED BY <3>1, Zenon
  <2> QED BY <2>1, <2>2
<1>4. PICK v \in BOOLEAN : ReadGoesOn(read.who, v)
  BY Zenon DEF ReadCrossed, ReadReturns, ReadFails
<1>5. ASSUME lock # 0
      PROVE  /\ st'[lock] \in {"last", "sent"} => st[lock] \in {"last", "sent"}
             /\ st'[lock] = "sent" => st[lock] = "sent" \/ (st[lock] = "last" /\ read.who = "write")
  <2>1. CASE read.who # "write"
    BY <1>4, <2>1, Zenon DEF ReadGoesOn
  <2>2. CASE read.who = "write"
    <3>1. st'[lock] = IF st[lock] = "last" THEN "sent" ELSE IF v THEN "checked" ELSE "refused"
      BY <1>4, <1>5, <2>2, LockIsRequest, ShapeParts, Zenon DEF ReadGoesOn, RequestsOK
    <3> QED BY <2>2, <3>1
  <2> QED BY <2>1, <2>2
<1>6. valid' # None => valid'[f] \in since'[f]
  BY <1>1, <1>3 DEF ConfigurationInv
<1>7. lock # 0 /\ req[lock].field = f /\ f \in Settings => WrittenInv(f)'
  <2> SUFFICES ASSUME lock # 0, req[lock].field = f, f \in Settings PROVE WrittenInv(f)'
    OBVIOUS
  <2>1. WrittenInv(f)
    BY DEF ConfigurationInv
  <2>2. st'[lock] = "sent" => read.saw[f] \subseteq {device[f]}
    BY <1>1, <1>5, <2>1 DEF WrittenInv
  <2>3. st'[lock] = "sent" => (valid' # None => valid'[f] = device[f])
    BY <1>3, <2>2
  <2> QED BY <1>1, <1>2, <1>5, <2>1, <2>3 DEF WrittenInv
<1> QED BY <1>1, <1>2, <1>6, <1>7 DEF ConfigurationInv

\* A request ends: of a mode or of power the configuration is invalid, of a setting
\* it has been read since.
LEMMA EndsConfiguration ==
  ASSUME ConfirmationAssumption, ShapeInv, NEW f \in Fields, Source(f) = "settings",
         ConfigurationInv(f),
         NEW r \in Requests, st[r] \in InLock \cup {"waiting"}, Ends(r),
         read' \in {ReadAfter(r), Precedes(ReadAfter(r), req[r].field)}
  PROVE  ConfigurationInv(f)'
<1>1. PICK g \in Fields : g = req[r].field
  <2>1. st[r] # "new"
    BY DEF InLock
  <2> QED BY <2>1, BegunIsAsked
<1>2. read \in Reading /\ WallboxOK
  BY ShapeParts DEF ReadsOK
<1>3. /\ read'.who \in {read.who, "nobody"}
      /\ read'.who # "nobody" => read'.saw = read.saw
      /\ read'.current => read.current /\ ~(Control(r) /\ ~local)
  <2>1. /\ ReadAfter(r) \in Reading /\ ReadAfter(r).who \in {read.who, "nobody"}
        /\ ReadAfter(r).who # "nobody" => ReadAfter(r).saw = read.saw
        /\ ReadAfter(r).current => read.current /\ ~(Control(r) /\ ~local)
    BY <1>2, ReadAfterIsReading
  <2>2. CASE read' = ReadAfter(r)
    BY <2>1, <2>2
  <2>3. CASE read' = Precedes(ReadAfter(r), g)
    <3>1. /\ read'.who = ReadAfter(r).who /\ read'.saw = ReadAfter(r).saw
          /\ read'.current = ReadAfter(r).current
      BY <2>1, <2>3, PrecedesIsReading
    <3> QED BY <2>1, <3>1
  <2> QED BY <1>1, <2>2, <2>3
<1>4. /\ device' = device /\ req' = req /\ lock' = IF lock = r THEN 0 ELSE lock
      /\ st' = [st EXCEPT ![r] = "over"]
      /\ valid' = IF Control(r) /\ ~local THEN None ELSE valid
      /\ since' = IF Control(r) /\ ~local THEN [since EXCEPT ![g] = {device[g]}]
                  ELSE IF g \in Settings /\ st[r] = "sent" THEN [since EXCEPT ![g] = after]
                  ELSE since
      /\ after' = IF lock = r THEN {} ELSE after
  BY <1>1, Zenon DEF Ends, Goto
<1>5. lock' # 0 => lock' = lock /\ st'[lock] = st[lock] /\ after' = after
  <2> SUFFICES ASSUME lock' # 0 PROVE lock' = lock /\ st'[lock] = st[lock] /\ after' = after
    OBVIOUS
  <2>1. lock # r /\ lock # 0 /\ lock' = lock
    BY <1>4
  <2> QED BY <1>4, <2>1, LockIsRequest, ShapeParts, Zenon DEF RequestsOK
<1>6. lock' # 0 /\ req'[lock'].field = f /\ f \in Settings => WrittenInv(f)'
  <2> SUFFICES ASSUME lock' # 0, req'[lock'].field = f, f \in Settings PROVE WrittenInv(f)'
    OBVIOUS
  <2>1. WrittenInv(f)
    BY <1>4, <1>5 DEF ConfigurationInv
  <2> QED BY <1>3, <1>4, <1>5, <2>1 DEF WrittenInv
<1>7. CASE Control(r) /\ ~local
  <2>1. valid' = None /\ ~read'.current
    BY <1>3, <1>4, <1>7
  <2>2. since'[f] \in {since[f], {device[f]}}
    BY <1>2, <1>4, <1>7, Zenon DEF WallboxOK
  <2> QED BY <1>4, <1>6, <2>1, <2>2 DEF ConfigurationInv
<1>8. CASE ~(Control(r) /\ ~local) /\ g \in Settings /\ st[r] = "sent" /\ f = g
  <2>1. lock = r
    BY <1>8 DEF ShapeInv, InLock
  <2>2. lock # 0
    BY <2>1, SMT DEF Requests
  <2>3. WrittenInv(f)
    BY <1>1, <1>8, <2>1, <2>2 DEF ConfigurationInv
  <2>4. /\ after = {device[f]} /\ (valid # None => valid[f] = device[f])
        /\ read.who # "nobody" => read.saw[f] \subseteq {device[f]}
    BY <1>8, <2>1, <2>3 DEF WrittenInv
  <2>5. since'[f] = after /\ valid' = valid
    BY <1>2, <1>4, <1>8, Zenon DEF WallboxOK
  <2> QED BY <1>3, <1>4, <1>6, <2>4, <2>5 DEF ConfigurationInv
<1>9. CASE ~(Control(r) /\ ~local) /\ ~(g \in Settings /\ st[r] = "sent" /\ f = g)
  <2>1. since'[f] = since[f] /\ valid' = valid
    BY <1>2, <1>4, <1>9, Zenon DEF WallboxOK
  <2> QED BY <1>3, <1>4, <1>6, <2>1 DEF ConfigurationInv
<1> QED BY <1>7, <1>8, <1>9

\* Every step keeps ConfigurationInv.
LEMMA StepConfiguration ==
  ASSUME ConfirmationAssumption, ShapeInv, NEW f \in Fields, Source(f) = "settings",
         ConfigurationInv(f),
         [Next]_vars
  PROVE  ConfigurationInv(f)'
<1>1. CASE Begin
  BY <1>1, StartsConfiguration
<1>2. CASE Acquire
  BY <1>2, AcquireConfiguration
<1>3. CASE Send
  BY <1>3, SendConfiguration
<1>4. CASE Answered \/ Uncertain \/ Rejected
  <2>1. PICK r \in Requests : /\ st[r] \in InLock \cup {"waiting"} /\ Ends(r)
                              /\ \/ Keeps /\ NotArmed(r, "over")
                                 \/ st[r] \in InLock /\ Arms(r)
    BY <1>4, AcceptedKeeps
  <2>2. read' \in {ReadAfter(r), Precedes(ReadAfter(r), req[r].field)}
    BY <2>1, Zenon DEF NotArmed, Arms
  <2> QED BY <2>1, <2>2, EndsConfiguration
<1>5. CASE PollBegins \/ PollReturns \/ PollFails
  BY <1>5, PollReadsFollow, ConfigurationKept DEF ReadsFollow
<1>6. CASE ReadBegins
  BY <1>6, ReadBeginsConfiguration
<1>7. CASE ReadCrossed \/ ReadReturns \/ ReadFails
  BY <1>7, ReadEndsConfiguration
<1>8. CASE HandoverBegins
  BY <1>8, HandoverConfiguration
<1>9. CASE Still /\ ~Acquire
  <2>1. UNCHANGED <<device, since, after, valid>> /\ Follows(read, read', "settings")
    BY <1>9, StillFollows DEF history, ReadsFollow
  <2>2. UNCHANGED <<st, lock, req>>
    <3>1. CASE Refresher
      <4>1. RefreshKeeps
        BY <3>1, Zenon DEF Refresher, RefreshStarts, Debounced, RefreshGoesOn, RefreshEnds,
           RefreshRaises
      <4> QED BY <4>1, Zenon DEF RefreshKeeps
    <3>2. CASE Wake \/ HandoverEnds \/ Close \/ Tick \/ UNCHANGED vars
      BY <3>2, Zenon DEF Wake, HandoverEnds, Close, Tick, vars
    <3> QED BY <1>9, <3>1, <3>2 DEF Still
  <2> QED BY <2>1, <2>2, ConfigurationKept
<1> QED BY <1>1, <1>2, <1>3, <1>4, <1>5, <1>6, <1>7, <1>8, <1>9, Zenon DEF Next, Still

-----------------------------------------------------------------------------
(* The theorems.                                                              *)

HistoryInv == OwedInv /\ HeldInv /\ ValidInv

\* The invariant holds at the start.
LEMMA InitHistory == ASSUME ConfirmationAssumption, Init PROVE HistoryInv
<1>1. OwedInv
  BY InitOwed
<1>2. poll.who = "nobody" /\ read.who = "nobody"
  BY NoReadIsReading DEF Init
<1>3. lock = 0 /\ valid = None /\ \A f \in Fields : pending[f] = None /\ since[f] = {device[f]}
  BY DEF Init
<1>4. HeldInv
  BY <1>2, <1>3 DEF HeldInv, Within
<1>5. ValidInv
  BY <1>2, <1>3 DEF ValidInv, ConfigurationInv
<1> QED BY <1>1, <1>4, <1>5 DEF HistoryInv

\* The invariant of the histories: whatever may still confirm a readback has seen only
\* values of after it was armed, and no read that counts is older than the last write.
THEOREM HistoryInvariant == Spec => []HistoryInv
<1>1. Init => HistoryInv
  BY ConfirmationAssumption, InitHistory
<1>2. HistoryInv /\ [Next]_vars => HistoryInv'
  <2> SUFFICES ASSUME HistoryInv, [Next]_vars PROVE HistoryInv'
    OBVIOUS
  <2>1. ShapeInv
    BY DEF HistoryInv, OwedInv
  <2>2. OwedInv'
    BY ConfirmationAssumption, StepKeeps, KeepsOwed, StartsOwed, ArmsOwed DEF HistoryInv, OwedInv
  <2>3. HeldInv'
    BY ConfirmationAssumption, <2>1, StepHeld DEF HistoryInv
  <2>4. ASSUME NEW f \in Fields, Source(f) = "settings" PROVE ConfigurationInv(f)'
    BY ConfirmationAssumption, <2>1, <2>4, StepConfiguration DEF HistoryInv, ValidInv
  <2> QED BY <2>2, <2>3, <2>4 DEF HistoryInv, ValidInv
<1> QED BY <1>1, <1>2, PTL DEF Spec

\* observed(): a report that confirms a write carries a value the wallbox had since the
\* readback was armed, whenever the report's read began.
THEOREM ConfirmedValueWasThere == Spec => ConfirmedByWallbox
<1>1. HistoryInv /\ [Next]_vars =>
        [\A f \in Fields : pending[f] # None /\ results'[f] = "confirmed" => pending[f].value \in held[f]]_vars
  <2> SUFFICES ASSUME HistoryInv, [Next]_vars, NEW f \in Fields, pending[f] # None,
  results'[f] = "confirmed"
               PROVE  pending[f].value \in held[f]
    OBVIOUS
  <2>1. ShapeInv /\ HeldInv
    BY DEF HistoryInv, OwedInv
  <2>2. results[f] # "confirmed"
    BY <2>1 DEF HeldInv
  <2>3. Confirms(f)
    BY ConfirmationAssumption, <2>1, <2>2, StepConfirms
  <2> QED BY <2>1, <2>3 DEF Confirms, HeldInv, Within
<1> QED BY <1>1, HistoryInvariant, PTL DEF Spec, ConfirmedByWallbox

\* CloudSettings.refresh and write: no valid configuration is older than the last
\* completed write of a setting, mode or power, or the last handover.
THEOREM ValidStaysRecent == Spec => []ValidIsRecent
<1>1. HistoryInv => ValidIsRecent
  BY DEF HistoryInv, ValidInv, ConfigurationInv, ValidIsRecent
<1> QED BY <1>1, HistoryInvariant, PTL

=============================================================================

-------------------------- MODULE IntentPollingProofs --------------------------
(***************************************************************************)
(* Theorems about the two parts of MCIntentPolling.                          *)
(*                                                                         *)
(* Of CloudPolling, for every interval, length of reads and number of        *)
(* handovers that PollingAssumption admits: how long telemetry may stay      *)
(* silent, and that a closed coordinator is quiet.                           *)
(*                                                                         *)
(* Of ControlIntent, for every number of choices and of moves of the route,  *)
(* and any user: the type invariant, and three of its action properties.  A  *)
(* control is carried out a second time only when it is a Start or Stop the  *)
(* cloud left open, and a Start only over TCP; what the user has replaced is *)
(* not begun; a pending Stop is not lost.  IntentInv is the invariant behind *)
(* all of them: what the three actors (the task, the preparation, the route) *)
(* may be at together, how the numbers tell the controls apart, and what a   *)
(* control may have done at each stage of its life.  What the task's         *)
(* fourteen actions do to it comes down to four ways (Ways): a control is    *)
(* begun, given up, taken back, or goes on; each way is shown once to keep   *)
(* the invariant.                                                            *)
(***************************************************************************)
EXTENDS MCIntentPolling, Sequences, TLAPS

-----------------------------------------------------------------------------
(* CloudPolling: the invariant *)

\* A read under way has no poll scheduled behind it; without one a poll is scheduled.
ReadInv ==
    /\ reading.age # Never => next = Never /\ silence <= reading.age
    /\ reading.age = Never \/ closed => ~again
    /\ reading.age = Never /\ ~closed => next # Never

\* What is of an earlier route is known by its epoch.
EpochInv ==
    /\ trust.epoch <= epoch /\ listener.epoch <= epoch /\ refresh.epoch <= epoch
    /\ reading.epoch <= epoch
    /\ kind # "native" => route = "cloud"
    /\ kind = "modbus" => ~double /\ ~trust.extended /\ checked

\* Trust that is extended is of this route, of enough reports, and not older than the
\* interval at the end of a round.
TrustInv ==
    /\ trust.verified = Never => trust.samples = 0
    /\ trust.verified # Never => trust.samples > 0
    /\ trust.extended => trust.samples = Required
    /\ ~closed /\ trust.epoch = epoch /\ trust.verified # Never => route = "cloud"
    /\ ~closed /\ trust.epoch = epoch /\ trust.extended =>
           trust.verified <= Base /\ (checked => trust.verified < Base)
    /\ ~closed /\ double => /\ trust.extended /\ trust.epoch = epoch
                            /\ reading.age # Never => reading.epoch = epoch

\* A refresh of an earlier route is over before enough reports of this one have come.
LateInv ==
    refresh.left # Never /\ refresh.epoch # epoch =>
        /\ listener.epoch = epoch /\ (listener.at = "listening" \/ listener.connected) =>
           refresh.left < Spacing
        /\ trust.epoch = epoch /\ trust.hint # Never => refresh.left < Spacing
        /\ trust.epoch = epoch /\ trust.verified # Never =>
               trust.samples + trust.verified + refresh.left <= Spacing

\* A poll that is farther than the interval is there for the trust, or a refresh is due.
FarInv ==
    ~closed /\ ~Transitioning /\ reading.age = Never =>
        \/ next + silence <= ReadTime + Base
        \/ /\ trust.extended /\ trust.epoch = epoch /\ ok
           /\ silence <= trust.verified + ReadTime
        \/ /\ route = "cloud" /\ refresh.left # Never /\ refresh.epoch = epoch
           /\ silence + refresh.left <= Base + ReadTime + Spacing

Trusts == [samples : 0..Required, verified : -1..(Base + 1), hint : -1..(HintLife + 1),
           extended : BOOLEAN, epoch : 0..MaxMoves]
Places == {"idle", "joining", "listening", "broken"}
Listeners == [at : Places, connected : BOOLEAN, epoch : 0..MaxMoves]
Readings == [age : -1..ReadTime, epoch : -1..MaxMoves]
Pending == [left : -1..Spacing, epoch : 0..MaxMoves]

IInv == TypeOK /\ ReadInv /\ EpochInv /\ TrustInv /\ LateInv /\ FarInv /\ ClosedIsQuiet

-----------------------------------------------------------------------------
\* Trust withdrawn is of the type.
LEMMA NoTrustIsTrust == ASSUME Times, NEW e \in 0..MaxMoves PROVE NoTrust(e) \in Trusts
  BY SMT DEF Times, NoTrust, Trusts, Never

\* Ages stop at their limit and absent ones stay absent.
LEMMA OlderInRange ==
  ASSUME NEW n \in Nat, NEW a \in -1..n
  PROVE  Older(a, n) \in -1..n /\ (Older(a, n) = Never <=> a = Never)
  BY SMT DEF Older, Never

\* The trust keeps its type while it ages ...
LEMMA TrustAges ==
  ASSUME NEW t \in Trusts, NEW v \in -1..(Base + 1), NEW h \in -1..(HintLife + 1)
  PROVE  [t EXCEPT !.verified = v, !.hint = h] \in Trusts
  BY Zenon DEF Trusts

\* ... and so does the listener when it is connected ...
LEMMA ListenerConnects ==
  ASSUME NEW l \in Listeners, NEW c \in BOOLEAN
  PROVE  [l EXCEPT !.connected = c] \in Listeners
  BY Zenon DEF Listeners

\* ... when it joins or breaks ...
LEMMA ListenerMoves ==
  ASSUME NEW l \in Listeners, NEW at \in Places
  PROVE  [l EXCEPT !.at = at] \in Listeners
  BY Zenon DEF Listeners

\* ... and when it begins again.
LEMMA ListenerBegins ==
  ASSUME NEW at \in Places, NEW e \in 0..MaxMoves
  PROVE  [at |-> at, connected |-> FALSE, epoch |-> e] \in Listeners
  BY SMT DEF Listeners

\* A scheduled poll begins a read.
LEMMA PollStep == ASSUME Times, IInv, Poll PROVE IInv'
<1> USE Times DEF Times, Kinds, Routes, Never, Longest, NoRefresh, NoReading, NewReading, Idle,
   Eligible, Transitioning
<1>1. TypeOK'
  <2>1. reading' \in Readings
    BY SMT DEF IInv, TypeOK, Readings, Poll, Reads
  <2>2. silence' \in 0..(Longest + 1)
    BY SMT DEF IInv, TypeOK, Poll, Reads
  <2>3. next' \in -1..(2 * Base)
    BY SMT DEF Poll, Reads
  <2>4. again' \in BOOLEAN
    BY Zenon DEF IInv, TypeOK, Poll, Reads
  <2> QED BY <2>1, <2>2, <2>3, <2>4, ZenonT(60) DEF IInv, TypeOK, Readings, Poll
<1>2. ReadInv'
  BY SMTT(20) DEF IInv, ReadInv, Poll, Reads
<1>3. EpochInv'
  BY SMTT(20) DEF IInv, TypeOK, EpochInv, Poll, Reads
<1>4. TrustInv'
  BY SMTT(20) DEF IInv, TrustInv, Poll, Reads
<1>5. LateInv'
  BY SMTT(20) DEF IInv, LateInv, Poll, Reads
<1>6. FarInv'
  BY SMTT(20) DEF FarInv, Poll, Reads
<1>7. ClosedIsQuiet'
  BY SMTT(20) DEF ClosedIsQuiet, Poll, Reads
<1> QED BY <1>1, <1>2, <1>3, <1>4, <1>5, <1>6, <1>7 DEF IInv

\* The delayed refresh begins one or asks for another.
LEMMA TimerFiresStep == ASSUME Times, IInv, TimerFires PROVE IInv'
<1> USE Times DEF Times, Kinds, Routes, Never, Longest, NoRefresh, NoReading, NewReading, Idle,
   Eligible, Transitioning
<1>1. TypeOK'
  <2>1. timer' \in -1..Retry
    BY SMT DEF TimerFires, Reads
  <2>2. reading' \in Readings
    BY SMT DEF IInv, TypeOK, Readings, TimerFires, Reads
  <2>3. silence' \in 0..(Longest + 1)
    BY SMT DEF IInv, TypeOK, TimerFires, Reads
  <2>4. next' \in -1..(2 * Base)
    BY SMT DEF IInv, TypeOK, TimerFires, Reads
  <2>5. again' \in BOOLEAN
    BY Zenon DEF IInv, TypeOK, TimerFires, Reads
  <2> QED BY <2>1, <2>2, <2>3, <2>4, <2>5, ZenonT(60) DEF IInv, TypeOK, Readings, TimerFires
<1>2. ReadInv'
  BY SMTT(20) DEF IInv, ReadInv, ClosedIsQuiet, TimerFires, Reads
<1>3. EpochInv'
  BY SMTT(20) DEF IInv, TypeOK, EpochInv, TimerFires, Reads
<1>4. TrustInv'
  BY SMTT(20) DEF IInv, TrustInv, TimerFires, Reads
<1>5. LateInv'
  BY SMTT(20) DEF IInv, LateInv, TimerFires, Reads
<1>6. FarInv'
  BY SMTT(20) DEF FarInv, TimerFires, Reads
<1>7. ClosedIsQuiet'
  BY SMTT(20) DEF IInv, ClosedIsQuiet, TimerFires, Reads
<1> QED BY <1>1, <1>2, <1>3, <1>4, <1>5, <1>6, <1>7 DEF IInv

\* A report of the cloud chooses the interval: a doubled one only with trust just confirmed.
LEMMA ReadOfCloudStep == ASSUME Times, IInv, ReadOfCloud PROVE IInv'
<1> USE Times DEF Times, Kinds, Routes, Never, Longest, NoRefresh, NoReading, NewReading, Idle,
   Eligible, Transitioning
<1>1. TypeOK'
  <2>1. trust' \in Trusts
    BY SMT DEF IInv, TypeOK, Trusts, ReadOfCloud, Observed, Doubled, NoTrust, Armed
  <2>2. route' \in Routes
    BY SMT DEF ReadOfCloud, Observed, Doubled, NoTrust, Armed
  <2>3. reading' \in Readings
    BY SMT DEF IInv, TypeOK, Readings, ReadOfCloud, Observed, Doubled, NoTrust, Armed
  <2>4. silence' \in 0..(Longest + 1)
    BY SMT DEF IInv, TypeOK, ReadOfCloud, Observed, Doubled, NoTrust, Armed
  <2>5. next' \in -1..(2 * Base)
    BY SMT DEF ReadOfCloud, Observed, Doubled, NoTrust, Armed
  <2>6. again' \in BOOLEAN
    BY Zenon DEF IInv, TypeOK, ReadOfCloud, Observed, Doubled, NoTrust, Armed
  <2>7. ok' \in BOOLEAN
    BY Zenon DEF ReadOfCloud, Observed, Doubled, NoTrust, Armed
  <2>8. double' \in BOOLEAN
    <3>1. trust'.extended \in BOOLEAN
      BY <2>1, Zenon DEF Trusts
    <3> QED BY <3>1, Zenon DEF ReadOfCloud, Doubled
  <2> QED BY <2>1, <2>2, <2>3, <2>4, <2>5, <2>6, <2>7, <2>8, Zenon DEF IInv, TypeOK, Trusts,
  Readings, ReadOfCloud
<1>2. ReadInv'
  BY SMTT(20) DEF ReadInv, ReadOfCloud, Observed, Doubled, NoTrust, Armed
<1>3. EpochInv'
  BY SMTT(20) DEF IInv, TypeOK, EpochInv, ReadOfCloud, Observed, Doubled, NoTrust, Armed
<1>4. TrustInv'
  BY SMTT(20) DEF IInv, TypeOK, TrustInv, ReadOfCloud, Observed, Doubled, NoTrust, Armed
<1>5. LateInv'
  BY SMTT(20) DEF IInv, TypeOK, LateInv, ReadOfCloud, Observed, Doubled, NoTrust, Armed
<1>6. FarInv'
  BY SMTT(20) DEF IInv, TypeOK, ReadInv, FarInv, ReadOfCloud, Observed, Doubled, NoTrust, Armed
<1>7. ClosedIsQuiet'
  BY SMTT(20) DEF ClosedIsQuiet, ReadOfCloud, Observed, Doubled, NoTrust, Armed
<1> QED BY <1>1, <1>2, <1>3, <1>4, <1>5, <1>6, <1>7 DEF IInv

\* A report of TCP or of the registers arms the configured interval.
LEMMA ReadElsewhereStep == ASSUME Times, IInv, ReadElsewhere PROVE IInv'
<1> USE Times DEF Times, Kinds, Routes, Never, Longest, NoRefresh, NoReading, NewReading, Idle,
   Eligible, Transitioning
<1>1. TypeOK'
  <2>1. reading' \in Readings
    BY SMT DEF IInv, TypeOK, Readings, ReadElsewhere, Armed
  <2>2. silence' \in 0..(Longest + 1)
    BY SMT DEF IInv, TypeOK, ReadElsewhere, Armed
  <2>3. next' \in -1..(2 * Base)
    BY SMT DEF ReadElsewhere, Armed
  <2>4. again' \in BOOLEAN
    BY Zenon DEF IInv, TypeOK, ReadElsewhere, Armed
  <2>5. ok' \in BOOLEAN
    BY Zenon DEF ReadElsewhere, Armed
  <2>6. double' \in BOOLEAN
    BY Zenon DEF ReadElsewhere, Armed
  <2> QED BY <2>1, <2>2, <2>3, <2>4, <2>5, <2>6, Zenon DEF IInv, TypeOK, Readings, ReadElsewhere
<1>2. ReadInv'
  BY SMTT(20) DEF ReadInv, ReadElsewhere, Armed
<1>3. EpochInv'
  BY SMTT(20) DEF IInv, TypeOK, EpochInv, ReadElsewhere, Armed
<1>4. TrustInv'
  BY SMTT(20) DEF IInv, TrustInv, ReadElsewhere, Armed
<1>5. LateInv'
  BY SMTT(20) DEF IInv, LateInv, ReadElsewhere, Armed
<1>6. FarInv'
  BY SMTT(20) DEF IInv, TypeOK, ReadInv, FarInv, ReadElsewhere, Armed
<1>7. ClosedIsQuiet'
  BY SMTT(20) DEF ClosedIsQuiet, ReadElsewhere, Armed
<1> QED BY <1>1, <1>2, <1>3, <1>4, <1>5, <1>6, <1>7 DEF IInv

\* A read that fails arms the interval that is left.
LEMMA ReadFailsStep == ASSUME Times, IInv, ReadFails PROVE IInv'
<1> USE Times DEF Times, Kinds, Routes, Never, Longest, NoRefresh, NoReading, NewReading, Idle,
   Eligible, Transitioning
<1>1. TypeOK'
  <2>1. reading' \in Readings
    BY SMT DEF IInv, TypeOK, Readings, ReadFails, Distrusted, NoTrust, Scheduled, Armed
  <2>2. silence' \in 0..(Longest + 1)
    BY SMT DEF IInv, TypeOK, ReadFails, Distrusted, NoTrust, Scheduled, Armed
  <2>3. next' \in -1..(2 * Base)
    BY SMT DEF IInv, TypeOK, ReadFails, Distrusted, NoTrust, Scheduled, Armed
  <2>4. timer' \in -1..Retry
    BY SMT DEF IInv, TypeOK, ReadFails, Distrusted, NoTrust, Scheduled, Armed
  <2>5. trust' \in Trusts
    <3>1. trust' \in {trust, Distrusted}
      BY Zenon DEF ReadFails
    <3>2. trust \in Trusts /\ trust.epoch \in 0..MaxMoves
      BY SMT DEF IInv, TypeOK, Trusts
    <3> QED BY <3>1, <3>2, NoTrustIsTrust DEF Distrusted
  <2>6. again' \in BOOLEAN
    BY Zenon DEF IInv, TypeOK, ReadFails, Distrusted, NoTrust, Scheduled, Armed
  <2>7. ok' \in BOOLEAN
    BY Zenon DEF ReadFails, Distrusted, NoTrust, Scheduled, Armed
  <2>8. double' \in BOOLEAN
    BY Zenon DEF IInv, TypeOK, ReadFails, Distrusted, NoTrust, Scheduled, Armed
  <2> QED BY <2>1, <2>2, <2>3, <2>4, <2>5, <2>6, <2>7, <2>8, Zenon DEF IInv, TypeOK, Trusts,
  Readings, ReadFails
<1>2. ReadInv'
  <2>1. CASE closed
    BY <2>1, SMT DEF IInv, ReadInv, ReadFails
  <2>2. CASE ~closed /\ again
    BY <2>2, SMT DEF ReadInv, ReadFails, Armed
  <2>3. CASE ~closed /\ ~again
    BY <2>3, SMT DEF ReadInv, ReadFails, Armed
  <2> QED BY <2>1, <2>2, <2>3
<1>3. EpochInv'
  BY SMTT(20) DEF IInv, TypeOK, EpochInv, ReadFails, Distrusted, NoTrust, Scheduled, Armed
<1>4. TrustInv'
  BY SMTT(20) DEF IInv, TypeOK, TrustInv, ReadFails, Distrusted, NoTrust, Scheduled, Armed
<1>5. LateInv'
  BY SMTT(20) DEF IInv, LateInv, ReadFails, Distrusted, NoTrust, Scheduled, Armed
<1>6. FarInv'
  BY SMTT(20) DEF IInv, TypeOK, ReadInv, EpochInv, TrustInv, FarInv, ReadFails, Distrusted, NoTrust,
     Scheduled, Armed
<1>7. ClosedIsQuiet'
  BY SMTT(20) DEF IInv, ClosedIsQuiet, ReadFails, Distrusted, NoTrust, Scheduled, Armed
<1> QED BY <1>1, <1>2, <1>3, <1>4, <1>5, <1>6, <1>7 DEF IInv

\* A write asks for a read.
LEMMA AsksStep == ASSUME Times, IInv, Asks PROVE IInv'
<1> USE Times DEF Times, Kinds, Routes, Never, Longest, NoRefresh, NoReading, NewReading, Idle,
   Eligible, Transitioning
<1>1. TypeOK'
  <2>1. timer' \in -1..Retry
    BY SMT DEF IInv, TypeOK, Asks, Reads, Scheduled
  <2>2. reading' \in Readings
    BY SMT DEF IInv, TypeOK, Readings, Asks, Reads, Scheduled
  <2>3. silence' \in 0..(Longest + 1)
    BY SMT DEF IInv, TypeOK, Asks, Reads, Scheduled
  <2>4. next' \in -1..(2 * Base)
    BY SMT DEF IInv, TypeOK, Asks, Reads, Scheduled
  <2>5. again' \in BOOLEAN
    BY Zenon DEF IInv, TypeOK, Asks, Reads, Scheduled
  <2> QED BY <2>1, <2>2, <2>3, <2>4, <2>5 DEF IInv, TypeOK, Readings, Asks
<1>2. ReadInv'
  BY SMTT(20) DEF IInv, ReadInv, Asks, Reads, Scheduled
<1>3. EpochInv'
  BY SMTT(20) DEF IInv, TypeOK, EpochInv, Asks, Reads, Scheduled
<1>4. TrustInv'
  BY SMTT(20) DEF IInv, TrustInv, Asks, Reads, Scheduled
<1>5. LateInv'
  BY SMTT(20) DEF IInv, LateInv, Asks, Reads, Scheduled
<1>6. FarInv'
  BY SMTT(20) DEF IInv, FarInv, Asks, Reads, Scheduled
<1>7. ClosedIsQuiet'
  BY SMTT(20) DEF ClosedIsQuiet, Asks, Reads, Scheduled
<1> QED BY <1>1, <1>2, <1>3, <1>4, <1>5, <1>6, <1>7 DEF IInv

\* An event makes a refresh due.
LEMMA HintStep == ASSUME Times, IInv, Hint PROVE IInv'
<1> USE Times DEF Times, Kinds, Routes, Never, Longest, NoRefresh, NoReading, NewReading, Idle,
   Eligible, Transitioning
<1>1. TypeOK'
  <2>1. trust' \in Trusts
    BY SMT DEF IInv, TypeOK, Trusts, Hint, Refreshes, Larger
  <2>2. refresh' \in Pending
    BY SMT DEF IInv, TypeOK, Pending, Hint, Refreshes, Larger
  <2> QED BY <2>1, <2>2, Zenon DEF IInv, TypeOK, Trusts, Pending, Hint
<1>2. ReadInv'
  BY SMTT(20) DEF IInv, ReadInv, Hint, Refreshes, Larger
<1>3. EpochInv'
  BY SMTT(20) DEF IInv, EpochInv, Hint, Refreshes, Larger
<1>4. TrustInv'
  BY SMTT(20) DEF IInv, TrustInv, Hint, Refreshes, Larger
<1>5. LateInv'
  BY SMTT(20) DEF IInv, LateInv, Hint, Refreshes, Larger
<1>6. FarInv'
  BY SMTT(20) DEF IInv, FarInv, Hint, Refreshes, Larger
<1>7. ClosedIsQuiet'
  BY SMTT(20) DEF ClosedIsQuiet, Hint, Refreshes, Larger
<1> QED BY <1>1, <1>2, <1>3, <1>4, <1>5, <1>6, <1>7 DEF IInv

\* The refresh of an event begins a read if it is of this route.
LEMMA RefreshFiresStep == ASSUME Times, IInv, RefreshFires PROVE IInv'
<1> USE Times DEF Times, Kinds, Routes, Never, Longest, NoRefresh, NoReading, NewReading, Idle,
   Eligible, Transitioning
<1>1. TypeOK'
  <2>1. refresh' \in Pending
    BY SMT DEF Pending, RefreshFires, Reads
  <2>2. since' \in 0..Spacing
    BY SMT DEF IInv, TypeOK, RefreshFires, Reads
  <2>3. reading' \in Readings
    BY SMT DEF IInv, TypeOK, Readings, RefreshFires, Reads
  <2>4. silence' \in 0..(Longest + 1)
    BY SMT DEF IInv, TypeOK, RefreshFires, Reads
  <2>5. next' \in -1..(2 * Base)
    BY SMT DEF IInv, TypeOK, RefreshFires, Reads
  <2>6. again' \in BOOLEAN
    BY Zenon DEF IInv, TypeOK, RefreshFires, Reads
  <2> QED BY <2>1, <2>2, <2>3, <2>4, <2>5, <2>6, ZenonT(60) DEF IInv, TypeOK, Readings, Pending,
  RefreshFires
<1>2. ReadInv'
  BY SMTT(20) DEF IInv, ReadInv, RefreshFires, Reads
<1>3. EpochInv'
  BY SMTT(20) DEF IInv, TypeOK, EpochInv, RefreshFires, Reads
<1>4. TrustInv'
  BY SMTT(20) DEF IInv, TrustInv, RefreshFires, Reads
<1>5. LateInv'
  BY SMTT(20) DEF LateInv, RefreshFires, Reads
<1>6. FarInv'
  BY SMTT(20) DEF IInv, FarInv, RefreshFires, Reads
<1>7. ClosedIsQuiet'
  BY SMTT(20) DEF IInv, ClosedIsQuiet, RefreshFires, Reads
<1> QED BY <1>1, <1>2, <1>3, <1>4, <1>5, <1>6, <1>7 DEF IInv

\* A round leaves extended trust that is fresh, or a refresh that is due.
LEMMA RoundStep == ASSUME Times, IInv, Round PROVE IInv'
<1> USE Times DEF Times, Kinds, Routes, Never, Longest, NoRefresh, NoReading, NewReading, Idle,
   Eligible, Transitioning
<1>1. TypeOK'
  <2>1. trust' \in Trusts
    <3>1. trust' \in {trust, Distrusted}
      BY Zenon DEF Round, Checks, ChecksLost
    <3>2. trust \in Trusts /\ trust.epoch \in 0..MaxMoves
      BY SMT DEF IInv, TypeOK, Trusts
    <3> QED BY <3>1, <3>2, NoTrustIsTrust DEF Distrusted
  <2>2. refresh' \in Pending
    BY SMT DEF IInv, TypeOK, Pending, Round, Checks, ChecksLost, Distrusted, NoTrust, Refreshes,
       Larger, Expired
  <2>3. listener' \in Listeners
    <3>1. listener \in Listeners /\ epoch \in 0..MaxMoves
      BY DEF IInv, TypeOK, Listeners, Places
    <3>2. Idle \in Listeners
      BY ListenerBegins, SMT DEF Places
    <3>3. [at |-> "joining", connected |-> FALSE, epoch |-> epoch] \in Listeners
      BY <3>1, ListenerBegins, SMT DEF Places
    <3> QED BY <3>1, <3>2, <3>3, Zenon DEF Round
  <2>4. pause' \in 0..Retry
    BY SMT DEF IInv, TypeOK, Round, Checks, ChecksLost, Distrusted, NoTrust, Refreshes, Larger,
       Expired
  <2>5. double' \in BOOLEAN
    BY Zenon DEF IInv, TypeOK, Round, Checks, ChecksLost, Distrusted, NoTrust, Refreshes, Larger,
       Expired
  <2>6. checked' \in BOOLEAN
    BY Zenon DEF IInv, TypeOK, Round, Checks, ChecksLost, Distrusted, NoTrust, Refreshes, Larger,
       Expired
  <2> QED BY <2>1, <2>2, <2>3, <2>4, <2>5, <2>6, Zenon DEF IInv, TypeOK, Trusts, Listeners, Places,
  Pending, Round
<1>2. ReadInv'
  BY SMTT(20) DEF IInv, ReadInv, Round, Checks, ChecksLost, Distrusted, NoTrust, Refreshes, Larger,
     Expired
<1>3. EpochInv'
  BY SMTT(20) DEF IInv, TypeOK, EpochInv, Round, Checks, ChecksLost, Distrusted, NoTrust, Refreshes,
     Larger, Expired
<1>4. TrustInv'
  BY SMTT(20) DEF IInv, TypeOK, TrustInv, Round, Checks, ChecksLost, Distrusted, NoTrust, Refreshes,
     Larger, Expired
<1>5. LateInv'
  BY SMTT(20) DEF IInv, LateInv, Round, Checks, ChecksLost, Distrusted, NoTrust, Refreshes, Larger,
     Expired
<1>6. FarInv'
  BY SMTT(20) DEF IInv, TypeOK, TrustInv, LateInv, FarInv, Round, Checks, ChecksLost, Distrusted,
     NoTrust, Refreshes, Larger, Expired
<1>7. ClosedIsQuiet'
  BY SMTT(20) DEF ClosedIsQuiet, Round, Checks, ChecksLost, Distrusted, NoTrust, Refreshes, Larger,
     Expired
<1> QED BY <1>1, <1>2, <1>3, <1>4, <1>5, <1>6, <1>7 DEF IInv

\* A subscription is accepted.
LEMMA SubscribedStep == ASSUME Times, IInv, Subscribed PROVE IInv'
<1> USE Times DEF Times, Kinds, Routes, Never, Longest, NoRefresh, NoReading, NewReading, Idle,
   Eligible, Transitioning
<1>1. TypeOK'
  <2>1. listener' \in Listeners
    BY ListenerConnects, Zenon DEF IInv, TypeOK, Listeners, Places, Subscribed
  <2> QED BY <2>1, Zenon DEF IInv, TypeOK, Subscribed
<1>2. ReadInv'
  BY SMTT(20) DEF IInv, ReadInv, Subscribed
<1>3. EpochInv'
  BY SMTT(20) DEF IInv, EpochInv, Subscribed
<1>4. TrustInv'
  BY SMTT(20) DEF IInv, TrustInv, Subscribed
<1>5. LateInv'
  BY SMTT(20) DEF IInv, LateInv, Subscribed
<1>6. FarInv'
  BY SMTT(20) DEF IInv, FarInv, Subscribed
<1>7. ClosedIsQuiet'
  BY SMTT(20) DEF ClosedIsQuiet, Subscribed
<1> QED BY <1>1, <1>2, <1>3, <1>4, <1>5, <1>6, <1>7 DEF IInv

\* A subscription breaks.
LEMMA SubscriptionBreaksStep == ASSUME Times, IInv, SubscriptionBreaks PROVE IInv'
<1> USE Times DEF Times, Kinds, Routes, Never, Longest, NoRefresh, NoReading, NewReading, Idle,
   Eligible, Transitioning
<1>1. TypeOK'
  <2>1. listener' \in Listeners
    BY SMT DEF IInv, TypeOK, Listeners, Places, SubscriptionBreaks
  <2> QED BY <2>1, Zenon DEF IInv, TypeOK, SubscriptionBreaks
<1>2. ReadInv'
  BY SMTT(20) DEF IInv, ReadInv, SubscriptionBreaks
<1>3. EpochInv'
  BY SMTT(20) DEF IInv, EpochInv, SubscriptionBreaks
<1>4. TrustInv'
  BY SMTT(20) DEF IInv, TrustInv, SubscriptionBreaks
<1>5. LateInv'
  BY SMTT(20) DEF IInv, LateInv, SubscriptionBreaks
<1>6. FarInv'
  BY SMTT(20) DEF IInv, FarInv, SubscriptionBreaks
<1>7. ClosedIsQuiet'
  BY SMTT(20) DEF ClosedIsQuiet, SubscriptionBreaks
<1> QED BY <1>1, <1>2, <1>3, <1>4, <1>5, <1>6, <1>7 DEF IInv

\* A handover begins, which makes what is known belong to an earlier route.
LEMMA RouteMovesStep == ASSUME Times, IInv, RouteMoves PROVE IInv'
<1> USE Times DEF Times, Kinds, Routes, Never, Longest, NoRefresh, NoReading, NewReading, Idle,
   Eligible, Transitioning
<1>1. TypeOK'
  <2>1. epoch' \in 0..MaxMoves
    BY SMT DEF IInv, TypeOK, RouteMoves
  <2>2. route' \in Routes
    BY SMT DEF RouteMoves
  <2>3. ok' \in BOOLEAN
    BY Zenon DEF RouteMoves
  <2>4. double' \in BOOLEAN
    BY Zenon DEF RouteMoves
  <2> QED BY <2>1, <2>2, <2>3, <2>4, Zenon DEF IInv, TypeOK, RouteMoves
<1>2. ReadInv'
  BY SMTT(20) DEF IInv, ReadInv, RouteMoves
<1>3. EpochInv'
  BY SMTT(20) DEF IInv, TypeOK, EpochInv, RouteMoves
<1>4. TrustInv'
  BY SMTT(20) DEF IInv, TypeOK, EpochInv, TrustInv, RouteMoves
<1>5. LateInv'
  BY SMTT(20) DEF IInv, TypeOK, EpochInv, LateInv, RouteMoves
<1>6. FarInv'
  BY SMTT(20) DEF FarInv, RouteMoves
<1>7. ClosedIsQuiet'
  BY SMTT(20) DEF ClosedIsQuiet, RouteMoves
<1> QED BY <1>1, <1>2, <1>3, <1>4, <1>5, <1>6, <1>7 DEF IInv

\* A handover ends with a read.
LEMMA RouteMovedStep == ASSUME Times, IInv, RouteMoved PROVE IInv'
<1> USE Times DEF Times, Kinds, Routes, Never, Longest, NoRefresh, NoReading, NewReading, Idle,
   Eligible, Transitioning
<1>1. TypeOK'
  <2>1. route' \in Routes
    BY SMT DEF RouteMoved
  <2>2. reading' \in Readings
    BY SMT DEF IInv, TypeOK, Readings, RouteMoved
  <2>3. silence' \in 0..(Longest + 1)
    BY SMT DEF IInv, TypeOK, RouteMoved
  <2>4. next' \in -1..(2 * Base)
    BY SMT DEF IInv, TypeOK, RouteMoved
  <2>5. again' \in BOOLEAN
    BY Zenon DEF IInv, TypeOK, RouteMoved
  <2> QED BY <2>1, <2>2, <2>3, <2>4, <2>5, Zenon DEF IInv, TypeOK, Readings, RouteMoved
<1>2. ReadInv'
  BY SMTT(20) DEF IInv, ReadInv, RouteMoved
<1>3. EpochInv'
  BY SMTT(20) DEF IInv, TypeOK, EpochInv, RouteMoved
<1>4. TrustInv'
  BY SMTT(20) DEF IInv, TrustInv, RouteMoved
<1>5. LateInv'
  BY SMTT(20) DEF IInv, LateInv, RouteMoved
<1>6. FarInv'
  BY SMTT(20) DEF FarInv, RouteMoved
<1>7. ClosedIsQuiet'
  BY SMTT(20) DEF ClosedIsQuiet, RouteMoved
<1> QED BY <1>1, <1>2, <1>3, <1>4, <1>5, <1>6, <1>7 DEF IInv

\* The entry is unloaded.
LEMMA CloseStep == ASSUME Times, IInv, Close PROVE IInv'
<1> USE Times DEF Times, Kinds, Routes, Never, Longest, NoRefresh, NoReading, NewReading, Idle,
   Eligible, Transitioning
<1>1. TypeOK'
  <2>1. listener' \in Listeners
    BY SMT DEF Listeners, Places, Close
  <2>2. refresh' \in Pending
    BY SMT DEF Pending, Close
  <2>3. timer' \in -1..Retry
    BY SMT DEF Close
  <2>4. next' \in -1..(2 * Base)
    BY SMT DEF Close
  <2>5. again' \in BOOLEAN
    BY Zenon DEF Close
  <2>6. closed' \in BOOLEAN
    BY Zenon DEF Close
  <2> QED BY <2>1, <2>2, <2>3, <2>4, <2>5, <2>6, Zenon DEF IInv, TypeOK, Pending, Close
<1>2. ReadInv'
  BY SMTT(20) DEF IInv, ReadInv, Close
<1>3. EpochInv'
  BY SMTT(20) DEF IInv, TypeOK, EpochInv, Close
<1>4. TrustInv'
  BY SMTT(20) DEF IInv, TrustInv, Close
<1>5. LateInv'
  BY SMTT(20) DEF LateInv, Close
<1>6. FarInv'
  BY SMTT(20) DEF FarInv, Close
<1>7. ClosedIsQuiet'
  BY SMTT(20) DEF ClosedIsQuiet, Close
<1> QED BY <1>1, <1>2, <1>3, <1>4, <1>5, <1>6, <1>7 DEF IInv

\* A second passes, which brings what is due a second closer and the silence to one more.
LEMMA SecondStep == ASSUME Times, IInv, Second PROVE IInv'
<1> USE Times DEF Times, Kinds, Routes, Never, Longest, NoRefresh, NoReading, NewReading, Idle,
   Eligible, Transitioning
<1>1. TypeOK'
  <2>1. next' \in -1..(2 * Base)
    BY SMT DEF IInv, TypeOK, Second, Older
  <2>2. timer' \in -1..Retry
    BY SMT DEF IInv, TypeOK, Second, Older
  <2>3. refresh' \in Pending
    BY SMT DEF IInv, TypeOK, Pending, Second, Older
  <2>4. reading' \in Readings
    BY SMT DEF IInv, TypeOK, Readings, Second, Older
  <2>5. silence' \in 0..(Longest + 1)
    BY SMT DEF IInv, TypeOK, Second, Older
  <2>6. since' \in 0..Spacing
    BY SMT DEF IInv, TypeOK, Second, Older
  <2>7. pause' \in 0..Retry
    BY SMT DEF IInv, TypeOK, Second, Older
  <2>8. trust' \in Trusts
    <3>1. trust \in Trusts /\ trust.verified \in -1..(Base + 1) /\ trust.hint \in -1..(HintLife + 1)
      BY SMT DEF IInv, TypeOK, Trusts
    <3>2. /\ Older(trust.verified, Base + 1) \in -1..(Base + 1)
          /\ Older(trust.hint, HintLife + 1) \in -1..(HintLife + 1)
      BY <3>1, OlderInRange, SMT
    <3> QED BY <3>1, <3>2, TrustAges, Zenon DEF Second
  <2>9. listener' \in Listeners
    BY SMT DEF IInv, TypeOK, Listeners, Places, Second, Older
  <2>10. checked' \in BOOLEAN
    BY Zenon DEF Second, Older
  <2> QED BY <2>1, <2>2, <2>3, <2>4, <2>5, <2>6, <2>7, <2>8, <2>9, <2>10, Zenon DEF IInv, TypeOK,
  Trusts, Readings, Pending, Second
<1>2. ReadInv'
  BY SMTT(20) DEF IInv, TypeOK, ReadInv, Second, Older
<1>3. EpochInv'
  <2>1. /\ UNCHANGED <<kind, route, epoch, double>> /\ trust'.epoch = trust.epoch
        /\ trust'.extended = trust.extended
    BY Zenon DEF IInv, TypeOK, Second
  <2>2. /\ listener'.epoch = listener.epoch /\ refresh'.epoch = refresh.epoch
        /\ reading'.epoch = reading.epoch
    BY SMT DEF Second
  <2>3. kind = "modbus" => checked'
    BY Zenon DEF Second
  <2> QED BY <2>1, <2>2, <2>3, SMT DEF IInv, EpochInv
<1>4. TrustInv'
  BY SMTT(20) DEF IInv, TypeOK, EpochInv, TrustInv, Second, Older
<1>5. LateInv'
  BY SMTT(20) DEF IInv, TypeOK, LateInv, Second, Older
<1>6. FarInv'
  BY SMTT(20) DEF IInv, TypeOK, ReadInv, TrustInv, FarInv, Second, Older
<1>7. ClosedIsQuiet'
  BY SMTT(20) DEF ClosedIsQuiet, Second, Older
<1> QED BY <1>1, <1>2, <1>3, <1>4, <1>5, <1>6, <1>7 DEF IInv

-----------------------------------------------------------------------------
\* The initial states satisfy the invariant ...
LEMMA InitIInv == ASSUME Times, Init PROVE IInv
<1> USE Times DEF Times, Init, Kinds, Routes, Never, Longest, NoRefresh, NoReading, Idle, NoTrust,
                  Eligible, Transitioning
<1>1. TypeOK
  <2>1. /\ kind \in Kinds /\ route \in Routes /\ epoch \in 0..MaxMoves
        /\ next \in -1..(2 * Base) /\ timer \in -1..Retry /\ reading \in Readings
        /\ silence \in 0..(Longest + 1) /\ pause \in 0..Retry /\ refresh \in Pending
        /\ since \in 0..Spacing
    BY SMT DEF Readings, Pending
  <2>2. trust \in Trusts
    BY NoTrustIsTrust, SMT
  <2>3. listener \in Listeners
    BY ListenerBegins, SMT DEF Places
  <2>4. /\ double \in BOOLEAN /\ again \in BOOLEAN /\ ok \in BOOLEAN
        /\ checked \in BOOLEAN /\ closed \in BOOLEAN
    BY Zenon
  <2> HIDE DEF Init, Times
  <2> QED BY <2>1, <2>2, <2>3, <2>4, Zenon DEF TypeOK, Trusts, Listeners, Places, Readings, Pending
<1>2. EpochInv
  <2>1. /\ trust.epoch = 0 /\ listener.epoch = 0 /\ refresh.epoch = 0 /\ reading.epoch = 0
        /\ ~double /\ ~trust.extended /\ (kind # "native" => route = "cloud")
    BY SMT
  <2>2. kind = "modbus" => checked
    BY Zenon
  <2> QED BY <2>1, <2>2, SMT DEF EpochInv
<1>3. ReadInv /\ ClosedIsQuiet
  BY SMT DEF ReadInv, ClosedIsQuiet
<1>4. TrustInv /\ LateInv
  BY SMT DEF TrustInv, LateInv
<1>5. FarInv
  BY SMT DEF FarInv
<1> QED BY <1>1, <1>2, <1>3, <1>4, <1>5 DEF IInv

\* ... and every step preserves it.
LEMMA NextIInv == ASSUME Times, IInv, [Next]_vars PROVE IInv'
<1>1. CASE Next
  BY <1>1, PollStep, TimerFiresStep, ReadOfCloudStep, ReadElsewhereStep, ReadFailsStep, AsksStep,
     HintStep, RefreshFiresStep, RoundStep, SubscribedStep, SubscriptionBreaksStep, RouteMovesStep,
     RouteMovedStep, CloseStep, SecondStep, Zenon DEF Next
<1>2. CASE UNCHANGED vars
  <2> USE <1>2 DEF vars
  <2>1. TypeOK'
    BY Zenon DEF IInv, TypeOK
  <2>2. ReadInv' /\ ClosedIsQuiet'
    BY Zenon DEF IInv, ReadInv, ClosedIsQuiet
  <2>3. EpochInv'
    BY Zenon DEF IInv, EpochInv
  <2>4. TrustInv'
    BY Zenon DEF IInv, TrustInv
  <2>5. LateInv'
    BY Zenon DEF IInv, LateInv
  <2>6. FarInv'
    BY Zenon DEF IInv, FarInv, Transitioning
  <2> QED BY <2>1, <2>2, <2>3, <2>4, <2>5, <2>6 DEF IInv
<1> QED BY <1>1, <1>2

\* However the events of the broker go, what is known of the reads, the trust and the
\* timers holds: the schedule of coordinator.py is never left without a next read.
THEOREM PollingInvariant == Spec => []IInv
<1>1. Init => IInv
  BY InitIInv, PollingAssumption
<1>2. IInv /\ [Next]_vars => IInv'
  BY NextIInv, PollingAssumption
<1> QED BY <1>1, <1>2, PTL DEF Spec

\* The next read begins within the configured interval, a read, the check's second and
\* the spacing of refreshes, for every such interval and every number of handovers.
THEOREM SilenceIsBounded == Spec => []SilenceBounded
<1>1. IInv => SilenceBounded
  BY PollingAssumption, SMT
  DEF IInv, TypeOK, ReadInv, FarInv, SilenceBounded, Longest, Times, Never, Transitioning
<1> QED BY <1>1, PollingInvariant, PTL

\* What was under way when the entry was unloaded arms nothing.
THEOREM ClosedStaysQuiet == Spec => []ClosedIsQuiet
<1>1. IInv => ClosedIsQuiet
  BY DEF IInv
<1> QED BY <1>1, PollingInvariant, PTL

-----------------------------------------------------------------------------
(* ControlIntent: its records *)

\* What the task and the route are made of.
TaskRecords  == [at : Intent!Steps, control : Intent!Control \cup {None}, version : 0..MaxChoices,
                 epoch : Nat]
RouteRecords == [local : BOOLEAN, moving : BOOLEAN, waiting : BOOLEAN, fresh : BOOLEAN, epoch : Nat]
USE DEF TaskRecords, RouteRecords

-----------------------------------------------------------------------------
(* ControlIntent: the invariant *)

\* The task has a control exactly while it carries one out, under a version and on a
\* route of the past; while it does, nobody prepares; closing leaves nothing pending.
ShapeInv ==
    /\ task.at \in {"none", "waiting"} <=> task.control = None
    /\ task.version <= version /\ task.epoch <= path.epoch
    /\ Intent!Executing => preparing.at = "none"
    /\ unloaded # "no" => \A k \in Intent!Keys : pending[k] = None

\* The numbers tell the controls apart, and a control whose number is not the newest of
\* its kind has one of that kind behind it.
NumberInv ==
    /\ \A k \in Intent!Keys : newest[k] <= version
    /\ \A j, k \in Intent!Keys : j # k /\ newest[j] = newest[k] => newest[j] = 0
    /\ \A k \in Intent!Keys : pending[k] # None => pending[k].n = newest[k]
    /\ Intent!Executing => /\ task.control.n <= version
                           /\ \A k \in Intent!Keys : pending[k] # None =>
                                  pending[k].n # task.control.n
                           /\ task.version = version => newest[task.control.key] = task.control.n
                           /\ unloaded = "no" => \/ newest[task.control.key] = task.control.n
                                                 \/ pending[task.control.key] # None

\* What was carried out, at which stage.
SentInv ==
    /\ \A n \in Intent!Numbers : n > version => sent[n] = << >>
    /\ \A k \in Intent!Keys : pending[k] # None => sent[pending[k].n] = << >>
    /\ task.at = "operation" => sent[task.control.n] = << >>
    /\ Intent!Executing => \/ sent[task.control.n] = << >>
                           \/ sent[task.control.n] = <<"cloud">> /\ task.control.key = "charging"

\* A second command goes over TCP, unless the route has moved since it was prepared.
AgainInv ==
    task.at \in {"status", "again"} /\ path.epoch = task.epoch => path.local /\ ~path.moving

\* A handover of ours lasts as long as the route is moving.
MovingInv ==
    task.at = "moving" \/ preparing.at = "moving" => path.moving

IntentInv == Intent!TypeOK /\ ShapeInv /\ NumberInv /\ SentInv /\ AgainInv /\ MovingInv

-----------------------------------------------------------------------------
(* What a step may do to the controls *)

\* The route moves: a new epoch, or no change but the end of a move.
Turned ==
    /\ path' \in RouteRecords
    /\ \/ path'.epoch = path.epoch + 1
       \/ /\ path'.epoch = path.epoch
          /\ path.moving \/ (path'.local = path.local /\ path'.moving = path.moving)

\* The task gives its control up; nothing becomes pending.
Quits ==
    /\ task' \in {Intent!NoTask, Intent!Idle}
    /\ pending' \in [Intent!Keys -> Intent!Control \cup {None}]
    /\ \A k \in Intent!Keys : pending'[k] \in {None, pending[k]}
    /\ deadline' \in {"none", deadline} /\ error' \in {error, "expired", "failed", "handover"}

\* The task goes on with its control.
GoesOn(at) ==
    /\ task' = [task EXCEPT !.at = at] \/ task' = [task EXCEPT !.at = at, !.epoch = path.epoch]
    /\ UNCHANGED <<pending, deadline, error>>

\* The records a task without a control may be, and no pending control.
LEMMA Shapes ==
  ASSUME Intent!IntentConstants, Intent!TypeOK
  PROVE  /\ Intent!NoTask.at = "none" /\ Intent!NoTask.control = None /\
                Intent!NoTask.version = 0 /\ Intent!NoTask.epoch = 0
         /\ Intent!Idle.at = "waiting" /\ Intent!Idle.control = None /\ Intent!Idle.version = 0 /\
                Intent!Idle.epoch = 0
         /\ \A k \in Intent!Keys : Intent!Nothing[k] = None
         /\ Intent!Nothing \in [Intent!Keys -> Intent!Control \cup {None}]
         /\ \A t \in {Intent!NoTask, Intent!Idle} :
               t \in TaskRecords
  <1>1. /\ Intent!Idle.at = "waiting" /\ Intent!Idle.control = None /\ Intent!Idle.version = 0 /\
               Intent!Idle.epoch = 0
        /\ 0 \in 0..MaxChoices =>
              Intent!Idle \in TaskRecords
    <2>1. task \in TaskRecords
      BY DEF Intent!TypeOK
    <2> QED
      BY <2>1 DEF Intent!Idle, Intent!Steps
  <1>2. Intent!NoTask.at = "none" /\ Intent!NoTask.control = None /\ Intent!NoTask.version = 0 /\
            Intent!NoTask.epoch = 0
    BY DEF Intent!NoTask
  <1>3. (\A k \in Intent!Keys : Intent!Nothing[k] = None) /\
            Intent!Nothing \in [Intent!Keys -> Intent!Control \cup {None}]
    BY DEF Intent!Nothing
  <1>4. 0 \in 0..MaxChoices
    BY DEF Intent!IntentConstants
  <1>5. \A t \in {Intent!NoTask, Intent!Idle} :
           t \in TaskRecords
    BY <1>1, <1>4 DEF Intent!NoTask, Intent!Steps
  <1> QED
    BY <1>1, <1>2, <1>3, <1>5

\* A batch that is discarded.
LEMMA DiscardQuits ==
  ASSUME Intent!IntentConstants, Intent!TypeOK, NEW why \in {"expired", "failed", "handover"},
         Intent!Discard(why),
         task' \in {Intent!NoTask, Intent!Idle}
  PROVE  Quits
  BY Shapes DEF Intent!Discard, Quits

\* A failure keeps a Stop that is pending.
LEMMA FailsQuits ==
  ASSUME Intent!IntentConstants, Intent!TypeOK, Intent!Fails
  PROVE  /\ Quits
         /\ Intent!Stop(pending["charging"]) => pending'["charging"] = pending["charging"]
  <1>1. CASE Intent!Stop(pending["charging"])
    <2>1. /\ pending' = [Intent!Nothing EXCEPT !["charging"] = pending["charging"]]
          /\ error' = "failed" /\ task' = Intent!Idle /\ deadline' = deadline
      BY <1>1 DEF Intent!Fails
    <2>2. pending["charging"] \in Intent!Control \cup {None} /\ "charging" \in Intent!Keys
      BY DEF Intent!TypeOK, Intent!Keys
    <2>3. /\ pending' \in [Intent!Keys -> Intent!Control \cup {None}] /\
                 pending'["charging"] = pending["charging"]
          /\ \A k \in Intent!Keys : pending'[k] \in {None, pending[k]}
      BY <2>1, <2>2, Shapes
    <2> QED
      BY <2>1, <2>3 DEF Quits
  <1>2. CASE ~Intent!Stop(pending["charging"])
    BY <1>2, DiscardQuits DEF Intent!Fails
  <1> QED
    BY <1>1, <1>2

\* A success leaves what is pending.
LEMMA SucceedsQuits ==
  ASSUME Intent!TypeOK, Intent!Succeeds
  PROVE  Quits /\ pending' = pending
  BY DEF Intent!Succeeds, Quits, Intent!TypeOK

\* So does a recovery that newer choices end.
LEMMA GivesWayQuits ==
  ASSUME Intent!IntentConstants, Intent!TypeOK, Intent!GivesWay
  PROVE  /\ Quits
         /\ Intent!Stop(pending["charging"]) => pending'["charging"] = pending["charging"]
  <1>1. CASE Intent!Pending
    BY <1>1 DEF Intent!GivesWay, Quits, Intent!TypeOK
  <1>2. CASE ~Intent!Pending
    BY <1>2, FailsQuits DEF Intent!GivesWay
  <1> QED
    BY <1>1, <1>2

\* The next control is one that is pending, and a pending Stop before all others.
LEMMA NextIsPending ==
  ASSUME Intent!Pending
  PROVE  /\ Intent!NextKey \in Intent!Keys /\ pending[Intent!NextKey] # None
         /\ Intent!Stop(pending["charging"]) => Intent!NextKey = "charging"
  <1>1. ASSUME NEW order, order[1] \in Intent!Keys, order[2] \in Intent!Keys,
               order[3] \in Intent!Keys,
               Intent!Keys = {order[1], order[2], order[3]}
        PROVE  Intent!First(order) \in Intent!Keys /\ pending[Intent!First(order)] # None
    <2> DEFINE P(i) == /\ pending[order[i]] # None
                       /\ \A j \in 1..(i - 1) : pending[order[j]] = None
    <2>1. \E i \in 1..3 : P(i)
      <3>1. CASE pending[order[1]] # None
        BY <3>1
      <3>2. CASE pending[order[1]] = None /\ pending[order[2]] # None
        <4>1. \A j \in 1..(2 - 1) : j = 1
          OBVIOUS
        <4> QED
          BY <3>2, <4>1
      <3>3. CASE pending[order[1]] = None /\ pending[order[2]] = None
        <4>1. pending[order[3]] # None
          BY <1>1, <3>3 DEF Intent!Pending
        <4>2. \A j \in 1..(3 - 1) : j = 1 \/ j = 2
          OBVIOUS
        <4> QED
          BY <3>3, <4>1, <4>2
      <3> QED
        BY <3>1, <3>2, <3>3
    <2> DEFINE i == CHOOSE i \in 1..3 : P(i)
    <2>2. i \in 1..3 /\ P(i)
      BY <2>1, Zenon
    <2>3. Intent!First(order) = order[i]
      BY DEF Intent!First
    <2> HIDE DEF i
    <2>4. i = 1 \/ i = 2 \/ i = 3
      <3>1. i \in 1..3
        BY <2>2
      <3> QED
        BY <3>1
    <2> USE DEF i
    <2> QED
      BY <1>1, <2>2, <2>3, <2>4
  <1>2. /\ Intent!First(Intent!Order) \in Intent!Keys /\ pending[Intent!First(Intent!Order)] # None
        /\ Intent!First(Intent!LocalOrder) \in Intent!Keys /\
               pending[Intent!First(Intent!LocalOrder)] # None
    BY <1>1 DEF Intent!Order, Intent!LocalOrder, Intent!Keys
  <1> QED
    BY <1>2 DEF Intent!NextKey, Intent!Stop, Intent!Keys

-----------------------------------------------------------------------------
(* The kinds of step, and what each keeps *)

\* The task is rid of its control: what it may have done is written down.
LEMMA QuitKeeps ==
  ASSUME Intent!IntentConstants, IntentInv, Quits, UNCHANGED <<version, newest, preparing,
         unloaded>>,
         sent' = sent \/ (Intent!Executing /\ Intent!CarriedOut), path'.epoch \in Nat,
         Intent!Executing \/ path' = path
  PROVE  ShapeInv' /\ NumberInv' /\ SentInv' /\ AgainInv' /\ MovingInv'
  <1>1. /\ task'.at \in {"none", "waiting"} /\ task'.control = None /\ task'.version = 0
        /\ task'.epoch = 0 /\ ~Intent!Executing' /\ version \in Nat
    BY Shapes DEF Quits, Intent!Executing, IntentInv, Intent!TypeOK, Intent!IntentConstants
  <1>2. ShapeInv'
    BY <1>1 DEF ShapeInv, IntentInv, Quits
  <1>3. NumberInv'
    BY <1>1 DEF NumberInv, IntentInv, Quits
  <1>4. \A n \in Intent!Numbers : sent'[n] = sent[n] \/ (Intent!Executing /\ n = task.control.n)
    BY DEF Intent!CarriedOut, IntentInv, Intent!TypeOK
  <1>5. \A k \in Intent!Keys : pending'[k] # None =>
            pending'[k] = pending[k] /\ pending[k].n \in Intent!Numbers
    BY DEF Quits, IntentInv, Intent!TypeOK, Intent!Control
  <1>6. \A n \in Intent!Numbers : n > version' => sent'[n] = << >>
    BY <1>1, <1>4 DEF IntentInv, SentInv, NumberInv, Intent!Numbers
  <1>7. \A k \in Intent!Keys : pending'[k] # None => sent'[pending'[k].n] = << >>
    BY <1>4, <1>5 DEF IntentInv, SentInv, NumberInv
  <1>8. SentInv' /\ AgainInv'
    BY <1>1, <1>6, <1>7 DEF SentInv, AgainInv
  <1>9. MovingInv'
    BY <1>1 DEF MovingInv, IntentInv, ShapeInv
  <1> QED
    BY <1>2, <1>3, <1>8, <1>9

\* The task goes on: a Start or Stop may have been carried out over the cloud.
LEMMA GoOnKeeps ==
  ASSUME Intent!IntentConstants, IntentInv, Intent!Executing, NEW at, GoesOn(at),
         at \notin {"none", "waiting", "operation"},
         UNCHANGED <<version, newest, preparing, unloaded>>,
         \/ sent' = sent
         \/ Intent!CarriedOut /\ Intent!Here = "cloud" /\ task.at = "operation" /\
                task.control.key = "charging",
         Turned,
         AgainInv'
  PROVE  ShapeInv' /\ NumberInv' /\ SentInv' /\ AgainInv'
  <1>1. /\ task'.at = at /\ task'.control = task.control /\ task'.version = task.version
        /\ task'.epoch \in {task.epoch, path.epoch} /\ pending' = pending
    BY DEF GoesOn, IntentInv, Intent!TypeOK
  <1>2. task.control \in Intent!Control /\ task.control # None /\ task.control.n \in Intent!Numbers
    BY DEF IntentInv, Intent!TypeOK, Intent!Executing, Intent!Control
  <1>3. ShapeInv'
    BY <1>1, <1>2 DEF IntentInv, ShapeInv, Intent!Executing, Turned, Intent!TypeOK
  <1>4. NumberInv'
    BY <1>1 DEF IntentInv, NumberInv, Intent!Executing
  <1>5. \A n \in Intent!Numbers : n # task.control.n => sent'[n] = sent[n]
    BY DEF Intent!CarriedOut, IntentInv, Intent!TypeOK
  <1>6. \/ sent'[task.control.n] = << >>
        \/ sent'[task.control.n] = <<"cloud">> /\ task.control.key = "charging"
    <2>1. CASE sent' = sent
      BY <2>1 DEF IntentInv, SentInv
    <2>2. CASE Intent!CarriedOut /\ Intent!Here = "cloud" /\ task.at = "operation" /\
                   task.control.key = "charging"
      <3>1. sent'[task.control.n] = Append(sent[task.control.n], "cloud")
        BY <1>2, <2>2 DEF Intent!CarriedOut, IntentInv, Intent!TypeOK
      <3>2. sent[task.control.n] = << >>
        BY <2>2 DEF IntentInv, SentInv
      <3> QED
        BY <2>2, <3>1, <3>2
    <2> QED
      BY <2>1, <2>2
  <1>7. \A n \in Intent!Numbers : n > version' => sent'[n] = << >>
    BY <1>2, <1>5 DEF IntentInv, SentInv, NumberInv, Intent!Numbers, Intent!TypeOK,
       Intent!IntentConstants
  <1>8. \A k \in Intent!Keys : pending'[k] # None => sent'[pending'[k].n] = << >>
    <2>1. \A k \in Intent!Keys : pending[k] # None =>
              pending[k].n \in Intent!Numbers /\ pending[k].n # task.control.n
      BY DEF IntentInv, Intent!TypeOK, Intent!Control, NumberInv
    <2> QED
      BY <1>1, <1>5, <2>1 DEF IntentInv, SentInv
  <1>9. SentInv'
    BY <1>1, <1>6, <1>7, <1>8 DEF SentInv
  <1> QED
    BY <1>3, <1>4, <1>9

\* The controls stay as they are, or those that are pending are discarded while no
\* control is carried out.
LEMMA AsideKeeps ==
  ASSUME Intent!IntentConstants, IntentInv, UNCHANGED <<version, newest, task, sent>>, Turned,
         \/ UNCHANGED <<pending, preparing, unloaded>>
         \/ /\ \A k \in Intent!Keys : pending'[k] \in {None, pending[k]}
            /\ unloaded' = unloaded /\ ~Intent!Executing
         \/ /\ \A k \in Intent!Keys : pending'[k] = None
            /\ unloaded' # "no" /\ preparing' = preparing
  PROVE  ShapeInv' /\ NumberInv' /\ SentInv' /\ AgainInv'
  <1>1. \A k \in Intent!Keys : pending'[k] # None => pending'[k] = pending[k]
    OBVIOUS
  <1>2. ShapeInv'
    BY DEF IntentInv, ShapeInv, Intent!Executing, Turned, Intent!TypeOK
  <1>3. NumberInv'
    BY <1>1 DEF IntentInv, NumberInv, Intent!Executing
  <1>4. SentInv'
    BY <1>1 DEF IntentInv, SentInv, Intent!Executing
  <1>5. AgainInv'
    BY DEF IntentInv, AgainInv, Turned, ShapeInv, Intent!TypeOK
  <1> QED
    BY <1>2, <1>3, <1>4, <1>5

\* A choice of the user: it is newer than all others.
LEMMA ChoiceKeeps ==
  ASSUME Intent!IntentConstants, IntentInv, NEW c \in Intent!Chosen, Intent!Keep(c),
         version < MaxChoices,
         unloaded = "no", UNCHANGED <<path, unloaded, sent>>,
         preparing' = preparing \/ (~Intent!Given /\ preparing'.at = "read")
  PROVE  ShapeInv' /\ NumberInv' /\ SentInv' /\ AgainInv' /\ MovingInv'
  <1>1. CASE Intent!Known(c)
    BY <1>1 DEF Intent!Keep, IntentInv, ShapeInv, NumberInv, SentInv, AgainInv, MovingInv,
           Intent!Executing, Intent!Given
  <1>2. CASE ~Intent!Known(c)
    <2>1. /\ pending' = [pending EXCEPT ![c.key] = c] /\ version' = c.n
          /\ newest' = [newest EXCEPT ![c.key] = c.n]
          /\ task' = IF task.at = "none" THEN [Intent!NoTask EXCEPT !.at = "waiting"] ELSE task
      BY <1>2 DEF Intent!Keep
    <2>2. /\ version \in Nat /\ c \in Intent!Control /\ c.n = version + 1 /\
                 c.key \in Intent!Keys /\ c.n \in Intent!Numbers
          /\ c # None
      BY DEF Intent!Chosen, Intent!IntentConstants, Intent!Control, Intent!Numbers, IntentInv,
         Intent!TypeOK
    <2>3. /\ \A k \in Intent!Keys : pending'[k] = IF k = c.key THEN c ELSE pending[k]
          /\ \A k \in Intent!Keys : newest'[k] = IF k = c.key THEN version + 1 ELSE newest[k]
          /\ \A k \in Intent!Keys : newest[k] \in Nat
      BY <2>1, <2>2 DEF IntentInv, Intent!TypeOK
    <2>4. /\ task' = task \/ (task.at = "none" /\ task'.at = "waiting" /\ task'.control = None
                              /\ task'.version = 0 /\ task'.epoch = 0)
      BY <2>1 DEF Intent!NoTask
    <2>5. task'.control = task.control /\ task'.version \in 0..version /\ task'.epoch <= path.epoch
      BY <2>2, <2>4 DEF IntentInv, ShapeInv, Intent!TypeOK
    <2>6. ShapeInv'
      BY <2>1, <2>2, <2>4, <2>5 DEF IntentInv, ShapeInv, Intent!Executing, Intent!Given
    <2>7. NumberInv'
      <3>1. \A k \in Intent!Keys : newest'[k] <= version'
        BY <2>1, <2>2, <2>3 DEF IntentInv, NumberInv
      <3>2. \A j, k \in Intent!Keys : j # k /\ newest'[j] = newest'[k] => newest'[j] = 0
        BY <2>2, <2>3 DEF IntentInv, NumberInv
      <3>3. \A k \in Intent!Keys : pending'[k] # None => pending'[k].n = newest'[k]
        BY <2>2, <2>3 DEF IntentInv, NumberInv
      <3>4. ASSUME Intent!Executing'
            PROVE  /\ task'.control.n <= version'
                   /\ \A k \in Intent!Keys : pending'[k] # None => pending'[k].n # task'.control.n
                   /\ task'.version # version'
                   /\ \/ newest'[task'.control.key] = task'.control.n
                      \/ pending'[task'.control.key] # None
        <4>1. Intent!Executing /\ task' = task /\ task.control \in Intent!Control /\
                  task.control.key \in Intent!Keys
              /\ task.control.n \in Nat
          BY <2>4, <3>4 DEF Intent!Executing, IntentInv, ShapeInv, Intent!TypeOK, Intent!Control,
             Intent!Numbers
        <4> QED
          BY <2>1, <2>2, <2>3, <2>5, <4>1 DEF IntentInv, NumberInv
      <3> QED
        BY <3>1, <3>2, <3>3, <3>4 DEF NumberInv
    <2>8. SentInv'
      <3>1. \A n \in Intent!Numbers : n > version' => sent'[n] = << >>
        BY <2>1, <2>2 DEF IntentInv, SentInv, Intent!Numbers
      <3>2. \A k \in Intent!Keys : pending'[k] # None => sent'[pending'[k].n] = << >>
        BY <2>2, <2>3 DEF IntentInv, SentInv
      <3> QED
        BY <2>4, <2>5, <3>1, <3>2 DEF IntentInv, SentInv, Intent!Executing
    <2>9. AgainInv'
      BY <2>4 DEF IntentInv, AgainInv
    <2>10. MovingInv'
      BY <2>4 DEF IntentInv, MovingInv
    <2> QED
      BY <2>6, <2>7, <2>8, <2>9, <2>10
  <1> QED
    BY <1>1, <1>2

\* A control leaves the pending ones.
LEMMA ExecuteKeeps ==
  ASSUME Intent!IntentConstants, IntentInv, Intent!Execute
  PROVE  /\ ShapeInv' /\ NumberInv' /\ SentInv' /\ AgainInv' /\ MovingInv'
         /\ task'.control = pending[Intent!NextKey] /\ newest'[task'.control.key] = task'.control.n
         /\ pending' = [pending EXCEPT ![Intent!NextKey] = None] /\ Intent!NextKey \in Intent!Keys
         /\ Intent!Stop(pending["charging"]) => Intent!NextKey = "charging"
  <1> DEFINE k0 == Intent!NextKey
  <1>1. k0 \in Intent!Keys /\ pending[k0] # None /\
            (Intent!Stop(pending["charging"]) => k0 = "charging")
    BY NextIsPending DEF Intent!Execute
  <1>2. /\ pending' = [pending EXCEPT ![k0] = None]
        /\ task' = [at |-> "operation", control |-> pending[k0], version |-> version,
                    epoch |-> path.epoch]
        /\ UNCHANGED <<version, newest, preparing, path, unloaded, sent>>
        /\ preparing.at = "none" /\ unloaded = "no" /\ task.control = None
    BY DEF Intent!Execute, Intent!TaskWaits, Intent!Ready, Intent!Blackout, IntentInv, ShapeInv
  <1> HIDE DEF k0
  <1>3. /\ pending[k0] \in Intent!Control /\ pending[k0].key = k0 /\ pending[k0].n = newest[k0]
        /\ pending[k0].n \in Intent!Numbers /\ newest[k0] \in Nat /\ version \in Nat
    BY <1>1 DEF IntentInv, Intent!TypeOK, NumberInv, Intent!Control
  <1>4. \A k \in Intent!Keys : pending'[k] = IF k = k0 THEN None ELSE pending[k]
    BY <1>1, <1>2 DEF IntentInv, Intent!TypeOK
  <1>5. ShapeInv'
    BY <1>1, <1>2, <1>3 DEF ShapeInv, IntentInv, Intent!TypeOK
  <1>6. NumberInv'
    <2>1. \A k \in Intent!Keys : pending'[k] # None => pending'[k].n # pending[k0].n
      BY <1>1, <1>3, <1>4 DEF IntentInv, NumberInv, Intent!Numbers
    <2> QED
      BY <1>1, <1>2, <1>3, <1>4, <2>1 DEF IntentInv, NumberInv
  <1>7. SentInv'
    BY <1>1, <1>2, <1>4 DEF IntentInv, SentInv
  <1>8. AgainInv' /\ MovingInv'
    BY <1>2 DEF AgainInv, MovingInv
  <1> QED
    BY <1>1, <1>2, <1>3, <1>5, <1>6, <1>7, <1>8 DEF k0

\* A Start that certainly was not carried out may become pending again.
LEMMA RetainKeeps ==
  ASSUME Intent!IntentConstants, IntentInv, task.at = "operation", Intent!Pending,
         pending' = Intent!Retained, task' = Intent!Idle, UNCHANGED <<version, newest, preparing,
         path, unloaded, sent>>
  PROVE  /\ ShapeInv' /\ NumberInv' /\ SentInv' /\ AgainInv' /\ MovingInv'
         /\ pending["charging"] # None => pending' = pending
  <1>1. /\ task'.at = "waiting" /\ task'.control = None /\ task'.version = 0 /\ task'.epoch = 0
    BY Shapes DEF IntentInv
  <1>2. task.control # None /\ task.control \in Intent!Control /\ unloaded = "no"
    BY DEF IntentInv, ShapeInv, Intent!TypeOK, Intent!Pending
  <1>3. \/ pending' = pending
        \/ /\ pending' = [pending EXCEPT !["charging"] = task.control]
           /\ task.control.key = "charging" /\ pending["charging"] = None
    BY DEF Intent!Retained, Intent!Start
  <1>4. CASE pending' = pending
    BY <1>1, <1>4 DEF IntentInv, ShapeInv, NumberInv, SentInv, AgainInv, MovingInv,
       Intent!Executing, Intent!TypeOK
  <1>5. CASE /\ pending' = [pending EXCEPT !["charging"] = task.control]
             /\ task.control.key = "charging" /\ pending["charging"] = None
    <2>1. newest["charging"] = task.control.n /\ sent[task.control.n] = << >>
      BY <1>2, <1>5 DEF IntentInv, NumberInv, SentInv, Intent!Executing
    <2>2. \A k \in Intent!Keys : pending'[k] = IF k = "charging" THEN task.control ELSE pending[k]
      BY <1>5 DEF IntentInv, Intent!TypeOK
    <2>3. ShapeInv'
      BY <1>1, <1>2 DEF IntentInv, ShapeInv, Intent!TypeOK, Intent!Executing
    <2>4. NumberInv' /\ SentInv' /\ AgainInv' /\ MovingInv'
      BY <1>1, <2>1, <2>2 DEF IntentInv, NumberInv, SentInv, AgainInv, MovingInv, Intent!Executing
    <2> QED
      BY <1>5, <2>3, <2>4
  <1> QED
    BY <1>3, <1>4, <1>5

-----------------------------------------------------------------------------
(* The steps of the task *)

\* The control may be carried out where the policy lets it.
Carries == task.at \in {"operation", "again"} /\ Intent!Unfenced /\ Intent!CarriedOut

\* A pending Stop stays, or ends with its batch.
StopStays ==
    Intent!Stop(pending["charging"]) =>
        pending'["charging"] = pending["charging"] \/ deadline = "over"

\* The ways a step of the task may end.
GivesUp == Quits /\ StopStays /\ (sent' = sent \/ Carries) /\ (Intent!Executing \/ path' = path)
Returns == /\ task.at = "operation" /\ Intent!Pending
           /\ pending' = Intent!Retained /\ task' = Intent!Idle /\ UNCHANGED <<path, deadline,
              error, sent>>
Proceeds(at) ==
    /\ GoesOn(at) /\ Intent!Executing /\ at \in Intent!Steps \ {"none", "waiting", "operation"}
    /\ \/ sent' = sent
       \/ Carries /\ Intent!Here = "cloud" /\ task.at = "operation" /\ task.control.key = "charging"
    /\ at = "again" /\ task.at # "again" => task.version = version
    /\ AgainInv' /\ MovingInv'

Ways ==
    /\ UNCHANGED <<version, newest, preparing, unloaded>> /\ Turned
    /\ able' = able /\ rests' \in BOOLEAN /\ moves' = moves
    /\ Intent!Execute \/ GivesUp \/ Returns \/ \E at : Proceeds(at)

\* The route stays, departs or arrives.
LEMMA SameRoute ==
  ASSUME Intent!TypeOK, path' = path
  PROVE  Turned
  BY DEF Intent!TypeOK, Turned

LEMMA DepartTurns ==
  ASSUME Intent!TypeOK, Intent!Depart
  PROVE  Turned /\ path'.moving
  <1>1. /\ path' = [path EXCEPT !.moving = TRUE, !.fresh = FALSE, !.epoch = path.epoch + 1]
        /\ path \in RouteRecords
    BY DEF Intent!Depart, Intent!TypeOK
  <1>2. path.epoch + 1 \in Nat
    BY <1>1
  <1>3. /\ path' \in RouteRecords
        /\ path'.epoch = path.epoch + 1 /\ path'.moving
    BY <1>1, <1>2
  <1> QED
    BY <1>3 DEF Turned

LEMMA ArriveTurns ==
  ASSUME Intent!TypeOK, path.moving, NEW local \in BOOLEAN, Intent!Arrive(local)
  PROVE  Turned
  BY DEF Intent!TypeOK, Intent!Arrive, Turned

\* The ends that leave a pending Stop alone.
LEMMA GiveUp ==
  ASSUME Intent!IntentConstants, IntentInv, Intent!Executing,
         Intent!Fails \/ Intent!Succeeds \/ Intent!GivesWay, sent' = sent \/ Carries
  PROVE  GivesUp
  BY FailsQuits, SucceedsQuits, GivesWayQuits DEF GivesUp, StopStays, IntentInv

\* Recovering begins on the route the control was lost on.
LEMMA RecoverProceeds ==
  ASSUME Intent!IntentConstants, IntentInv, Intent!Executing, NEW at \in {"reconcile", "queued"},
         Intent!Recover(at),
         UNCHANGED <<preparing, path>>,
         \/ sent' = sent
         \/ Carries /\ Intent!Here = "cloud" /\ task.at = "operation" /\
                task.control.key = "charging"
  PROVE  Proceeds(at)
  <1>1. GoesOn(at) /\ at \in Intent!Steps \ {"none", "waiting", "operation"} /\ at # "again"
    BY DEF Intent!Recover, GoesOn, Intent!Steps
  <1>2. task'.at = at
    BY <1>1 DEF GoesOn, IntentInv, Intent!TypeOK
  <1>3. AgainInv' /\ MovingInv'
    BY <1>2 DEF AgainInv, MovingInv, IntentInv
  <1> QED
    BY <1>1, <1>3 DEF Proceeds

\* The task waits for something to be pending.
LEMMA QueueWays ==
  ASSUME Intent!IntentConstants, IntentInv, Intent!Expire \/ Intent!Execute \/ Intent!RunEnds
  PROVE  Ways
  <1>1. /\ UNCHANGED <<version, newest, preparing, path, able, rests, unloaded, moves>>
    BY DEF Intent!Expire, Intent!Execute, Intent!RunEnds
  <1>2. Turned /\ rests' \in BOOLEAN
    BY <1>1, SameRoute DEF IntentInv, Intent!TypeOK
  <1>3. CASE Intent!Expire
    BY <1>1, <1>2, <1>3, DiscardQuits DEF Ways, Intent!Expire, GivesUp, StopStays, IntentInv
  <1>4. CASE Intent!Execute
    BY <1>1, <1>2, <1>4 DEF Ways
  <1>5. CASE Intent!RunEnds
    <2>1. Quits /\ pending' = pending /\ sent' = sent
      BY <1>5 DEF Intent!RunEnds, Quits, IntentInv, Intent!TypeOK
    <2> QED
      BY <1>1, <1>2, <2>1 DEF Ways, GivesUp, StopStays
  <1> QED
    BY <1>3, <1>4, <1>5

\* The control has been tried.
LEMMA AttemptWays ==
  ASSUME Intent!IntentConstants, IntentInv,
         Intent!Superseded \/ Intent!SupersededAgain \/ Intent!Completed \/ Intent!Failed \/
             Intent!Unsent \/ Intent!Uncertain
  PROVE  Ways
  <1>1. /\ UNCHANGED <<version, newest, preparing, path, able, rests, unloaded, moves>>
        /\ task.at \in {"operation", "again"}
    BY DEF Intent!Superseded, Intent!SupersededAgain, Intent!Completed, Intent!Failed,
       Intent!Unsent, Intent!Uncertain
  <1>2. Turned /\ rests' \in BOOLEAN /\ Intent!Executing
    BY <1>1, SameRoute DEF IntentInv, Intent!TypeOK, ShapeInv, Intent!Executing
  <1>3. ASSUME Intent!Fails \/ Intent!Succeeds \/ Intent!GivesWay,
               sent' = sent \/ Carries PROVE Ways
    BY <1>1, <1>2, <1>3, GiveUp DEF Ways
  <1>4. ASSUME NEW at \in {"reconcile", "queued"}, Intent!Recover(at),
               \/ sent' = sent
               \/ Carries /\ Intent!Here = "cloud" /\ task.at = "operation" /\
                      task.control.key = "charging"
        PROVE  Ways
    BY <1>1, <1>2, <1>4, RecoverProceeds DEF Ways
  <1>5. CASE Intent!Superseded
    <2>1. CASE Returns
      BY <1>1, <1>2, <2>1 DEF Ways
    <2>2. CASE Intent!Fails /\ sent' = sent
      BY <1>3, <2>2
    <2> QED
      BY <1>5, <2>1, <2>2 DEF Intent!Superseded, Returns
  <1>6. CASE Intent!SupersededAgain
    BY <1>3, <1>6 DEF Intent!SupersededAgain
  <1>7. CASE Intent!Completed
    BY <1>3, <1>7 DEF Intent!Completed, Carries
  <1>8. CASE Intent!Failed
    BY <1>3, <1>8 DEF Intent!Failed, Carries, Intent!MayBeDone
  <1>9. CASE Intent!Unsent
    BY <1>3, <1>4, <1>9 DEF Intent!Unsent
  <1>10. CASE Intent!Uncertain
    <2>1. sent' = sent \/ (Carries /\ Intent!Here = "cloud" /\ task.at = "operation" /\
                           task.control.key = "charging")
      BY <1>10 DEF Intent!Uncertain, Intent!MayBeDone, Carries, Intent!Here
    <2> QED
      BY <1>3, <1>4, <1>10, <2>1 DEF Intent!Uncertain
  <1> QED
    BY <1>5, <1>6, <1>7, <1>8, <1>9, <1>10

\* The recovery of a control that was lost.
LEMMA RecoveryWays ==
  ASSUME Intent!IntentConstants, IntentInv,
         Intent!Reconcile \/ Intent!Moves \/ Intent!Moved \/ Intent!Refreshed \/ Intent!Status
  PROVE  Ways
  <1>1. /\ UNCHANGED <<version, newest, preparing, able, unloaded, sent, moves>>
        /\ task.at \in {"reconcile", "queued", "moving", "refresh", "status"}
    BY DEF Intent!Reconcile, Intent!Moves, Intent!Moved, Intent!Refreshed, Intent!Status
  <1>2. Intent!Executing
    BY <1>1 DEF IntentInv, ShapeInv, Intent!Executing
  <1>0. task \in TaskRecords
        /\ path \in RouteRecords
        /\ rests \in BOOLEAN /\ task.epoch <= path.epoch
    BY DEF IntentInv, Intent!TypeOK, ShapeInv
  <1>3. ASSUME Intent!Fails \/ Intent!Succeeds \/ Intent!GivesWay, Turned,
               rests' \in BOOLEAN PROVE Ways
    BY <1>1, <1>2, <1>3, GiveUp DEF Ways
  <1>4. ASSUME NEW at \in Intent!Steps \ {"none", "waiting", "operation"}, GoesOn(at), Turned,
               AgainInv',
               at = "moving" => path'.moving, rests' \in BOOLEAN, at = "again" =>
                   task.version = version
        PROVE  Ways
    <2>1. task'.at = at /\ preparing' = preparing /\ preparing.at = "none"
      BY <1>1, <1>2, <1>4, <1>0 DEF GoesOn, IntentInv, ShapeInv
    <2>2. MovingInv'
      BY <1>4, <2>1 DEF MovingInv
    <2>3. Proceeds(at)
      BY <1>1, <1>2, <1>4, <2>2 DEF Proceeds
    <2> QED
      BY <1>1, <1>4, <2>3 DEF Ways
  <1>5. CASE Intent!Reconcile
    <2>1. Turned /\ rests' = rests /\ path' = path
      BY <1>5, SameRoute DEF Intent!Reconcile, IntentInv
    <2>2. ASSUME Intent!Recover("queued") PROVE Ways
      <3>1. Proceeds("queued")
        BY <1>1, <1>2, <2>1, <2>2, RecoverProceeds
      <3> QED
        BY <1>1, <1>0, <2>1, <3>1 DEF Ways
    <2> QED
      BY <1>3, <1>5, <1>0, <2>1, <2>2 DEF Intent!Reconcile
  <1>6. CASE Intent!Moves
    <2>1. CASE rests' = TRUE /\ Intent!Depart /\ task' = [task EXCEPT !.at = "moving"]
               /\ UNCHANGED <<pending, deadline, error>>
      <3>5. GoesOn("moving") /\ task'.at = "moving"
        BY <1>0, <2>1 DEF GoesOn
      <3>1. Turned /\ GoesOn("moving") /\ task'.at = "moving" /\ path'.moving
        BY <2>1, <3>5, DepartTurns DEF IntentInv
      <3>2. AgainInv'
        BY <3>1 DEF AgainInv
      <3> QED
        BY <1>4, <2>1, <3>1, <3>2 DEF Intent!Steps
    <2>2. CASE Intent!GivesWay /\ UNCHANGED <<path, rests>>
      BY <1>3, <1>0, <2>2, SameRoute DEF IntentInv
    <2> QED
      BY <1>6, <2>1, <2>2 DEF Intent!Moves
  <1>7. CASE Intent!Moved
    <2>0. path.moving /\ rests' = rests
      BY <1>7, <1>0 DEF Intent!Moved, IntentInv, MovingInv
    <2>1. ASSUME NEW local \in BOOLEAN, Intent!Arrive(local) PROVE Turned
      BY <2>0, <2>1, ArriveTurns DEF IntentInv
    <2>2. CASE /\ Intent!Arrive(TRUE) /\ task' = [task EXCEPT !.at = "refresh",
                                                  !.epoch = path.epoch]
               /\ UNCHANGED <<pending, deadline, error>>
      <3>1. GoesOn("refresh") /\ task'.at = "refresh"
        BY <1>0, <2>2 DEF GoesOn
      <3>2. AgainInv'
        BY <3>1 DEF AgainInv
      <3> QED
        BY <1>4, <1>0, <2>0, <2>1, <2>2, <3>1, <3>2 DEF Intent!Steps
    <2> QED
      BY <1>3, <1>7, <1>0, <2>0, <2>1, <2>2 DEF Intent!Moved
  <1>8. CASE Intent!Refreshed
    <2>1. rests' \in BOOLEAN
      BY <1>8, <1>0 DEF Intent!Refreshed
    <2>2. CASE Intent!GivesWay /\ UNCHANGED path
      BY <1>3, <2>1, <2>2, SameRoute DEF IntentInv
    <2>3. CASE /\ Intent!Current /\ \E fresh \in BOOLEAN : path' = [path EXCEPT !.fresh = fresh]
               /\ IF path'.fresh /\ path.local
                  THEN task' = [task EXCEPT !.at = "status"] /\ UNCHANGED <<pending, deadline,
                  error>>
                  ELSE Intent!Fails
      <3>1. Turned /\ path'.local = path.local /\ path'.moving = path.moving /\ ~path.moving
        BY <1>0, <2>3 DEF Turned, Intent!Current
      <3>2. CASE Intent!Fails
        BY <1>3, <2>1, <3>1, <3>2
      <3>3. CASE path.local /\ task' = [task EXCEPT !.at = "status"] /\ UNCHANGED <<pending,
                 deadline, error>>
        <4>1. GoesOn("status") /\ AgainInv'
          BY <3>1, <3>3 DEF GoesOn, AgainInv
        <4> QED
          BY <1>4, <2>1, <3>1, <4>1 DEF Intent!Steps
      <3> QED
        BY <2>3, <3>2, <3>3
    <2> QED
      BY <1>8, <2>2, <2>3 DEF Intent!Refreshed
  <1>9. CASE Intent!Status
    <2>1. Turned /\ rests' \in BOOLEAN
      BY <1>9, <1>0, SameRoute DEF Intent!Status, IntentInv
    <2>2. CASE Intent!Current /\ task' = [task EXCEPT !.at = "again"] /\ UNCHANGED <<pending,
               deadline, error>>
      <3>1. GoesOn("again") /\ task.version = version
        BY <2>2 DEF GoesOn, Intent!Current
      <3>2. AgainInv'
        BY <1>9, <1>0, <2>2 DEF Intent!Status, IntentInv, AgainInv
      <3> QED
        BY <1>4, <2>1, <3>1, <3>2 DEF Intent!Steps
    <2> QED
      BY <1>3, <1>9, <2>1, <2>2 DEF Intent!Status
  <1> QED
    BY <1>5, <1>6, <1>7, <1>8, <1>9

\* Whatever the task does is one of these.
LEMMA TaskWays ==
  ASSUME Intent!IntentConstants, IntentInv, Intent!TaskStep
  PROVE  Ways
  BY QueueWays, AttemptWays, RecoveryWays DEF Intent!TaskStep

\* A command is written down on a route that there is.
LEMMA CarriedOutTypes ==
  ASSUME Intent!TypeOK, Intent!Executing, Intent!CarriedOut
  PROVE  sent' \in [Intent!Numbers -> Seq({"cloud", "tcp"})]
  <1>1. task.control.n \in Intent!Numbers /\ sent[task.control.n] \in Seq({"cloud", "tcp"})
    BY DEF Intent!TypeOK, Intent!Executing, Intent!Control
  <1>2. Append(sent[task.control.n], Intent!Here) \in Seq({"cloud", "tcp"})
    BY <1>1 DEF Intent!Here
  <1> QED
    BY <1>2 DEF Intent!TypeOK, Intent!CarriedOut

LEMMA GoesOnTypes ==
  ASSUME Intent!TypeOK, NEW at \in Intent!Steps, GoesOn(at)
  PROVE  task' \in TaskRecords
  <1>1. /\ task \in TaskRecords
        /\ path.epoch \in Nat
    BY DEF Intent!TypeOK
  <1> QED
    BY <1>1 DEF GoesOn

\* Whatever the task does keeps the types of the variables.
LEMMA TaskTypes ==
  ASSUME Intent!IntentConstants, IntentInv, Ways
  PROVE  Intent!TypeOK'
  <1>1. Intent!TypeOK
    BY DEF IntentInv
  <1>2. /\ version' = version /\ newest' = newest /\ preparing' = preparing /\ able' = able
        /\ rests' \in BOOLEAN /\ unloaded' = unloaded /\ moves' = moves
        /\ path' \in RouteRecords
    BY DEF Ways, Turned
  <1>3. task.at \in {"operation", "again"} => Intent!Executing
    BY DEF IntentInv, ShapeInv, Intent!Executing
  <1>4. ASSUME /\ pending' \in [Intent!Keys -> Intent!Control \cup {None}]
               /\ \A k \in Intent!Keys : pending'[k] # None => pending'[k].key = k,
               deadline' \in {"none", "running", "over"},
               error' \in {"none", "expired", "failed", "handover"},
               task' \in TaskRecords,
               sent' = sent \/ (Intent!Executing /\ Intent!CarriedOut)
        PROVE  Intent!TypeOK'
    <2>1. sent' \in [Intent!Numbers -> Seq({"cloud", "tcp"})]
      BY <1>1, <1>4, CarriedOutTypes DEF Intent!TypeOK
    <2> QED
      BY <1>1, <1>2, <1>4, <2>1 DEF Intent!TypeOK
  <1>5. CASE Intent!Execute
    <2>1. /\ pending' = [pending EXCEPT ![Intent!NextKey] = None] /\ Intent!NextKey \in Intent!Keys
      BY <1>5, ExecuteKeeps
    <2>2. /\ task' = [at |-> "operation", control |-> pending[Intent!NextKey], version |-> version,
                      epoch |-> path.epoch]
          /\ sent' = sent /\ deadline' = deadline /\ error' = error
      BY <1>5 DEF Intent!Execute
    <2>3. task' \in TaskRecords
      BY <1>1, <2>1, <2>2 DEF Intent!TypeOK, Intent!Steps
    <2>4. /\ pending' \in [Intent!Keys -> Intent!Control \cup {None}]
          /\ \A k \in Intent!Keys : pending'[k] # None => pending'[k].key = k
      BY <1>1, <2>1 DEF Intent!TypeOK
    <2> QED
      BY <1>1, <1>4, <2>2, <2>3, <2>4 DEF Intent!TypeOK
  <1>6. CASE GivesUp
    <2>1. task' \in TaskRecords
      BY <1>1, <1>6, Shapes DEF GivesUp, Quits
    <2>2. /\ pending' \in [Intent!Keys -> Intent!Control \cup {None}]
          /\ \A k \in Intent!Keys : pending'[k] # None => pending'[k].key = k
      BY <1>1, <1>6 DEF GivesUp, Quits, Intent!TypeOK
    <2>3. /\ deadline' \in {"none", "running", "over"}
          /\ error' \in {"none", "expired", "failed", "handover"}
          /\ sent' = sent \/ (Intent!Executing /\ Intent!CarriedOut)
      BY <1>1, <1>3, <1>6 DEF GivesUp, Quits, Intent!TypeOK, Carries
    <2> QED
      BY <1>4, <2>1, <2>2, <2>3
  <1>7. CASE Returns
    <2>1. task' \in TaskRecords
      BY <1>1, <1>7, Shapes DEF Returns
    <2>2. /\ pending' \in [Intent!Keys -> Intent!Control \cup {None}]
          /\ \A k \in Intent!Keys : pending'[k] # None => pending'[k].key = k
      BY <1>1, <1>7 DEF Returns, Intent!Retained, Intent!Start, Intent!TypeOK, Intent!Keys
    <2> QED
      BY <1>1, <1>4, <1>7, <2>1, <2>2 DEF Returns, Intent!TypeOK
  <1>8. ASSUME NEW at, Proceeds(at)
        PROVE  Intent!TypeOK'
    <2>1. task' \in TaskRecords
      BY <1>1, <1>8, GoesOnTypes DEF Proceeds
    <2>2. pending' = pending /\ deadline' = deadline /\ error' = error
      BY <1>8 DEF Proceeds, GoesOn
    <2>3. sent' = sent \/ (Intent!Executing /\ Intent!CarriedOut)
      BY <1>8 DEF Proceeds, Carries
    <2> QED
      BY <1>1, <1>4, <2>1, <2>2, <2>3 DEF Intent!TypeOK
  <1> QED
    BY <1>5, <1>6, <1>7, <1>8 DEF Ways

\* Whatever the task does keeps the invariant.
LEMMA TaskKeeps ==
  ASSUME Intent!IntentConstants, IntentInv, Intent!TaskStep
  PROVE  IntentInv'
  <1>1. Ways
    BY TaskWays
  <1>2. Intent!TypeOK'
    BY <1>1, TaskTypes
  <1>3. /\ UNCHANGED <<version, newest, preparing, unloaded>> /\ Turned /\ path'.epoch \in Nat
    BY <1>1 DEF Ways, Turned
  <1>4. task.at \in {"operation", "again"} => Intent!Executing
    BY DEF IntentInv, ShapeInv, Intent!Executing
  <1>5. CASE Intent!Execute
    BY <1>2, <1>5, ExecuteKeeps DEF IntentInv
  <1>6. CASE GivesUp
    <2>1. sent' = sent \/ (Intent!Executing /\ Intent!CarriedOut)
      BY <1>4, <1>6 DEF GivesUp, Carries
    <2> QED
      BY <1>2, <1>3, <1>6, <2>1, QuitKeeps DEF GivesUp, IntentInv
  <1>7. CASE Returns
    BY <1>2, <1>3, <1>7, RetainKeeps DEF Returns, IntentInv
  <1>8. ASSUME NEW at, Proceeds(at)
        PROVE  IntentInv'
    <2>1. at \notin {"none", "waiting", "operation"} /\ GoesOn(at) /\ Intent!Executing /\
              AgainInv' /\ MovingInv'
      BY <1>8 DEF Proceeds
    <2>2. \/ sent' = sent
          \/ Intent!CarriedOut /\ Intent!Here = "cloud" /\ task.at = "operation" /\
                 task.control.key = "charging"
      BY <1>8 DEF Proceeds, Carries
    <2>3. ShapeInv' /\ NumberInv' /\ SentInv'
      BY <1>3, <2>1, <2>2, GoOnKeeps
    <2> QED
      BY <1>2, <2>1, <2>3 DEF IntentInv
  <1> QED
    BY <1>1, <1>5, <1>6, <1>7, <1>8 DEF Ways

-----------------------------------------------------------------------------
(* The other steps *)

\* A user chooses.
LEMMA SubmitKeeps ==
  ASSUME Intent!IntentConstants, IntentInv, Intent!Submit \/ Intent!SubmitToCloud
  PROVE  IntentInv'
  <1>1. PICK c \in Intent!Chosen : Intent!Keep(c)
    BY DEF Intent!Submit, Intent!SubmitToCloud
  <1>2. /\ version < MaxChoices /\ unloaded = "no" /\ UNCHANGED <<path, able, rests, unloaded, sent,
           moves>>
        /\ preparing' = preparing \/ (~Intent!Given /\
                                      preparing' = [at |-> "read", epoch |-> path.epoch])
    BY DEF Intent!Submit, Intent!SubmitToCloud
  <1>3. ShapeInv' /\ NumberInv' /\ SentInv' /\ AgainInv' /\ MovingInv'
    BY <1>1, <1>2, ChoiceKeeps
  <1>4. /\ c \in Intent!Control /\ c.key \in Intent!Keys /\ c.n \in 0..MaxChoices /\
               0 \in 0..MaxChoices
    BY <1>2 DEF Intent!Chosen, Intent!IntentConstants, Intent!Control, Intent!Numbers, IntentInv,
       Intent!TypeOK
  <1>5. preparing' \in [at : Intent!Prepares, epoch : Nat]
    BY <1>2 DEF IntentInv, Intent!TypeOK, Intent!Prepares
  <1>6. Intent!TypeOK'
    <2>1. CASE Intent!Known(c)
      BY <1>1, <1>2, <1>5, <2>1 DEF Intent!Keep, IntentInv, Intent!TypeOK
    <2>2. CASE ~Intent!Known(c)
      <3>1. /\ pending' = [pending EXCEPT ![c.key] = c] /\ version' = c.n
            /\ newest' = [newest EXCEPT ![c.key] = c.n] /\ error' = "none"
            /\ deadline' = IF deadline = "none" THEN "running" ELSE deadline
            /\ task' = IF task.at = "none" THEN [Intent!NoTask EXCEPT !.at = "waiting"] ELSE task
        BY <1>1, <2>2 DEF Intent!Keep
      <3>2. task' \in TaskRecords
        BY <1>4, <3>1 DEF IntentInv, Intent!TypeOK, Intent!NoTask, Intent!Steps
      <3>3. /\ pending' \in [Intent!Keys -> Intent!Control \cup {None}]
            /\ \A k \in Intent!Keys : pending'[k] # None => pending'[k].key = k
            /\ newest' \in [Intent!Keys -> 0..MaxChoices] /\ version' \in 0..MaxChoices
        BY <1>4, <3>1 DEF IntentInv, Intent!TypeOK
      <3>4. deadline' \in {"none", "running", "over"} /\
                error' \in {"none", "expired", "failed", "handover"}
        BY <3>1 DEF IntentInv, Intent!TypeOK
      <3> QED
        BY <1>2, <1>5, <3>2, <3>3, <3>4 DEF IntentInv, Intent!TypeOK
    <2> QED
      BY <2>1, <2>2
  <1> QED
    BY <1>3, <1>6 DEF IntentInv

\* The preparation, which runs only while no control is carried out.
LEMMA PrepareKeeps ==
  ASSUME Intent!IntentConstants, IntentInv, Intent!PrepareStep
  PROVE  IntentInv'
  <1>1. /\ Intent!TypeOK /\ preparing.at # "none" /\ UNCHANGED <<version, newest, task, unloaded,
           sent, moves>>
    BY DEF IntentInv, Intent!PrepareStep, Intent!PrepareRead, Intent!PrepareMoves,
       Intent!PrepareMoved, Intent!PrepareVerified
  <1>2. ~Intent!Executing /\ task.at # "moving"
    BY <1>1 DEF IntentInv, ShapeInv, Intent!Executing
  <1>3. ASSUME Intent!PrepareFails
        PROVE  /\ preparing' = Intent!NotPreparing /\ pending' = Intent!Nothing /\
                      deadline' = "none" /\ error' = "handover"
    BY <1>3 DEF Intent!PrepareFails, Intent!Prepared, Intent!Discard
  <1>4. /\ preparing \in [at : Intent!Prepares, epoch : Nat] /\
               Intent!NotPreparing \in [at : Intent!Prepares, epoch : Nat]
        /\ Intent!NotPreparing.at = "none"
    BY <1>1 DEF Intent!TypeOK, Intent!Prepares, Intent!NotPreparing
  <1>5. \/ UNCHANGED <<pending, deadline, error>>
        \/ pending' = Intent!Nothing /\ deadline' = "none" /\ error' = "handover"
    BY <1>3 DEF Intent!PrepareStep, Intent!PrepareRead, Intent!PrepareMoves, Intent!PrepareMoved,
       Intent!PrepareVerified
  <1>6. /\ Turned /\ able' \in BOOLEAN /\ rests' \in BOOLEAN
        /\ preparing' \in [at : Intent!Prepares, epoch : Nat]
        /\ preparing'.at = "moving" => path'.moving
    <2>1. CASE Intent!PrepareRead
      <3>1. path' = path /\ rests' = rests /\ able' \in {able, FALSE}
        BY <2>1 DEF Intent!PrepareRead
      <3>2. preparing' \in {Intent!NotPreparing, [preparing EXCEPT !.at = "queued"]}
        BY <1>3, <2>1 DEF Intent!PrepareRead, Intent!Prepared
      <3>3. preparing' \in [at : Intent!Prepares, epoch : Nat] /\ preparing'.at # "moving"
        BY <1>4, <3>2 DEF Intent!Prepares
      <3> QED
        BY <1>1, <3>1, <3>3, SameRoute DEF Intent!TypeOK
    <2>2. CASE Intent!PrepareMoves
      <3>1. CASE rests' = TRUE /\ Intent!Depart /\ preparing' = [preparing EXCEPT !.at = "moving"]
        <4>1. preparing' \in [at : Intent!Prepares, epoch : Nat]
          BY <1>4, <3>1 DEF Intent!Prepares
        <4> QED
          BY <1>1, <2>2, <3>1, <4>1, DepartTurns DEF Intent!PrepareMoves, Intent!TypeOK
      <3>2. CASE Intent!PrepareFails /\ UNCHANGED <<path, rests>>
        BY <1>1, <1>3, <1>4, <2>2, <3>2, SameRoute DEF Intent!PrepareMoves, Intent!TypeOK
      <3> QED
        BY <2>2, <3>1, <3>2 DEF Intent!PrepareMoves
    <2>3. CASE Intent!PrepareMoved
      <3>1. path.moving /\ able' = able /\ rests' = rests
        BY <2>3 DEF Intent!PrepareMoved, IntentInv, MovingInv
      <3>2. Turned
        BY <1>1, <2>3, <3>1, ArriveTurns DEF Intent!PrepareMoved
      <3>3. preparing' \in {Intent!NotPreparing, [preparing EXCEPT !.at = "refresh"]}
        BY <1>3, <2>3 DEF Intent!PrepareMoved
      <3>4. preparing' \in [at : Intent!Prepares, epoch : Nat] /\ preparing'.at # "moving"
        BY <1>4, <3>3 DEF Intent!Prepares
      <3> QED
        BY <1>1, <3>1, <3>2, <3>4 DEF Intent!TypeOK
    <2>4. CASE Intent!PrepareVerified
      <3>1. Turned
        BY <1>1, <2>4 DEF Intent!PrepareVerified, Intent!TypeOK, Turned
      <3>2. preparing' = Intent!NotPreparing /\ able' = able /\ rests' \in {rests, TRUE}
        BY <1>3, <2>4 DEF Intent!PrepareVerified, Intent!Prepared
      <3> QED
        BY <1>1, <1>4, <3>1, <3>2 DEF Intent!TypeOK
    <2> QED
      BY <2>1, <2>2, <2>3, <2>4 DEF Intent!PrepareStep
  <1>7. Intent!TypeOK'
    BY <1>1, <1>5, <1>6, Shapes DEF Intent!TypeOK, Turned
  <1>8. MovingInv'
    BY <1>1, <1>2, <1>6 DEF MovingInv
  <1>9. \A k \in Intent!Keys : pending'[k] \in {None, pending[k]}
    BY <1>1, <1>5, Shapes
  <1> QED
    BY <1>1, <1>2, <1>6, <1>7, <1>8, <1>9, AsideKeeps DEF IntentInv

\* Time, the moves of others, and the end of the entry.
LEMMA OthersKeep ==
  ASSUME Intent!IntentConstants, IntentInv,
         Intent!DeadlineOver \/ Intent!RestOver \/ Intent!RouteMoves \/ Intent!RouteMoved \/
             Intent!Poll \/ Intent!Close
  PROVE  IntentInv'
  <1>1. Intent!TypeOK /\ UNCHANGED <<version, newest, error, task, preparing,
        sent>> /\ moves' \in 0..Handovers
        /\ able' \in BOOLEAN /\ rests' \in BOOLEAN /\ unloaded' \in {"no", "closing", "yes"}
        /\ deadline' \in {"none", "running", "over"}
    <2>1. /\ able \in BOOLEAN /\ rests \in BOOLEAN /\ unloaded \in {"no", "closing", "yes"}
          /\ deadline \in {"none", "running", "over"} /\ moves \in 0..Handovers /\ Handovers \in Nat
      BY DEF IntentInv, Intent!TypeOK, Intent!IntentConstants
    <2>2. moves < Handovers => moves + 1 \in 0..Handovers
      BY <2>1
    <2>3. CASE Intent!Poll
      <3>1. moves' = moves \/ (moves < Handovers /\ moves' = moves + 1)
        <4>1. ASSUME path' = [path EXCEPT !.fresh = TRUE, !.waiting = FALSE]
              PROVE  path'.fresh
          BY <4>1 DEF IntentInv, Intent!TypeOK
        <4> QED
          BY <2>3, <4>1 DEF Intent!Poll
      <3> QED
        BY <2>1, <2>2, <2>3, <3>1 DEF Intent!Poll, IntentInv
    <2>4. CASE Intent!DeadlineOver \/ Intent!RestOver \/ Intent!RouteMoved \/ Intent!Close
      BY <2>1, <2>4 DEF Intent!DeadlineOver, Intent!RestOver, Intent!RouteMoved, Intent!Close,
         IntentInv
    <2>5. CASE Intent!RouteMoves
      BY <2>1, <2>2, <2>5 DEF Intent!RouteMoves, IntentInv
    <2> QED
      BY <2>3, <2>4, <2>5
  <1>2. \/ UNCHANGED <<pending, unloaded>>
        \/ pending' = Intent!Nothing /\ unloaded' = "closing"
    BY DEF Intent!DeadlineOver, Intent!RestOver, Intent!RouteMoves, Intent!RouteMoved, Intent!Poll,
       Intent!Close
  <1>3. Turned /\ (Intent!OurMove /\ path.moving => path'.moving)
    <2>1. CASE path' = path
      BY <1>1, <2>1, SameRoute
    <2>2. CASE Intent!RouteMoves
      BY <1>1, <2>2, DepartTurns DEF Intent!RouteMoves
    <2>3. CASE Intent!RouteMoved
      BY <1>1, <2>3, ArriveTurns DEF Intent!RouteMoved
    <2>4. CASE Intent!Poll
      BY <1>1, <2>4 DEF Intent!Poll, Intent!TypeOK, Turned
    <2> QED
      BY <2>1, <2>2, <2>3, <2>4 DEF Intent!DeadlineOver, Intent!RestOver, Intent!Close
  <1>4. MovingInv'
    BY <1>1, <1>3 DEF MovingInv, IntentInv, Intent!OurMove
  <1>5. Intent!TypeOK'
    BY <1>1, <1>2, <1>3, Shapes DEF Intent!TypeOK, Turned
  <1> QED
    BY <1>1, <1>2, <1>3, <1>4, <1>5, AsideKeeps, Shapes DEF IntentInv

\* Both tasks are gone.
LEMMA ClosedKeeps ==
  ASSUME Intent!IntentConstants, IntentInv, Intent!Closed
  PROVE  IntentInv'
  <1>1. /\ Intent!TypeOK /\ unloaded' = "yes" /\ pending' = Intent!Nothing /\
               task' = Intent!NoTask /\ deadline' = "none"
        /\ preparing' = Intent!NotPreparing /\ UNCHANGED <<version, newest, error, able, rests,
           sent, moves>>
    BY DEF IntentInv, Intent!Closed
  <1>2. path' \in RouteRecords
    BY <1>1 DEF Intent!Closed, Intent!Arrive, Intent!TypeOK
  <1>3. /\ Intent!NotPreparing \in [at : Intent!Prepares, epoch : Nat] /\
               Intent!NotPreparing.at = "none"
        /\ version \in Nat /\ ~Intent!Executing'
    BY <1>1, Shapes DEF Intent!NotPreparing, Intent!Prepares, Intent!TypeOK, Intent!IntentConstants,
       Intent!Executing
  <1>4. Intent!TypeOK'
    BY <1>1, <1>2, <1>3, Shapes DEF Intent!TypeOK
  <1>5. ShapeInv' /\ NumberInv'
    BY <1>1, <1>2, <1>3, Shapes DEF ShapeInv, NumberInv, IntentInv
  <1>6. SentInv' /\ AgainInv' /\ MovingInv'
    BY <1>1, <1>3, Shapes DEF SentInv, AgainInv, MovingInv, IntentInv
  <1> QED
    BY <1>4, <1>5, <1>6 DEF IntentInv

\* Nothing was chosen yet.
LEMMA IntentStart ==
  ASSUME Intent!IntentConstants, Intent!Init
  PROVE  IntentInv
  <1>1. 0 \in 0..MaxChoices /\ 0 \in 0..Handovers
    BY DEF Intent!IntentConstants
  <1>2. << >> \in Seq({"cloud", "tcp"})
    OBVIOUS
  <1>3. /\ pending = Intent!Nothing /\ version = 0 /\ newest = [k \in Intent!Keys |-> 0] /\
               deadline = "none"
        /\ error = "none" /\ task = Intent!NoTask /\ preparing = Intent!NotPreparing
        /\ path \in [local : BOOLEAN, moving : {FALSE}, waiting : {FALSE}, fresh : {TRUE},
                     epoch : {0}]
        /\ able \in BOOLEAN /\ rests = FALSE /\ unloaded = "no"
        /\ sent = [n \in Intent!Numbers |-> << >>] /\ moves = 0
    BY DEF Intent!Init
  <1>4. /\ task = [at |-> "none", control |-> None, version |-> 0, epoch |-> 0]
        /\ preparing = [at |-> "none", epoch |-> 0] /\ \A k \in Intent!Keys : pending[k] = None
        /\ \A k \in Intent!Keys : newest[k] = 0
    BY <1>3 DEF Intent!NoTask, Intent!NotPreparing, Intent!Nothing
  <1>5. Intent!TypeOK
    <2>1. path \in RouteRecords
      <3>1. {FALSE} \subseteq BOOLEAN /\ {TRUE} \subseteq BOOLEAN /\ {0} \subseteq Nat
        OBVIOUS
      <3> QED
        BY <1>3, <3>1, Zenon
    <2>4. newest \in [Intent!Keys -> 0..MaxChoices]
      BY <1>1, <1>3, Zenon
    <2>3. sent \in [Intent!Numbers -> Seq({"cloud", "tcp"})]
      BY <1>2, <1>3, Zenon
    <2>2. /\ task \in TaskRecords
          /\ preparing \in [at : Intent!Prepares, epoch : Nat] /\
                 pending \in [Intent!Keys -> Intent!Control \cup {None}]
      BY <1>1, <1>3, <1>4 DEF Intent!Steps, Intent!Prepares, Intent!Nothing
    <2> QED
      BY <1>1, <1>3, <1>4, <2>1, <2>2, <2>3, <2>4 DEF Intent!TypeOK
  <1>6. ShapeInv /\ NumberInv /\ SentInv /\ AgainInv /\ MovingInv
    BY <1>3, <1>4 DEF ShapeInv, NumberInv, SentInv, AgainInv, MovingInv, Intent!Executing
  <1> QED
    BY <1>5, <1>6 DEF IntentInv

\* Every step keeps the invariant.
LEMMA IntentStep ==
  ASSUME Intent!IntentConstants, IntentInv, [Intent!Next]_Intent!vars
  PROVE  IntentInv'
  <1>1. CASE Intent!Next
    BY <1>1, SubmitKeeps, TaskKeeps, PrepareKeeps, OthersKeep, ClosedKeeps DEF Intent!Next
  <1>2. CASE UNCHANGED Intent!vars
    BY <1>2 DEF Intent!vars, IntentInv, Intent!TypeOK, ShapeInv, NumberInv, SentInv, AgainInv,
       MovingInv, Intent!Executing
  <1> QED
    BY <1>1, <1>2

\* The invariant holds in every state of ControlIntent: what is pending, under way and
\* written down of the controls always fits together.
THEOREM IntentInvariant ==
  ASSUME Intent!IntentConstants
  PROVE  Intent!Spec => []IntentInv
  <1>1. Intent!Init => IntentInv
    BY IntentStart
  <1>2. IntentInv /\ [Intent!Next]_Intent!vars => IntentInv'
    BY IntentStep
  <1> QED
    BY <1>1, <1>2, PTL DEF Intent!Spec

\* ControlIntent's type invariant: the three tasks are never at a step, and the batch
\* never in a state, that the code does not know.
THEOREM IntentTypes ==
  ASSUME Intent!IntentConstants
  PROVE  Intent!Spec => []Intent!TypeOK
  <1>1. IntentInv => Intent!TypeOK
    BY DEF IntentInv
  <1> QED
    BY <1>1, IntentInvariant, PTL

-----------------------------------------------------------------------------
(* The properties *)

\* What a step writes down as carried out is the task's control, and where.
LEMMA OnlyTheTaskSends ==
  ASSUME Intent!IntentConstants, IntentInv, [Intent!Next]_Intent!vars
  PROVE  sent' = sent \/ Carries
  <1>1. CASE Intent!TaskStep
    <2>1. Ways
      BY <1>1, TaskWays
    <2> QED
      BY <2>1 DEF Ways, Intent!Execute, GivesUp, Returns, Proceeds
  <1>2. CASE Intent!Submit \/ Intent!SubmitToCloud \/ Intent!PrepareStep
    BY <1>2 DEF Intent!Submit, Intent!SubmitToCloud, Intent!PrepareStep, Intent!PrepareRead,
       Intent!PrepareMoves, Intent!PrepareMoved, Intent!PrepareVerified
  <1>3. CASE Intent!DeadlineOver \/ Intent!RestOver \/ Intent!RouteMoves \/ Intent!RouteMoved \/
                 Intent!Poll \/ Intent!Close \/ Intent!Closed
    BY <1>3 DEF Intent!DeadlineOver, Intent!RestOver, Intent!RouteMoves, Intent!RouteMoved,
       Intent!Poll, Intent!Close, Intent!Closed
  <1>4. CASE UNCHANGED Intent!vars
    BY <1>4 DEF Intent!vars
  <1> QED
    BY <1>1, <1>2, <1>3, <1>4 DEF Intent!Next

\* AgainOnlyOverTCP: a control is carried out a second time only when it is a Start or
\* Stop the cloud left open, and a Start only over TCP.
THEOREM SecondCommandsGoOverTCP ==
  ASSUME Intent!IntentConstants
  PROVE  Intent!Spec => AgainOnlyOverTCP
  <1>1. ASSUME IntentInv, [Intent!Next]_Intent!vars
        PROVE  [\A n \in Intent!Numbers : Len(sent'[n]) > Len(sent[n]) =>
                   \/ sent[n] = << >>
                   \/ /\ sent[n] = <<"cloud">> /\ task.control.key = "charging"
                      /\ Intent!Here = "tcp" \/ Intent!Stop(task.control)]_Intent!vars
    <2> SUFFICES ASSUME NEW n \in Intent!Numbers, Len(sent'[n]) > Len(sent[n]), sent[n] # << >>
                 PROVE  /\ sent[n] = <<"cloud">> /\ task.control.key = "charging"
                        /\ Intent!Here = "tcp" \/ Intent!Stop(task.control)
      OBVIOUS
    <2>1. Carries /\ n = task.control.n
      <3>1. sent' # sent /\ sent \in [Intent!Numbers -> Seq({"cloud", "tcp"})]
        BY <1>1 DEF IntentInv, Intent!TypeOK
      <3>2. Carries
        BY <1>1, <3>1, OnlyTheTaskSends
      <3>3. n # task.control.n => sent'[n] = sent[n]
        BY <3>1, <3>2 DEF Carries, Intent!CarriedOut
      <3>4. Len(sent[n]) \in Nat
        BY <3>1
      <3> QED
        BY <3>2, <3>3, <3>4
    <2>2. task.at = "again" /\ Intent!Executing
      BY <1>1, <2>1 DEF Carries, IntentInv, SentInv, ShapeInv, Intent!Executing
    <2>3. sent[n] = <<"cloud">> /\ task.control.key = "charging"
      BY <1>1, <2>1, <2>2 DEF IntentInv, SentInv
    <2>4. path.local \/ Intent!Stop(task.control)
      BY <1>1, <2>1, <2>2 DEF Carries, Intent!Unfenced, IntentInv, AgainInv
    <2> QED
      BY <2>3, <2>4 DEF Intent!Here
  <1> QED
    BY <1>1, IntentInvariant, PTL DEF Intent!Spec, AgainOnlyOverTCP, Intent!AgainOnlyOverTCP

\* NewestCarriedOut: what the user has replaced is not begun, by the queue or by a
\* recovery.
THEOREM ReplacedIsNotBegun ==
  ASSUME Intent!IntentConstants
  PROVE  Intent!Spec => NewestCarriedOut
  <1>1. ASSUME IntentInv, [Intent!Next]_Intent!vars
        PROVE  [task'.at \in {"operation", "again"} /\ task'.at # task.at =>
                   newest[task'.control.key] = task'.control.n]_Intent!vars
    <2> SUFFICES ASSUME task'.at \in {"operation", "again"}, task'.at # task.at
                 PROVE  newest[task'.control.key] = task'.control.n
      OBVIOUS
    <2>1. Intent!TaskStep
      <3>1. ASSUME Intent!Submit \/ Intent!SubmitToCloud PROVE FALSE
        <4>1. task' \in {task, [Intent!NoTask EXCEPT !.at = "waiting"]}
          BY <3>1 DEF Intent!Submit, Intent!SubmitToCloud, Intent!Keep
        <4> QED
          BY <4>1 DEF Intent!NoTask
      <3>2. ASSUME Intent!PrepareStep \/ Intent!DeadlineOver \/ Intent!RestOver \/
                       Intent!RouteMoves \/ Intent!RouteMoved \/ Intent!Poll \/ Intent!Close \/
                           Intent!Closed
            PROVE  FALSE
        <4>1. task' \in {task, Intent!NoTask}
          BY <3>2 DEF Intent!PrepareStep, Intent!PrepareRead, Intent!PrepareMoves,
             Intent!PrepareMoved, Intent!PrepareVerified, Intent!DeadlineOver,
                      Intent!RestOver, Intent!RouteMoves, Intent!RouteMoved, Intent!Poll,
                      Intent!Close, Intent!Closed
        <4> QED
          BY <4>1 DEF Intent!NoTask
      <3> QED
        BY <1>1, <3>1, <3>2 DEF Intent!Next, Intent!vars
    <2>2. Ways
      BY <1>1, <2>1, TaskWays
    <2>3. CASE Intent!Execute
      BY <1>1, <2>2, <2>3, ExecuteKeeps DEF Ways, Intent!Execute
    <2>4. CASE GivesUp \/ Returns
      BY <1>1, <2>4, Shapes DEF GivesUp, Returns, Quits, IntentInv
    <2>5. ASSUME NEW at, Proceeds(at)
          PROVE  newest[task'.control.key] = task'.control.n
      <3>1. task'.at = at /\ task'.control = task.control /\ at = "again" /\ Intent!Executing
        BY <1>1, <2>5 DEF Proceeds, GoesOn, IntentInv, Intent!TypeOK
      <3>2. task.version = version
        BY <2>5, <3>1 DEF Proceeds
      <3> QED
        BY <1>1, <3>1, <3>2 DEF IntentInv, NumberInv
    <2> QED
      BY <2>2, <2>3, <2>4, <2>5 DEF Ways
  <1> QED
    BY <1>1, IntentInvariant, PTL DEF Intent!Spec, NewestCarriedOut, Intent!NewestCarriedOut

\* StopKept: a pending Stop is carried out, replaced by the user, or ends with its
\* batch, its route or the entry.
THEOREM StopIsNotLost ==
  ASSUME Intent!IntentConstants
  PROVE  Intent!Spec => StopKept
  <1> DEFINE Ends == \/ task'.control = pending["charging"]
                     \/ newest'["charging"] > pending["charging"].n
                     \/ deadline = "over" \/ error' = "handover" \/ unloaded' # "no"
  <1>1. ASSUME IntentInv, [Intent!Next]_Intent!vars
        PROVE  [Intent!Stop(pending["charging"]) /\ pending'["charging"] # pending["charging"] =>
                Ends]_Intent!vars
    <2> SUFFICES ASSUME Intent!Stop(pending["charging"]), pending'["charging"] # pending["charging"]
                 PROVE  Ends
      OBVIOUS
    <2>1. /\ "charging" \in Intent!Keys /\ pending["charging"] # None
          /\ pending["charging"].n = newest["charging"] /\ newest["charging"] <= version
          /\ version \in Nat /\ newest["charging"] \in Nat
      BY <1>1 DEF Intent!Stop, Intent!Keys, IntentInv, NumberInv, Intent!TypeOK
    <2>2. CASE Intent!TaskStep
      <3>1. Ways
        BY <1>1, <2>2, TaskWays
      <3>2. CASE Intent!Execute
        BY <1>1, <2>1, <3>2, ExecuteKeeps
      <3>3. CASE GivesUp
        BY <3>3 DEF GivesUp, StopStays
      <3>4. CASE Returns
        BY <2>1, <3>4 DEF Returns, Intent!Retained
      <3>5. ASSUME NEW at, Proceeds(at) PROVE Ends
        BY <3>5 DEF Proceeds, GoesOn
      <3> QED
        BY <3>1, <3>2, <3>3, <3>4, <3>5 DEF Ways
    <2>3. CASE Intent!Submit \/ Intent!SubmitToCloud
      <3>1. PICK c \in Intent!Chosen : Intent!Keep(c)
        BY <2>3 DEF Intent!Submit, Intent!SubmitToCloud
      <3>2. c.n = version + 1 /\ c.key \in Intent!Keys
        BY DEF Intent!Chosen, Intent!IntentConstants
      <3>3. pending' = [pending EXCEPT ![c.key] = c] /\ newest' = [newest EXCEPT ![c.key] = c.n]
        BY <2>1, <3>1 DEF Intent!Keep
      <3>4. c.key = "charging"
        BY <1>1, <2>1, <3>2, <3>3 DEF IntentInv, Intent!TypeOK
      <3>5. newest'["charging"] = version + 1
        BY <1>1, <2>1, <3>2, <3>3, <3>4 DEF IntentInv, Intent!TypeOK
      <3> QED
        BY <2>1, <3>5
    <2>4. CASE Intent!PrepareStep
      <3>1. pending' = pending \/ error' = "handover"
        BY <2>4 DEF Intent!PrepareStep, Intent!PrepareRead, Intent!PrepareMoves,
           Intent!PrepareMoved, Intent!PrepareVerified, Intent!PrepareFails, Intent!Discard
      <3> QED
        BY <3>1
    <2>5. CASE Intent!DeadlineOver \/ Intent!RestOver \/ Intent!RouteMoves \/ Intent!RouteMoved \/
                   Intent!Poll
      BY <2>5 DEF Intent!DeadlineOver, Intent!RestOver, Intent!RouteMoves, Intent!RouteMoved,
         Intent!Poll
    <2>6. CASE Intent!Close \/ Intent!Closed
      BY <2>6 DEF Intent!Close, Intent!Closed
    <2> QED
      BY <1>1, <2>2, <2>3, <2>4, <2>5, <2>6 DEF Intent!Next, Intent!vars
  <1> QED
    BY <1>1, IntentInvariant, PTL DEF Intent!Spec, StopKept, Intent!StopKept
================================================================================

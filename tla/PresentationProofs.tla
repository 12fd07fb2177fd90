------------------------- MODULE PresentationProofs -------------------------
(***************************************************************************)
(* Theorems about Presentation, for any number of calls and of reports: its  *)
(* types, that the newest write is shown for as long as it waits, that a     *)
(* write that failed leaves nothing of itself, and that the newest power is  *)
(* the one the charger is left with.                                         *)
(***************************************************************************)
EXTENDS Presentation, TLAPS

(* The invariant *)

\* The writes of a class that go through the policy's lock.
Locks(w) == w.class.via \in {"mode", "power"} \/ (w.class.via = "setting" /\ enabled)

\* What a write may have been through at each stage.
Stage(i) ==
    LET w == writes[i] IN
    /\ w.class \in play /\ w.version <= version
    /\ w.at \in {"lock", "saving"} => Locks(w)
    /\ w.at = "saving" => w.class.via \in {"mode", "power"}
    /\ w.at = "policy" => w.class.via = "mode" \/ (w.class.via = "charging" /\ enabled)
    /\ w.at = "sent" => w.class.via # "charging" \/ ~enabled
    /\ w.at = "again" => w.class = ModeSelect
    /\ w.presented => w.at \in {"sent", "again", "ok", "failed"}
    /\ w.at \in {"sent", "again"} => w.presented
    /\ w.staged => w.class.via = "power" /\ w.at # "sent"
StageInv == \A i \in DOMAIN writes : Stage(i)

\* One write at most holds the lock.
LockInv == \A i, j \in DOMAIN writes : Holds(i) /\ Holds(j) => i = j

\* The lock is taken in the order of the calls.
OrderInv ==
    \A i, j \in DOMAIN writes :
        j < i /\ Locks(writes[i]) /\ Locks(writes[j]) /\ writes[i].at # "lock"
        => writes[j].at # "lock" /\ ~Holds(j)

\* Nobody but the newest write owns what it presented, and it does until it is answered.
OwnerInv ==
    \A i \in DOMAIN writes :
        LET w == writes[i] IN
        /\ Newest(i) /\ w.presented => owner[w.class.field] \in {0, i}
        /\ Newest(i) /\ w.at \in {"sent", "again"} => owner[w.class.field] = i
        /\ w.class.via = "power" /\ w.at = "sent" => owner["power"] = i

\* The newest write is waited for.
WaitInv ==
    \A i \in DOMAIN writes :
        LET w == writes[i] f == w.class.field IN
        /\ Newest(i) /\ w.class.shows = "pending"
        /\ w.presented /\ w.at \in {"sent", "again", "ok"} /\ ~w.settled
        => pend[f] = w.value /\ live[f] /\ shown[f] = w.value

FailedInv ==
    \A i \in DOMAIN writes :
        LET w == writes[i] f == w.class.field IN
        /\ Newest(i) /\ w.class.shows # "wanted" /\ w.presented /\ w.at = "failed"
        => pend[f] = None /\ shown[f] = report[f]

\* Shared data are the last report, but for a power that was sent since.
Accepted(v) ==
    \E k \in DOMAIN writes :
        /\ writes[k].class = PowerNumber /\ writes[k].value = v
        /\ writes[k].at = "ok" /\ writes[k].current /\ ~writes[k].staged
DataInv ==
    /\ \A f \in Fields : f # "power" => data[f] = report[f]
    /\ \/ data["power"] = report["power"] \/ Accepted(data["power"])
       \/ \E i \in DOMAIN writes : writes[i].class = PowerNumber /\ writes[i].at = "sent"
    /\ \A i \in DOMAIN writes :
           writes[i].class.via = "power" /\ writes[i].at = "sent" =>
               IF writes[i].current
               THEN /\ writes[i].class = PowerNumber => data["power"] = writes[i].value
                    /\ \/ writes[i].before["power"] = report["power"]
                       \/ Accepted(writes[i].before["power"])
               ELSE data["power"] = report["power"]

\* A history that NewestPowerStands speaks of, as far as it has come.
Early(w) == w.at \in {"lock", "saving"}
Going(i) ==
    LET w == writes[i] IN
    /\ w.at \notin {"failed", "refused"} /\ ~w.staged
    /\ Early(w) => w.version = version
    /\ \/ w.current /\ (w.class = PowerNumber => ~w.late)
       \/ w.class = PowerNumber /\ Early(w)
OneMode == \A i, j \in DOMAIN writes : writes[i].class = ModeSelect /\
    writes[j].class = ModeSelect => i = j
GoingWell == PowerNumber \in play /\ OneMode /\ \A i \in DOMAIN writes : Going(i)

\* Calls of a power and its mode are numbered.
NumberedInv ==
    /\ version <= Len(writes)
    /\ PowerNumber \in play =>
           version = Len(writes) /\ \A i \in DOMAIN writes : writes[i].version = i

\* The power that was chosen is in the shared data, but for one that is not sent yet.
Sent(i)   == writes[i].class = PowerNumber /\ writes[i].at \in {"sent", "ok"}
SomeSent  == \E i \in DOMAIN writes : Sent(i)
Saving(i) == writes[i].class = PowerNumber /\ writes[i].at = "saving"
Chosen ==
    /\ SomeSent => /\ data["power"] # None
                   /\ desired = data["power"] \/ \E i \in DOMAIN writes : Saving(i)
    /\ \A i \in DOMAIN writes : Saving(i) => desired = writes[i].value
    /\ \A i \in DOMAIN writes : writes[i].class = PowerNumber /\ writes[i].at # "lock" =>
           desired # None

\* The charger has that power, unless a request is under way that will see to it: a
\* Fast request knows what it carries, and that nothing was reported since.
FastUnderWay(i) == writes[i].class = ModeSelect /\ writes[i].value = FastMode /\
    writes[i].at \in {"sent", "again"}
PowerUnderWay(i) == writes[i].class = PowerNumber /\ writes[i].at = "sent"
Left ==
    SomeSent => \/ \E i \in DOMAIN writes : PowerUnderWay(i)
                \/ \E i \in DOMAIN writes : FastUnderWay(i)
                \/ device = data["power"]
Knows(i) ==
    LET w == writes[i] IN
    /\ Early(w) => w.before["power"] = data["power"] /\ w.before["mode"] = data["mode"]
    /\ w.at = "sent" /\ w.value = FastMode =>
           /\ w.before["mode"] = data["mode"] /\ w.power = w.before["power"]
           /\ owner["mode"] = i /\ pend["mode"] = FastMode
    /\ w.at = "again" => w.power = data["power"] /\ w.value = FastMode
Informed == \A i \in DOMAIN writes : writes[i].class = ModeSelect => Knows(i)
PowerInv == GoingWell => Chosen /\ Left /\ Informed

Stages == {"lock", "saving", "policy", "sent", "again"} \cup Ends

EntitiesInv ==
    TypeOK /\ StageInv /\ LockInv /\ OrderInv /\ OwnerInv /\ WaitInv /\ FailedInv /\ DataInv /\
        NumberedInv /\ PowerInv

-----------------------------------------------------------------------------
(* The classes *)

\* A mode and a power have a way of their own to the charger, and a field of their own.
LEMMA ClassFacts ==
  ASSUME NEW c \in Classes
  PROVE  /\ c.field \in Fields /\ c.via \in {"mode", "power", "charging", "setting"}
         /\ c.shows \in {"pending", "wanted", "report"}
         /\ c.via = "mode" <=> c.field = "mode"
         /\ c.via = "power" <=> c.field = "power"
         /\ c.shows = "wanted" <=> c.field = "power"
         /\ c.via \in {"mode", "charging"} => c.shows = "pending"
         /\ c.via = "charging" <=> c \in Charging
  <1>1. \A x \in {ModeSelect, ModbusMode} : x.field = "mode" /\ x.shows = "pending" /\
            x.via = "mode"
    <2>1. ModeSelect.field = "mode" /\ ModeSelect.shows = "pending" /\ ModeSelect.via = "mode"
      BY DEF Class, ModeSelect
    <2>2. ModbusMode.field = "mode" /\ ModbusMode.shows = "pending" /\ ModbusMode.via = "mode"
      BY DEF Class, ModbusMode
    <2> QED
      BY <2>1, <2>2
  <1>2. \A x \in {PowerNumber, ModbusPower} : x.field = "power" /\ x.shows = "wanted" /\
            x.via = "power"
    <2>1. PowerNumber.field = "power" /\ PowerNumber.shows = "wanted" /\ PowerNumber.via = "power"
      BY DEF Class, PowerNumber
    <2>2. ModbusPower.field = "power" /\ ModbusPower.shows = "wanted" /\ ModbusPower.via = "power"
      BY DEF Class, ModbusPower
    <2> QED
      BY <2>1, <2>2
  <1>3. \A x \in {ChargingSwitch, ModbusStartStop} : x.field = "own" /\ x.shows = "pending" /\
            x.via = "charging"
    <2>1. ChargingSwitch.field = "own" /\ ChargingSwitch.shows = "pending" /\
              ChargingSwitch.via = "charging"
      BY DEF Class, ChargingSwitch
    <2>2. ModbusStartStop.field = "own" /\ ModbusStartStop.shows = "pending" /\
              ModbusStartStop.via = "charging"
      BY DEF Class, ModbusStartStop
    <2> QED
      BY <2>1, <2>2
  <1>4. \A x \in {ConfigSwitch, OutputLimit, ModeParameter, DurationSelect, ModbusSwitch,
                  ModbusNumber, ModbusDuration} : x.field = "own" /\ x.shows = "pending" /\
                  x.via = "setting"
    <2>1. ConfigSwitch.field = "own" /\ ConfigSwitch.shows = "pending" /\
              ConfigSwitch.via = "setting"
      BY DEF Class, ConfigSwitch
    <2>2. OutputLimit.field = "own" /\ OutputLimit.shows = "pending" /\ OutputLimit.via = "setting"
      BY DEF Class, OutputLimit
    <2>3. ModeParameter.field = "own" /\ ModeParameter.shows = "pending" /\
              ModeParameter.via = "setting"
      BY DEF Class, ModeParameter
    <2>4. DurationSelect.field = "own" /\ DurationSelect.shows = "pending" /\
              DurationSelect.via = "setting"
      BY DEF Class, DurationSelect
    <2>5. ModbusSwitch.field = "own" /\ ModbusSwitch.shows = "pending" /\
              ModbusSwitch.via = "setting"
      BY DEF Class, ModbusSwitch
    <2>6. ModbusNumber.field = "own" /\ ModbusNumber.shows = "pending" /\
              ModbusNumber.via = "setting"
      BY DEF Class, ModbusNumber
    <2>7. ModbusDuration.field = "own" /\ ModbusDuration.shows = "pending" /\
              ModbusDuration.via = "setting"
      BY DEF Class, ModbusDuration
    <2> QED
      BY <2>1, <2>2, <2>3, <2>4, <2>5, <2>6, <2>7
  <1>5. \A x \in {PlugAndCharge, MinimumPower, CurrentLimit} : x.field = "own" /\
            x.shows = "report" /\ x.via = "setting"
    <2>1. PlugAndCharge.field = "own" /\ PlugAndCharge.shows = "report" /\
              PlugAndCharge.via = "setting"
      BY DEF Class, PlugAndCharge
    <2>2. MinimumPower.field = "own" /\ MinimumPower.shows = "report" /\
              MinimumPower.via = "setting"
      BY DEF Class, MinimumPower
    <2>3. CurrentLimit.field = "own" /\ CurrentLimit.shows = "report" /\
              CurrentLimit.via = "setting"
      BY DEF Class, CurrentLimit
    <2> QED
      BY <2>1, <2>2, <2>3
  <1>6. c \in Charging <=> c = ChargingSwitch \/ c = ModbusStartStop
    BY DEF Charging
  <1> QED
    BY <1>1, <1>2, <1>3, <1>4, <1>5, <1>6 DEF Classes, Fields
LEMMA PowerClasses ==
  /\ PowerNumber \in Classes /\ PowerNumber.via = "power" /\ PowerNumber.needs = "detail"
  /\ ModeSelect \in Classes /\ ModeSelect.via = "mode" /\ ModeSelect.needs = "detail"
  /\ ModeSelect # PowerNumber
  <1>1. PowerNumber \in Classes /\ ModeSelect \in Classes
    BY DEF Classes
  <1> QED
    BY <1>1 DEF Class, ModeSelect, PowerNumber

LEMMA PlayFacts ==
  ASSUME play \in Plays
  PROVE  /\ play \subseteq Classes
         /\ \A c, d \in play : c.field = d.field => c = d
         /\ PowerNumber \in play => play \subseteq {ModeSelect, PowerNumber}
  <1>1. CASE play \in {{c} : c \in Classes}
    <2>1. PICK c \in Classes : play = {c}
      BY <1>1
    <2> QED
      BY <2>1
  <1>2. /\ {ModeSelect, PowerNumber, ModbusMode, ModbusPower, ChargingSwitch} \subseteq Classes
        /\ ModeSelect.field = "mode" /\ ModbusMode.field = "mode" /\ PowerNumber.field = "power"
        /\ ModbusPower.field = "power" /\ ChargingSwitch.field = "own"
    <2>1. {ModeSelect, PowerNumber, ModbusMode, ModbusPower, ChargingSwitch} \subseteq Classes
      BY DEF Classes
    <2> QED
      BY <2>1 DEF Class, ModeSelect, PowerNumber, ModbusMode, ModbusPower, ChargingSwitch
  <1>3. PowerNumber # ModbusPower
    BY DEF Class, PowerNumber, ModbusPower
  <1>4. CASE play = {ModeSelect, PowerNumber}
    BY <1>2, <1>4
  <1>5. CASE play = {ModbusMode, ModbusPower}
    BY <1>2, <1>3, <1>5
  <1>6. CASE play = {ModeSelect, ChargingSwitch}
    BY <1>2, <1>6
  <1> QED
    BY <1>1, <1>4, <1>5, <1>6 DEF Plays

-----------------------------------------------------------------------------
(* What a step does to the writes *)

\* One write is taken further; the call it was stays.
Updated(i) ==
    /\ i \in DOMAIN writes /\ writes' \in Seq(Write) /\ DOMAIN writes' = DOMAIN writes
    /\ Len(writes') = Len(writes)
    /\ \A j \in DOMAIN writes : j # i => writes'[j] = writes[j]
    /\ writes'[i].class = writes[i].class /\ writes'[i].value = writes[i].value
    /\ writes'[i].version = writes[i].version /\ writes'[i].staged = writes[i].staged

\* It goes to another stage, and nothing else.
Goes(i, at) ==
    /\ Updated(i) /\ writes'[i].at = at
    /\ writes'[i].presented = writes[i].presented /\ writes'[i].settled = writes[i].settled
    /\ writes'[i].current = writes[i].current /\ writes'[i].late = writes[i].late
    /\ writes'[i].before = writes[i].before /\ writes'[i].power = writes[i].power

LEMMA WriteTypes ==
  ASSUME PresentationConstants, TypeOK, NEW i \in DOMAIN writes
  PROVE  /\ writes[i] \in Write /\ i \in 1..Len(writes) /\ i \in 1..MaxCalls /\ Len(writes) \in Nat
         /\ DOMAIN writes = 1..Len(writes)
         /\ writes[i].class \in Classes /\ writes[i].value \in Values /\ writes[i].at \in Stages
         /\ writes[i].version \in 0..MaxCalls /\ writes[i].staged \in BOOLEAN
         /\ writes[i].presented \in BOOLEAN /\ writes[i].settled \in BOOLEAN
         /\ writes[i].current \in BOOLEAN /\ writes[i].late \in BOOLEAN
         /\ writes[i].before \in [Fields -> Maybe] /\ writes[i].power \in Maybe
  <1>1. /\ writes[i] \in Write /\ i \in 1..Len(writes) /\ i \in 1..MaxCalls /\ Len(writes) \in Nat
        /\ DOMAIN writes = 1..Len(writes)
    BY DEF TypeOK, PresentationConstants
  <1> QED
    BY <1>1 DEF Write, Stages

LEMMA AtGoes ==
  ASSUME PresentationConstants, TypeOK, NEW i \in DOMAIN writes, NEW at \in Stages, At(i, at)
  PROVE  Goes(i, at)
  <1> DEFINE w == [writes[i] EXCEPT !.at = at]
  <1>1. writes[i] \in Write /\ DOMAIN writes = 1..Len(writes)
    BY WriteTypes
  <1>2. w \in Write /\ w.at = at
    BY <1>1 DEF Write, Stages
  <1>3. /\ w.class = writes[i].class /\ w.value = writes[i].value
        /\ w.version = writes[i].version /\ w.staged = writes[i].staged
        /\ w.presented = writes[i].presented /\ w.settled = writes[i].settled
        /\ w.current = writes[i].current /\ w.late = writes[i].late
        /\ w.before = writes[i].before /\ w.power = writes[i].power
    BY <1>1 DEF Write
  <1>4. writes' = [writes EXCEPT ![i] = w]
    BY <1>1 DEF At
  <1> HIDE DEF w
  <1>5. /\ writes' \in Seq(Write) /\ DOMAIN writes' = DOMAIN writes /\ Len(writes') = Len(writes)
        /\ writes'[i] = w /\ \A j \in DOMAIN writes : j # i => writes'[j] = writes[j]
    BY <1>1, <1>2, <1>4 DEF TypeOK
  <1> QED
    BY <1>2, <1>3, <1>5 DEF Goes, Updated

LEMMA NewestStays ==
  ASSUME NEW i, Updated(i)
  PROVE  \A k \in DOMAIN writes : Newest(k)' <=> Newest(k)
  BY DEF Updated, Newest

LEMMA Adds ==
  ASSUME PresentationConstants, TypeOK, NEW w \in Write, Added(w), Len(writes) < MaxCalls, NEW n,
         n = Next1
  PROVE  /\ writes' \in Seq(Write) /\ Len(writes') = Len(writes) + 1 /\ Len(writes') <= MaxCalls
         /\ DOMAIN writes = 1..Len(writes) /\ DOMAIN writes' = 1..n /\ n = Len(writes) + 1
         /\ n \in 1..MaxCalls
         /\ \A j \in DOMAIN writes : writes'[j] = writes[j] /\ j \in DOMAIN writes' /\ j < n
         /\ \A j \in DOMAIN writes' : j \in DOMAIN writes \/ j = n
         /\ writes'[n] = w /\ n \notin DOMAIN writes
         /\ \A k \in DOMAIN writes : Newest(k)' => Newest(k) /\ writes[k].class # w.class
  <1>1. /\ writes' \in Seq(Write) /\ Len(writes') = Len(writes) + 1 /\ Len(writes') <= MaxCalls
        /\ DOMAIN writes = 1..Len(writes) /\ DOMAIN writes' = 1..n /\ n = Len(writes) + 1
        /\ n \in 1..MaxCalls
        /\ \A j \in DOMAIN writes : writes'[j] = writes[j] /\ j \in DOMAIN writes' /\ j < n
        /\ \A j \in DOMAIN writes' : j \in DOMAIN writes \/ j = n
        /\ writes'[n] = w /\ n \notin DOMAIN writes
    BY DEF PresentationConstants, TypeOK, Added, Next1
  <1>2. ASSUME NEW k \in DOMAIN writes, Newest(k)'
        PROVE  Newest(k) /\ writes[k].class # w.class
    BY <1>1, <1>2 DEF Newest
  <1> QED
    BY <1>1, <1>2

-----------------------------------------------------------------------------
(* The lock *)

\* Whoever takes the lock finds it free and nobody older waiting; one that goes on does
\* not take it again.
LEMMA LockKeeps ==
  ASSUME PresentationConstants, TypeOK, LockInv, OrderInv, NEW i, Updated(i), enabled' = enabled,
         writes'[i].at # "lock", MayTake(i) \/ (writes[i].at # "lock" /\ (Holds(i)' => Holds(i)))
  PROVE  LockInv' /\ OrderInv'
  <1>1. /\ \A j \in DOMAIN writes : j # i => (Holds(j)' <=> Holds(j))
        /\ \A j \in DOMAIN writes : Locks(writes[j])' <=> Locks(writes[j])
        /\ i \in DOMAIN writes /\ DOMAIN writes' = DOMAIN writes /\ DOMAIN writes \subseteq Nat
    BY DEF Updated, Holds, Locks, TypeOK
  <1>2. Holds(i)' => Holds(i) \/ \A j \in DOMAIN writes : ~Holds(j)
    BY DEF MayTake
  <1>3. LockInv'
    BY <1>1, <1>2 DEF LockInv
  <1>4. ASSUME NEW k \in DOMAIN writes, NEW j \in DOMAIN writes, j < k,
               Locks(writes[k]), Locks(writes[j]), writes'[k].at # "lock"
        PROVE  writes'[j].at # "lock" /\ ~Holds(j)'
    <2>1. writes[k].at # "lock" => writes[j].at # "lock" /\ ~Holds(j)
      BY <1>4 DEF OrderInv
    <2>2. CASE k = i
      BY <1>1, <1>4, <2>1, <2>2 DEF MayTake, Updated
    <2>3. CASE k # i /\ j # i
      BY <1>1, <1>4, <2>1, <2>3 DEF Updated
    <2>4. CASE k # i /\ j = i
      BY <1>1, <1>4, <2>1, <2>4 DEF MayTake, Updated
    <2> QED
      BY <2>2, <2>3, <2>4
  <1> QED
    BY <1>1, <1>3, <1>4 DEF OrderInv

\* A new call waits for the lock, or needs none.
LEMMA LockAdds ==
  ASSUME PresentationConstants, TypeOK, LockInv, OrderInv, NEW w \in Write, Added(w),
         Len(writes) < MaxCalls, enabled' = enabled, w.at # "saving", w.at = "lock" \/ ~Locks(w)
  PROVE  LockInv' /\ OrderInv'
  <1>0. PICK n : n = Next1
    OBVIOUS
  <1>1. /\ \A j \in DOMAIN writes : writes'[j] = writes[j] /\ j < n
        /\ \A j \in DOMAIN writes' : j \in DOMAIN writes \/ j = n
        /\ writes'[n] = w /\ n \notin DOMAIN writes /\ DOMAIN writes \subseteq Nat /\ n \in Nat
    BY <1>0, Adds
  <1>2. ~Holds(n)'
    BY <1>1 DEF Holds, Locks
  <1>3. \A j \in DOMAIN writes : (Holds(j)' <=> Holds(j)) /\
            (Locks(writes[j])' <=> Locks(writes[j]))
    BY <1>1 DEF Holds, Locks
  <1>4. LockInv'
    BY <1>1, <1>2, <1>3 DEF LockInv
  <1>5. ASSUME NEW k \in DOMAIN writes', NEW j \in DOMAIN writes', j < k,
               Locks(writes[k])', Locks(writes[j])', writes'[k].at # "lock"
        PROVE  writes'[j].at # "lock" /\ ~Holds(j)'
    <2>1. k # n
      BY <1>1, <1>5 DEF Locks
    <2>2. k \in DOMAIN writes /\ j \in DOMAIN writes
      BY <1>1, <1>5, <2>1
    <2> QED
      BY <1>1, <1>3, <1>5, <2>2 DEF OrderInv
  <1> QED
    BY <1>4, <1>5 DEF OrderInv

-----------------------------------------------------------------------------
(* What is presented *)

LEMMA WriteFacts ==
  ASSUME PresentationConstants, TypeOK, StageInv
  PROVE  /\ \A i \in DOMAIN writes : writes[i].class \in play /\ writes[i].class \in Classes
         /\ \A i, j \in DOMAIN writes :
                writes[i].class.field = writes[j].class.field => writes[i].class = writes[j].class
         /\ DOMAIN writes = 1..Len(writes) /\ Len(writes) \in Nat
  <1>1. play \in Plays /\ \A i \in DOMAIN writes : writes[i].class \in play
    BY DEF TypeOK, StageInv, Stage
  <1> QED
    BY <1>1, PlayFacts DEF TypeOK

LEMMA StageKeeps ==
  ASSUME StageInv, NEW i, Updated(i), UNCHANGED <<play, enabled, version>>, Stage(i)'
  PROVE  StageInv'
  <1>1. ASSUME NEW j \in DOMAIN writes, j # i PROVE Stage(j)'
    BY <1>1 DEF StageInv, Stage, Updated, Locks
  <1> QED
    BY <1>1 DEF StageInv, Updated

\* A write that presented nothing goes on, or one that did is answered, and nothing of
\* the presentation changes but who owns it.
LEMMA PresentStays ==
  ASSUME PresentationConstants, TypeOK, StageInv, OwnerInv, WaitInv, FailedInv,
         NEW i, NEW at, Updated(i), writes'[i].at = at, writes'[i].presented = writes[i].presented,
         writes'[i].settled = writes[i].settled, UNCHANGED <<pend, live, report>>,
         \A f \in Fields : f # "power" => shown'[f] = shown[f],
         \/ ~writes[i].presented /\ at \notin {"sent", "again"} /\ owner' = owner
         \/ writes[i].presented /\ writes[i].at \in {"sent", "again"} /\ at = "again" /\
                owner' = owner
         \/ writes[i].presented /\ writes[i].at \in {"sent", "again"} /\ at = "ok" /\ Released(i)
  PROVE  OwnerInv' /\ WaitInv' /\ FailedInv'
  <1>1. /\ Updated(i) /\ i \in DOMAIN writes /\ DOMAIN writes' = DOMAIN writes /\ i # 0
        /\ \A k \in DOMAIN writes : writes'[k].class = writes[k].class /\
               writes'[k].value = writes[k].value
        /\ \A k \in DOMAIN writes : writes'[k].presented = writes[k].presented
        /\ \A k \in DOMAIN writes : writes'[k].settled = writes[k].settled
        /\ \A k \in DOMAIN writes : k # i => writes'[k].at = writes[k].at
        /\ writes'[i].at = at
    BY WriteFacts DEF Updated
  <1>2. \A k \in DOMAIN writes : Newest(k)' <=> Newest(k)
    BY <1>1, NewestStays
  <1>3. /\ \A k \in DOMAIN writes : writes[k].class \in Classes /\ writes[k].class.field \in Fields
        /\ \A k \in DOMAIN writes : writes[k].class.shows # "wanted" =>
               writes[k].class.field # "power"
        /\ \A k \in DOMAIN writes : writes[k].class.via = "power" => writes[k].class.field = "power"
    BY WriteFacts, ClassFacts
  <1>4. /\ \A k \in DOMAIN writes : k # i =>
               (owner'[writes[k].class.field] = k <=> owner[writes[k].class.field] = k)
        /\ \A f \in Fields : owner'[f] = owner[f] \/ (owner'[f] = 0 /\ owner[f] = i /\ at = "ok")
        /\ \A k \in DOMAIN writes : k # 0
    <2>1. \A k \in DOMAIN writes : k # 0
      BY WriteFacts
    <2>2. \A f \in Fields : owner'[f] = owner[f] \/ (owner'[f] = 0 /\ owner[f] = i /\ at = "ok")
      BY <1>1 DEF Released
    <2> QED
      BY <1>3, <2>1, <2>2
  <1>5. ASSUME NEW k \in DOMAIN writes
        PROVE  /\ Newest(k) /\ writes[k].presented => owner'[writes[k].class.field] \in {0, k}
               /\ Newest(k) /\ writes'[k].at \in {"sent", "again"} =>
                      owner'[writes[k].class.field] = k
               /\ writes[k].class.via = "power" /\ writes'[k].at = "sent" => owner'["power"] = k
    <2>1. /\ Newest(k) /\ writes[k].presented => owner[writes[k].class.field] \in {0, k}
          /\ Newest(k) /\ writes[k].at \in {"sent", "again"} => owner[writes[k].class.field] = k
          /\ writes[k].class.via = "power" /\ writes[k].at = "sent" => owner["power"] = k
      BY DEF OwnerInv
    <2>2. CASE k # i
      BY <1>1, <1>3, <1>4, <2>1, <2>2
    <2>3. CASE k = i
      BY <1>1, <1>3, <1>4, <2>1, <2>3
    <2> QED
      BY <2>2, <2>3
  <1>6. OwnerInv'
    BY <1>1, <1>2, <1>5 DEF OwnerInv
  <1>7. WaitInv'
    BY <1>1, <1>2, <1>3 DEF WaitInv
  <1>8. \A k \in DOMAIN writes : writes'[k].at = "failed" /\ writes[k].presented =>
            writes[k].at = "failed"
    BY <1>1
  <1>9. FailedInv'
    BY <1>1, <1>2, <1>3, <1>8 DEF FailedInv
  <1> QED
    BY <1>6, <1>7, <1>9

\* What a failure or a refusal clears is its own.
LEMMA PresentClears ==
  ASSUME PresentationConstants, TypeOK, StageInv, OwnerInv, WaitInv, FailedInv, DataInv,
         NEW i, NEW at \in {"failed", "refused"}, Goes(i, at), Cleared(i), UNCHANGED <<live,
         report>>,
         writes[i].presented => writes[i].at \in {"sent", "again"}
  PROVE  OwnerInv' /\ WaitInv' /\ FailedInv'
  <1> DEFINE g == writes[i].class.field
  <1>1. /\ Updated(i) /\ i \in DOMAIN writes /\ DOMAIN writes' = DOMAIN writes
        /\ \A k \in DOMAIN writes : writes'[k].class = writes[k].class /\
               writes'[k].value = writes[k].value
        /\ \A k \in DOMAIN writes : writes'[k].presented = writes[k].presented
        /\ \A k \in DOMAIN writes : writes'[k].settled = writes[k].settled
        /\ \A k \in DOMAIN writes : k # i => writes'[k].at = writes[k].at
        /\ writes'[i].at = at
    BY WriteFacts DEF Goes, Updated
  <1>2. \A k \in DOMAIN writes : Newest(k)' <=> Newest(k)
    BY <1>1, NewestStays
  <1>3. /\ \A k \in DOMAIN writes : writes[k].class \in Classes /\
               writes[k].class.field \in Fields /\ k # 0
        /\ \A k \in DOMAIN writes : writes[k].class.shows # "wanted" =>
               writes[k].class.field # "power"
        /\ \A k \in DOMAIN writes : writes[k].class.via = "power" => writes[k].class.field = "power"
    BY WriteFacts, ClassFacts
  <1>4. /\ \A f \in Fields : f # g \/ owner[g] # i =>
               pend'[f] = pend[f] /\ shown'[f] = shown[f] /\ owner'[f] = owner[f]
        /\ owner[g] = i => pend'[g] = None /\ owner'[g] = 0
        /\ owner[g] = i /\ g # "power" => shown'[g] = report[g]
    <2>1. g \in Fields
      BY <1>1, <1>3
    <2>2. CASE owner[g] # i
      BY <2>2 DEF Cleared
    <2>3. CASE owner[g] = i
      <3>1. /\ pend' = [pend EXCEPT ![g] = None] /\ owner' = [owner EXCEPT ![g] = 0]
            /\ shown' = [shown EXCEPT ![g] = Show(writes[i].class, data', None, FALSE)]
        BY <2>3 DEF Cleared
      <3>2. \A f \in Fields : f # g =>
               pend'[f] = pend[f] /\ shown'[f] = shown[f] /\ owner'[f] = owner[f]
        BY <3>1 DEF TypeOK
      <3>3. pend'[g] = None /\ owner'[g] = 0
        BY <2>1, <3>1 DEF TypeOK
      <3>4. ASSUME g # "power" PROVE shown'[g] = report[g]
        <4>1. data' = data
          BY <2>3, <3>4 DEF Cleared
        <4>2. writes[i].class.shows # "wanted"
          BY <1>1, <1>3, <3>4, ClassFacts
        <4>3. Show(writes[i].class, data', None, FALSE) = data[g]
          BY <4>1, <4>2 DEF Show, Waits
        <4>4. data[g] = report[g]
          BY <2>1, <3>4 DEF DataInv
        <4> QED
          BY <2>1, <3>1, <4>3, <4>4 DEF TypeOK
      <3> QED
        BY <2>3, <3>2, <3>3, <3>4
    <2> QED
      BY <2>2, <2>3
  <1>5. \A k \in DOMAIN writes : k # i /\ Newest(k) /\ writes[k].presented /\
            writes[k].class.field = g => owner[g] # i
    BY <1>3, <1>1 DEF OwnerInv
  <1>6. ASSUME NEW k \in DOMAIN writes
        PROVE  /\ Newest(k) /\ writes[k].presented => owner'[writes[k].class.field] \in {0, k}
               /\ Newest(k) /\ writes'[k].at \in {"sent", "again"} =>
                      owner'[writes[k].class.field] = k
               /\ writes[k].class.via = "power" /\ writes'[k].at = "sent" => owner'["power"] = k
    <2>1. /\ Newest(k) /\ writes[k].presented => owner[writes[k].class.field] \in {0, k}
          /\ Newest(k) /\ writes[k].at \in {"sent", "again"} => owner[writes[k].class.field] = k
          /\ writes[k].class.via = "power" /\ writes[k].at = "sent" => owner["power"] = k
          /\ writes[k].at \in {"sent", "again"} => writes[k].presented
      BY DEF OwnerInv, StageInv, Stage
    <2>2. CASE k # i
      BY <1>1, <1>3, <1>4, <1>5, <2>1, <2>2
    <2>3. CASE k = i
      BY <1>1, <1>3, <1>4, <2>1, <2>3
    <2> QED
      BY <2>2, <2>3
  <1>7. OwnerInv'
    BY <1>1, <1>2, <1>6 DEF OwnerInv
  <1>8. WaitInv'
    BY <1>1, <1>2, <1>3, <1>4, <1>5 DEF WaitInv
  <1>9. ASSUME NEW k \in DOMAIN writes, Newest(k), writes[k].class.shows # "wanted",
               writes[k].presented, writes'[k].at = "failed"
        PROVE  pend'[writes[k].class.field] = None /\
                   shown'[writes[k].class.field] = report[writes[k].class.field]
    <2>1. CASE k # i
      BY <1>1, <1>3, <1>4, <1>5, <1>9, <2>1 DEF FailedInv
    <2>2. CASE k = i
      BY <1>1, <1>3, <1>4, <1>9, <2>2 DEF OwnerInv
    <2> QED
      BY <2>1, <2>2
  <1>10. FailedInv'
    BY <1>1, <1>2, <1>9 DEF FailedInv
  <1> QED
    BY <1>7, <1>8, <1>10

\* To present a write touches nothing but its field.
LEMMA PresentsField ==
  ASSUME TypeOK, NEW c \in Classes, NEW v, Presents(c, v), c.field \in Fields
  PROVE  /\ \A f \in Fields : f # c.field =>
                pend'[f] = pend[f] /\ shown'[f] = shown[f] /\ live'[f] = live[f]
         /\ c.shows = "pending" => pend'[c.field] = v /\ live'[c.field] /\ shown'[c.field] = v
         /\ c.shows # "pending" => pend' = pend /\ live' = live
  <1>1. CASE c.shows = "pending"
    BY <1>1 DEF Presents, TypeOK
  <1>2. CASE c.shows # "pending"
    BY <1>2 DEF Presents, TypeOK
  <1> QED
    BY <1>1, <1>2

\* A write is sent: nobody younger of its kind has presented anything.
LEMMA PresentSends ==
  ASSUME PresentationConstants, TypeOK, StageInv, LockInv, OrderInv, OwnerInv, WaitInv, FailedInv,
         DataInv,
         NEW i, Updated(i), writes'[i].at = "sent", writes'[i].presented,
         writes'[i].settled = writes[i].settled,
         owner' = [owner EXCEPT ![writes[i].class.field] = i],
         Presents(writes[i].class, writes[i].value),
         writes[i].at = "lock" \/ Holds(i), Locks(writes[i]), ~writes[i].presented,
         UNCHANGED report, LockInv', UNCHANGED enabled
  PROVE  OwnerInv' /\ WaitInv' /\ FailedInv'
  <1> DEFINE g == writes[i].class.field
  <1>1. /\ i \in DOMAIN writes /\ DOMAIN writes' = DOMAIN writes
        /\ \A k \in DOMAIN writes : k # i => writes'[k] = writes[k]
        /\ \A k \in DOMAIN writes : writes'[k].class = writes[k].class /\
               writes'[k].value = writes[k].value
    BY DEF Updated
  <1>2. \A k \in DOMAIN writes : Newest(k)' <=> Newest(k)
    BY NewestStays
  <1>3. /\ \A k \in DOMAIN writes : writes[k].class \in Classes /\
               writes[k].class.field \in Fields /\ k # 0
        /\ \A k \in DOMAIN writes : writes[k].class.shows # "wanted" =>
               writes[k].class.field # "power"
        /\ \A k \in DOMAIN writes : writes[k].class.via = "power" <=>
               writes[k].class.field = "power"
        /\ \A k \in DOMAIN writes : writes[k].class.field = g => writes[k].class = writes[i].class
    BY <1>1, WriteFacts, ClassFacts
  <1>4. ASSUME NEW k \in DOMAIN writes, Newest(k), writes[k].presented, writes[k].class.field = g
        PROVE  FALSE
    <2>1. writes[k].class = writes[i].class /\ i <= k /\ i # k
      BY <1>1, <1>3, <1>4 DEF Newest
    <2>2. i < k
      BY <2>1, <1>1, WriteFacts
    <2>3. writes[k].at # "lock"
      BY <1>4 DEF StageInv, Stage
    <2> QED
      BY <1>1, <2>1, <2>2, <2>3 DEF OrderInv, Locks
  <1>5. /\ \A f \in Fields : f # g => pend'[f] = pend[f] /\ shown'[f] = shown[f] /\
               owner'[f] = owner[f] /\ live'[f] = live[f]
        /\ owner'[g] = i
        /\ writes[i].class.shows = "pending" =>
               pend'[g] = writes[i].value /\ live'[g] /\ shown'[g] = writes[i].value
    BY <1>1, <1>3, PresentsField DEF TypeOK
  <1>6. ASSUME NEW k \in DOMAIN writes
        PROVE  /\ Newest(k) /\ writes'[k].presented => owner'[writes[k].class.field] \in {0, k}
               /\ Newest(k) /\ writes'[k].at \in {"sent", "again"} =>
                      owner'[writes[k].class.field] = k
               /\ writes[k].class.via = "power" /\ writes'[k].at = "sent" => owner'["power"] = k
    <2>1. /\ Newest(k) /\ writes[k].presented => owner[writes[k].class.field] \in {0, k}
          /\ Newest(k) /\ writes[k].at \in {"sent", "again"} => owner[writes[k].class.field] = k
          /\ writes[k].class.via = "power" /\ writes[k].at = "sent" => owner["power"] = k
          /\ writes[k].at \in {"sent", "again"} => writes[k].presented
      BY DEF OwnerInv, StageInv, Stage
    <2>2. CASE k = i
      BY <1>3, <1>5, <2>2
    <2>3. CASE k # i
      <3>1. writes[k].class.via = "power" /\ writes'[k].at = "sent" => g # "power"
        BY <1>1, <1>3, <2>3 DEF LockInv, Holds
      <3> QED
        BY <1>1, <1>3, <1>4, <1>5, <2>1, <2>3, <3>1
    <2> QED
      BY <2>2, <2>3
  <1>7. OwnerInv'
    BY <1>1, <1>2, <1>6 DEF OwnerInv
  <1>8. WaitInv'
    <2>1. ASSUME NEW k \in DOMAIN writes, Newest(k), writes[k].class.shows = "pending",
                 writes'[k].presented, writes'[k].at \in {"sent", "again", "ok"},
                 ~writes'[k].settled
          PROVE  pend'[writes[k].class.field] = writes[k].value /\ live'[writes[k].class.field] /\
                     shown'[writes[k].class.field] = writes[k].value
      BY <1>1, <1>3, <1>4, <1>5, <2>1 DEF WaitInv
    <2> QED
      BY <1>1, <1>2, <2>1 DEF WaitInv
  <1>9. FailedInv'
    <2>1. ASSUME NEW k \in DOMAIN writes, Newest(k), writes[k].class.shows # "wanted",
                 writes'[k].presented, writes'[k].at = "failed"
          PROVE  pend'[writes[k].class.field] = None /\
                     shown'[writes[k].class.field] = report[writes[k].class.field]
      BY <1>1, <1>3, <1>4, <1>5, <2>1 DEF FailedInv
    <2> QED
      BY <1>1, <1>2, <2>1 DEF FailedInv
  <1> QED
    BY <1>7, <1>8, <1>9

\* A new call makes the older ones of its kind old.
LEMMA PresentAdds ==
  ASSUME PresentationConstants, TypeOK, StageInv, OwnerInv, WaitInv, FailedInv,
         NEW w \in Write, Added(w), Len(writes) < MaxCalls, w.class \in play, UNCHANGED <<report,
         play>>,
         \/ ~w.presented /\ w.at \in {"lock", "policy"} /\ UNCHANGED <<pend, live, shown>>
         \/ w.presented /\ w.at \in {"sent", "ok"} /\ Presents(w.class, w.value) /\
                w.class.via # "power" /\ Owned(w.class),
         owner' = owner \/ (Owned(w.class) /\ w.class.via # "power")
  PROVE  OwnerInv' /\ WaitInv' /\ FailedInv'
  <1> DEFINE g == w.class.field
  <1>1. PICK n : n = Next1
    OBVIOUS
  <1>2. /\ n \in 1..MaxCalls /\ DOMAIN writes' = 1..n /\ n \notin DOMAIN writes /\ writes'[n] = w
        /\ \A j \in DOMAIN writes : writes'[j] = writes[j]
        /\ \A j \in DOMAIN writes' : j \in DOMAIN writes \/ j = n
        /\ \A k \in DOMAIN writes : Newest(k)' => Newest(k) /\ writes[k].class # w.class
    BY <1>1, Adds
  <1>3. /\ \A k \in DOMAIN writes : writes[k].class \in Classes /\
               writes[k].class.field \in Fields /\ writes[k].class \in play
        /\ w.class \in Classes /\ g \in Fields
        /\ \A k \in DOMAIN writes : writes[k].class.via = "power" <=>
               writes[k].class.field = "power"
        /\ w.class.via = "power" <=> g = "power"
        /\ \A k \in DOMAIN writes : writes[k].class.field = g => writes[k].class = w.class
    BY WriteFacts, ClassFacts, PlayFacts DEF TypeOK, Write
  <1>4. /\ \A f \in Fields : f # g => pend'[f] = pend[f] /\ shown'[f] = shown[f] /\
               live'[f] = live[f] /\ owner'[f] = owner[f]
        /\ w.presented => owner'[g] = n
        /\ w.presented /\ w.class.shows = "pending" =>
               pend'[g] = w.value /\ live'[g] /\ shown'[g] = w.value
    BY <1>1, <1>3, PresentsField DEF Owned, TypeOK
  <1>5. OwnerInv'
    <2>1. ASSUME NEW k \in DOMAIN writes'
          PROVE  /\ Newest(k)' /\ writes'[k].presented => owner'[writes'[k].class.field] \in {0, k}
                 /\ Newest(k)' /\ writes'[k].at \in {"sent", "again"} =>
                        owner'[writes'[k].class.field] = k
                 /\ writes'[k].class.via = "power" /\ writes'[k].at = "sent" => owner'["power"] = k
      <3>1. CASE k = n
        BY <1>2, <1>3, <1>4, <3>1
      <3>2. CASE k \in DOMAIN writes
        BY <1>2, <1>3, <1>4, <3>2 DEF OwnerInv, Owned
      <3> QED
        BY <1>2, <3>1, <3>2
    <2> QED
      BY <2>1 DEF OwnerInv
  <1>6. WaitInv'
    <2>1. ASSUME NEW k \in DOMAIN writes', Newest(k)', writes'[k].class.shows = "pending",
                 writes'[k].presented, writes'[k].at \in {"sent", "again", "ok"},
                 ~writes'[k].settled
          PROVE  pend'[writes'[k].class.field] = writes'[k].value /\
                     live'[writes'[k].class.field] /\
                         shown'[writes'[k].class.field] = writes'[k].value
      <3>1. CASE k = n
        BY <1>2, <1>3, <1>4, <2>1, <3>1
      <3>2. CASE k \in DOMAIN writes
        BY <1>2, <1>3, <1>4, <2>1, <3>2 DEF WaitInv
      <3> QED
        BY <1>2, <3>1, <3>2
    <2> QED
      BY <2>1 DEF WaitInv
  <1>7. FailedInv'
    <2>1. ASSUME NEW k \in DOMAIN writes', Newest(k)', writes'[k].class.shows # "wanted",
                 writes'[k].presented, writes'[k].at = "failed"
          PROVE  pend'[writes'[k].class.field] = None /\
                     shown'[writes'[k].class.field] = report[writes'[k].class.field]
      <3>1. CASE k = n
        BY <1>2, <2>1, <3>1
      <3>2. CASE k \in DOMAIN writes
        BY <1>2, <1>3, <1>4, <2>1, <3>2 DEF FailedInv
      <3> QED
        BY <1>2, <3>1, <3>2
    <2> QED
      BY <2>1 DEF FailedInv
  <1> QED
    BY <1>5, <1>6, <1>7

\* The policy is through with a mode: that holds the lock, so no younger one has
\* presented anything.
LEMMA PresentPolicyMode ==
  ASSUME PresentationConstants, TypeOK, StageInv, OrderInv, OwnerInv, WaitInv, FailedInv,
         NEW i, Goes(i, "ok"), Released(i), writes[i].at = "policy", writes[i].class.via = "mode",
         pend' = [pend EXCEPT !["mode"] = None], UNCHANGED <<live, shown, report>>
  PROVE  OwnerInv' /\ WaitInv' /\ FailedInv'
  <1>1. /\ Updated(i) /\ i \in DOMAIN writes /\ DOMAIN writes' = DOMAIN writes /\
               writes'[i].at = "ok"
        /\ \A k \in DOMAIN writes : k # i => writes'[k] = writes[k]
        /\ \A k \in DOMAIN writes : writes'[k].class = writes[k].class /\
               writes'[k].value = writes[k].value
        /\ \A k \in DOMAIN writes : writes'[k].presented = writes[k].presented
        /\ ~writes[i].presented /\ Locks(writes[i]) /\ Holds(i)
    BY DEF Goes, Updated, StageInv, Stage, Locks, Holds
  <1>2. \A k \in DOMAIN writes : Newest(k)' <=> Newest(k)
    BY <1>1, NewestStays
  <1>3. /\ \A k \in DOMAIN writes : writes[k].class \in Classes /\
               writes[k].class.field \in Fields /\ k # 0
        /\ \A k \in DOMAIN writes : writes[k].class.via = "power" <=>
               writes[k].class.field = "power"
        /\ writes[i].class.field = "mode"
        /\ \A k \in DOMAIN writes : writes[k].class.field = "mode" =>
               writes[k].class = writes[i].class
    BY <1>1, WriteFacts, ClassFacts
  <1>4. ASSUME NEW k \in DOMAIN writes, Newest(k), writes[k].presented,
               writes[k].class.field = "mode"
        PROVE  FALSE
    <2>1. writes[k].class = writes[i].class /\ i <= k /\ i # k
      BY <1>1, <1>3, <1>4 DEF Newest
    <2>2. i < k
      BY <2>1, <1>1, WriteFacts
    <2>3. writes[k].at # "lock"
      BY <1>4 DEF StageInv, Stage
    <2> QED
      BY <1>1, <2>1, <2>2, <2>3 DEF OrderInv, Locks
  <1>5. /\ \A f \in Fields : f # "mode" => pend'[f] = pend[f]
        /\ \A f \in Fields : \A k \in DOMAIN writes : owner[f] = k /\ k # i => owner'[f] = k
        /\ \A f \in Fields : owner[f] = 0 => owner'[f] = 0
    BY <1>1 DEF TypeOK, Released
  <1>6. OwnerInv'
    <2>1. ASSUME NEW k \in DOMAIN writes
          PROVE  /\ Newest(k) /\ writes'[k].presented => owner'[writes[k].class.field] \in {0, k}
                 /\ Newest(k) /\ writes'[k].at \in {"sent", "again"} =>
                        owner'[writes[k].class.field] = k
                 /\ writes[k].class.via = "power" /\ writes'[k].at = "sent" => owner'["power"] = k
      <3>1. /\ Newest(k) /\ writes[k].presented => owner[writes[k].class.field] \in {0, k}
            /\ Newest(k) /\ writes[k].at \in {"sent", "again"} => owner[writes[k].class.field] = k
            /\ writes[k].class.via = "power" /\ writes[k].at = "sent" => owner["power"] = k
        BY DEF OwnerInv
      <3> QED
        BY <1>1, <1>3, <1>5, <3>1 DEF Fields
    <2> QED
      BY <1>1, <1>2, <2>1 DEF OwnerInv
  <1>7. WaitInv'
    <2>1. ASSUME NEW k \in DOMAIN writes, Newest(k), writes[k].class.shows = "pending",
                 writes'[k].presented, writes'[k].at \in {"sent", "again", "ok"},
                 ~writes'[k].settled
          PROVE  pend'[writes[k].class.field] = writes[k].value /\ live[writes[k].class.field] /\
                     shown[writes[k].class.field] = writes[k].value
      BY <1>1, <1>3, <1>4, <1>5, <2>1 DEF WaitInv
    <2> QED
      BY <1>1, <1>2, <2>1 DEF WaitInv
  <1>8. FailedInv'
    <2>1. ASSUME NEW k \in DOMAIN writes, Newest(k), writes[k].class.shows # "wanted",
                 writes'[k].presented, writes'[k].at = "failed"
          PROVE  pend'[writes[k].class.field] = None /\
                     shown[writes[k].class.field] = report[writes[k].class.field]
      BY <1>1, <1>3, <1>4, <1>5, <2>1 DEF FailedInv
    <2> QED
      BY <1>1, <1>2, <2>1 DEF FailedInv
  <1> QED
    BY <1>6, <1>7, <1>8

\* The policy is through with the newest command, which is now presented.
LEMMA PresentCommand ==
  ASSUME PresentationConstants, TypeOK, StageInv, OwnerInv, WaitInv, FailedInv,
         NEW i, Updated(i), writes'[i].at = "ok", writes'[i].presented,
         writes'[i].settled = writes[i].settled,
         writes[i].class.via = "charging", owner["own"] = i,
         Presents(writes[i].class, writes[i].value),
         UNCHANGED <<owner, report>>
  PROVE  OwnerInv' /\ WaitInv' /\ FailedInv'
  <1>1. /\ i \in DOMAIN writes /\ DOMAIN writes' = DOMAIN writes
        /\ \A k \in DOMAIN writes : k # i => writes'[k] = writes[k]
        /\ \A k \in DOMAIN writes : writes'[k].class = writes[k].class /\
               writes'[k].value = writes[k].value
    BY DEF Updated
  <1>2. \A k \in DOMAIN writes : Newest(k)' <=> Newest(k)
    BY NewestStays
  <1>3. /\ \A k \in DOMAIN writes : writes[k].class \in Classes /\
               writes[k].class.field \in Fields /\ k # 0
        /\ \A k \in DOMAIN writes : writes[k].class.via = "power" <=>
               writes[k].class.field = "power"
        /\ writes[i].class.field = "own" /\ writes[i].class.shows = "pending"
    BY <1>1, WriteFacts, ClassFacts DEF Fields
  <1>4. \A k \in DOMAIN writes : k # i /\ Newest(k) /\ writes[k].presented =>
            writes[k].class.field # "own"
    BY <1>1, <1>3 DEF OwnerInv
  <1>5. /\ \A f \in Fields : f # "own" =>
               pend'[f] = pend[f] /\ shown'[f] = shown[f] /\ live'[f] = live[f]
        /\ pend'["own"] = writes[i].value /\ live'["own"] /\ shown'["own"] = writes[i].value
    BY <1>1, <1>3, PresentsField
  <1>6. OwnerInv'
    <2>1. ASSUME NEW k \in DOMAIN writes
          PROVE  /\ Newest(k) /\ writes'[k].presented => owner[writes[k].class.field] \in {0, k}
                 /\ Newest(k) /\ writes'[k].at \in {"sent", "again"} =>
                        owner[writes[k].class.field] = k
                 /\ writes[k].class.via = "power" /\ writes'[k].at = "sent" => owner["power"] = k
      BY <1>1, <1>3 DEF OwnerInv
    <2> QED
      BY <1>1, <1>2, <2>1 DEF OwnerInv
  <1>7. WaitInv'
    <2>1. ASSUME NEW k \in DOMAIN writes, Newest(k), writes[k].class.shows = "pending",
                 writes'[k].presented, writes'[k].at \in {"sent", "again", "ok"},
                 ~writes'[k].settled
          PROVE  pend'[writes[k].class.field] = writes[k].value /\ live'[writes[k].class.field] /\
                     shown'[writes[k].class.field] = writes[k].value
      BY <1>1, <1>3, <1>4, <1>5, <2>1 DEF WaitInv
    <2> QED
      BY <1>1, <1>2, <2>1 DEF WaitInv
  <1>8. FailedInv'
    <2>1. ASSUME NEW k \in DOMAIN writes, Newest(k), writes[k].class.shows # "wanted",
                 writes'[k].presented, writes'[k].at = "failed"
          PROVE  pend'[writes[k].class.field] = None /\
                     shown'[writes[k].class.field] = report[writes[k].class.field]
      BY <1>1, <1>3, <1>4, <1>5, <2>1 DEF FailedInv
    <2> QED
      BY <1>1, <1>2, <2>1 DEF FailedInv
  <1> QED
    BY <1>6, <1>7, <1>8

-----------------------------------------------------------------------------
(* The shared data *)

LEMMA OneSends ==
  ASSUME LockInv, NEW i \in DOMAIN writes, NEW j \in DOMAIN writes, writes[j].class.via = "power",
         writes[j].at = "sent",
         Holds(i)
  PROVE  i = j
  BY DEF LockInv, Holds

\* A write is answered, or goes on to be.
LEMMA DataStays ==
  ASSUME LockInv, StageInv, DataInv, NEW i, Updated(i), UNCHANGED <<data, report>>,
         writes'[i].at # "sent", writes[i].at # "ok", writes'[i].current = writes[i].current,
         writes[i].class = PowerNumber /\ writes[i].at = "sent" => writes'[i].at = "ok"
  PROVE  DataInv'
  <1>1. /\ i \in DOMAIN writes /\ DOMAIN writes' = DOMAIN writes
        /\ \A k \in DOMAIN writes : k # i => writes'[k] = writes[k]
        /\ writes'[i].class = writes[i].class /\ writes'[i].value = writes[i].value
        /\ writes'[i].staged = writes[i].staged
    BY DEF Updated
  <1>2. ASSUME NEW v, Accepted(v) PROVE Accepted(v)'
    BY <1>1, <1>2 DEF Accepted
  <1>3. ASSUME writes[i].class = PowerNumber, writes[i].at = "sent"
        PROVE  data["power"] = report["power"] \/ Accepted(data["power"])'
    <2>1. writes[i].class.via = "power" /\ ~writes[i].staged
      BY <1>1, <1>3, PowerClasses DEF StageInv, Stage
    <2>2. IF writes[i].current THEN data["power"] = writes[i].value ELSE data["power"] = report["power"]
      BY <1>1, <1>3, <2>1 DEF DataInv
    <2> QED
      BY <1>1, <1>3, <2>1, <2>2 DEF Accepted
  <1>4. \/ data["power"] = report["power"] \/ Accepted(data["power"])'
        \/ \E k \in DOMAIN writes : writes'[k].class = PowerNumber /\ writes'[k].at = "sent"
    BY <1>1, <1>2, <1>3 DEF DataInv
  <1>5. ASSUME NEW k \in DOMAIN writes, writes'[k].class.via = "power", writes'[k].at = "sent"
        PROVE  IF writes'[k].current
               THEN /\ writes'[k].class = PowerNumber => data["power"] = writes'[k].value
                    /\ \/ writes'[k].before["power"] = report["power"]
                       \/ Accepted(writes[k].before["power"])' /\
                              writes'[k].before = writes[k].before
               ELSE data["power"] = report["power"]
    BY <1>1, <1>2, <1>5 DEF DataInv
  <1> QED
    BY <1>1, <1>4, <1>5 DEF DataInv, Accepted

\* What a failed power wrote is taken back, but for what was reported since.
LEMMA DataClears ==
  ASSUME PresentationConstants, TypeOK, LockInv, StageInv, OwnerInv, DataInv, NEW i,
         NEW at \in {"failed", "refused"}, Goes(i, at), Cleared(i), UNCHANGED report,
         writes[i].at # "ok",
         writes[i].class.via = "power" => writes[i].at = "sent"
  PROVE  DataInv'
  <1>1. /\ i \in DOMAIN writes /\ DOMAIN writes' = DOMAIN writes
        /\ \A k \in DOMAIN writes : k # i => writes'[k] = writes[k]
        /\ writes'[i].class = writes[i].class /\ writes'[i].value = writes[i].value
        /\ writes'[i].staged = writes[i].staged /\ writes'[i].at \notin {"ok", "sent"}
        /\ writes'[i].current = writes[i].current
    BY DEF Goes, Updated
  <1>2. ASSUME NEW v, Accepted(v) PROVE Accepted(v)'
    BY <1>1, <1>2 DEF Accepted
  <1>3. writes[i].class.via = "power" <=> writes[i].class.field = "power"
    BY <1>1, WriteFacts, ClassFacts
  <1>4. CASE writes[i].class.via # "power"
    <2>1. data' = data
      BY <1>3, <1>4 DEF Cleared
    <2> QED
      BY <1>1, <1>4, <2>1, DataStays, PowerClasses DEF Goes
  <1>5. CASE writes[i].class.via = "power"
    <2>1. writes[i].at = "sent" /\ owner["power"] = i /\ Holds(i)
      BY <1>1, <1>5 DEF OwnerInv, Holds
    <2>2. \A k \in DOMAIN writes : writes[k].class.via = "power" /\ writes[k].at = "sent" => k = i
      BY <1>1, <2>1, OneSends
    <2>3. data' = IF writes[i].current /\ data["power"] = writes[i].value
                  THEN [data EXCEPT !["power"] = writes[i].before["power"]] ELSE data
      BY <1>3, <1>5, <2>1 DEF Cleared
    <2>4. \A f \in Fields : f # "power" => data'[f] = report[f]
      BY <2>3 DEF DataInv, TypeOK
    <2>5. data'["power"] = report["power"] \/ Accepted(data'["power"])
      <3>1. CASE writes[i].current /\ data["power"] = writes[i].value
        <4>1. data'["power"] = writes[i].before["power"]
          BY <2>3, <3>1 DEF TypeOK, Fields
        <4>2. writes[i].before["power"] = report["power"] \/ Accepted(writes[i].before["power"])
          BY <1>1, <1>5, <2>1, <3>1 DEF DataInv
        <4> QED
          BY <4>1, <4>2
      <3>2. CASE ~(writes[i].current /\ data["power"] = writes[i].value)
        <4>1. data' = data
          BY <2>3, <3>2
        <4>2. data["power"] = report["power"] \/ Accepted(data["power"])
          BY <1>1, <1>5, <2>1, <2>2, <3>2, PowerClasses DEF DataInv
        <4> QED
          BY <4>1, <4>2
      <3> QED
        BY <3>1, <3>2
    <2>6. PICK v : v = data'["power"]
      OBVIOUS
    <2>7. data'["power"] = report["power"] \/ Accepted(v)'
      BY <1>2, <2>5, <2>6
    <2>8. data'["power"] = report["power"] \/ Accepted(data["power"])'
      BY <2>6, <2>7 DEF Accepted
    <2>9. \A k \in DOMAIN writes : ~(writes'[k].class.via = "power" /\ writes'[k].at = "sent")
      BY <1>1, <2>2
    <2> QED
      BY <1>1, <2>4, <2>8, <2>9 DEF DataInv
  <1> QED
    BY <1>4, <1>5

\* A power is sent: what was there is known from before.
LEMMA DataSends ==
  ASSUME PresentationConstants, TypeOK, LockInv, StageInv, DataInv, NEW i, Updated(i),
         UNCHANGED report,
         writes'[i].at = "sent", writes[i].at \in {"lock", "saving"},
         MayTake(i) \/ Holds(i),
         data' = IF writes[i].class = PowerNumber THEN [data EXCEPT !["power"] = writes[i].value] ELSE data,
         writes[i].class.via = "power" => writes'[i].current /\ writes'[i].before = data
  PROVE  DataInv'
  <1>1. /\ i \in DOMAIN writes /\ DOMAIN writes' = DOMAIN writes
        /\ \A k \in DOMAIN writes : k # i => writes'[k] = writes[k]
        /\ writes'[i].class = writes[i].class /\ writes'[i].value = writes[i].value
        /\ writes'[i].staged = writes[i].staged
    BY DEF Updated
  <1>2. ASSUME NEW v, Accepted(v) PROVE Accepted(v)'
    BY <1>1, <1>2 DEF Accepted
  <1>3. \A k \in DOMAIN writes : ~(writes[k].class.via = "power" /\ writes[k].at = "sent")
    <2>1. ASSUME NEW k \in DOMAIN writes, writes[k].class.via = "power",
                 writes[k].at = "sent" PROVE FALSE
      <3>1. Holds(k) /\ k # i
        BY <2>1 DEF Holds
      <3> QED
        BY <1>1, <2>1, <3>1 DEF LockInv, MayTake
    <2> QED
      BY <2>1
  <1>4. data["power"] = report["power"] \/ Accepted(data["power"])
    BY <1>3, PowerClasses DEF DataInv
  <1>5. PICK v : v = data["power"]
    OBVIOUS
  <1>6. v = report["power"] \/ Accepted(v)'
    BY <1>2, <1>4, <1>5
  <1>7. \A f \in Fields : f # "power" => data'[f] = report[f]
    BY DEF DataInv, TypeOK
  <1>8. CASE writes[i].class = PowerNumber
    <2>1. data'["power"] = writes[i].value /\ writes[i].class.via = "power"
      BY <1>8, PowerClasses DEF TypeOK, Fields
    <2>2. writes'[i].before["power"] = report["power"] \/ Accepted(writes[i].before["power"])'
      BY <1>5, <1>6, <2>1 DEF Accepted
    <2>3. \A k \in DOMAIN writes : writes'[k].class.via = "power" /\ writes'[k].at = "sent" => k = i
      BY <1>1, <1>3
    <2> QED
      BY <1>1, <1>7, <1>8, <2>1, <2>2, <2>3 DEF DataInv
  <1>9. CASE writes[i].class # PowerNumber
    <2>1. data' = data
      BY <1>9
    <2>2. data["power"] = report["power"] \/ Accepted(data["power"])'
      BY <1>5, <1>6, <2>1 DEF Accepted
    <2>3. writes[i].class.via = "power" =>
              writes'[i].before["power"] = report["power"] \/ Accepted(writes[i].before["power"])'
      BY <1>5, <1>6, <2>1 DEF Accepted
    <2>4. \A k \in DOMAIN writes : writes'[k].class.via = "power" /\ writes'[k].at = "sent" => k = i
      BY <1>1, <1>3
    <2> QED
      BY <1>1, <1>7, <1>9, <2>1, <2>2, <2>3, <2>4 DEF DataInv
  <1> QED
    BY <1>8, <1>9

LEMMA DataAdds ==
  ASSUME PresentationConstants, TypeOK, DataInv, NEW w \in Write, Added(w), Len(writes) < MaxCalls,
         UNCHANGED <<data, report>>, w.at # "sent" \/ w.class.via # "power"
  PROVE  DataInv'
  <1>1. PICK n : n = Next1
    OBVIOUS
  <1>2. /\ DOMAIN writes' = 1..n /\ n \notin DOMAIN writes /\ writes'[n] = w
        /\ \A j \in DOMAIN writes : writes'[j] = writes[j] /\ j \in DOMAIN writes'
        /\ \A j \in DOMAIN writes' : j \in DOMAIN writes \/ j = n
    BY <1>1, Adds
  <1>3. ASSUME NEW v, Accepted(v) PROVE Accepted(v)'
    BY <1>2, <1>3 DEF Accepted
  <1>4. PICK v : v = data["power"]
    OBVIOUS
  <1>5. \/ data["power"] = report["power"] \/ Accepted(data["power"])'
        \/ \E k \in DOMAIN writes' : writes'[k].class = PowerNumber /\ writes'[k].at = "sent"
    <2>1. Accepted(data["power"]) => Accepted(data["power"])'
      <3>1. Accepted(data["power"]) => Accepted(v)'
        BY <1>3, <1>4
      <3> QED
        BY <1>4, <3>1 DEF Accepted
    <2> QED
      BY <1>2, <2>1 DEF DataInv
  <1>6. ASSUME NEW k \in DOMAIN writes', writes'[k].class.via = "power", writes'[k].at = "sent"
        PROVE  IF writes'[k].current
               THEN /\ writes'[k].class = PowerNumber => data["power"] = writes'[k].value
                    /\ \/ writes'[k].before["power"] = report["power"]
                       \/ Accepted(writes[k].before["power"])' /\ writes'[k] = writes[k]
               ELSE data["power"] = report["power"]
    <2>1. k \in DOMAIN writes /\ writes'[k] = writes[k]
      BY <1>2, <1>6
    <2>2. Accepted(writes[k].before["power"]) => Accepted(writes[k].before["power"])'
      <3>1. PICK u : u = writes[k].before["power"]
        OBVIOUS
      <3>2. Accepted(u) => Accepted(u)'
        BY <1>3
      <3> QED
        BY <2>1, <3>1, <3>2 DEF Accepted
    <2> QED
      BY <1>6, <2>1, <2>2 DEF DataInv
  <1> QED
    BY <1>5, <1>6 DEF DataInv, Accepted

-----------------------------------------------------------------------------
(* The power that stands *)

\* Where the number of a power is in play, so are only its mode and itself.
LEMMA GoingFacts ==
  ASSUME PresentationConstants, TypeOK, StageInv, PowerNumber \in play
  PROVE  /\ \A i \in DOMAIN writes : writes[i].class \in {ModeSelect, PowerNumber}
         /\ \A c \in play : c \in {ModeSelect, PowerNumber}
         /\ ModeSelect # PowerNumber /\ ModeSelect.via = "mode" /\ PowerNumber.via = "power"
         /\ ModeSelect.field = "mode" /\ PowerNumber.field = "power"
         /\ ModeSelect.shows = "pending" /\ PowerNumber.shows = "wanted"
         /\ ModeSelect.needs = "detail" /\ PowerNumber.needs = "detail"
         /\ \A i \in DOMAIN writes : Locks(writes[i]) /\ writes[i].value # None
         /\ \A i \in DOMAIN writes : Saving(i) \/ PowerUnderWay(i) => Holds(i)
  <1>1. /\ \A c \in play : c \in {ModeSelect, PowerNumber}
        /\ ModeSelect # PowerNumber /\ ModeSelect.via = "mode" /\ PowerNumber.via = "power"
        /\ ModeSelect.needs = "detail" /\ PowerNumber.needs = "detail"
        /\ ModeSelect \in Classes /\ PowerNumber \in Classes
    BY PlayFacts, PowerClasses DEF TypeOK
  <1>2. ModeSelect.field = "mode" /\ PowerNumber.field = "power" /\
            PowerNumber.shows = "wanted" /\ ModeSelect.shows = "pending"
    BY <1>1, ClassFacts
  <1>3. \A i \in DOMAIN writes : writes[i].class \in {ModeSelect, PowerNumber}
    BY <1>1 DEF StageInv, Stage
  <1>4. \A i \in DOMAIN writes : writes[i].value # None
    BY WriteTypes DEF PresentationConstants
  <1> QED
    BY <1>1, <1>2, <1>3, <1>4 DEF Locks, Saving, PowerUnderWay, Holds

LEMMA GoingBack ==
  ASSUME NEW i, Updated(i), UNCHANGED <<version, play>>, Going(i)' => Going(i), GoingWell'
  PROVE  /\ GoingWell /\ Going(i) /\ Going(i)'
         /\ \A k \in DOMAIN writes : Going(k) /\ Going(k)'
         /\ \A k \in DOMAIN writes : writes[k].class = ModeSelect /\
                writes[i].class = ModeSelect => k = i
  <1>1. /\ i \in DOMAIN writes /\ DOMAIN writes' = DOMAIN writes
        /\ \A k \in DOMAIN writes : k # i => writes'[k] = writes[k]
        /\ \A k \in DOMAIN writes : writes'[k].class = writes[k].class
    BY DEF Updated
  <1>2. \A k \in DOMAIN writes : Going(k)'
    BY <1>1 DEF GoingWell
  <1>3. ASSUME NEW k \in DOMAIN writes PROVE Going(k)
    <2>1. CASE k = i
      BY <1>2, <2>1
    <2>2. CASE k # i
      BY <1>1, <1>2, <2>2 DEF Going, Early
    <2> QED
      BY <2>1, <2>2
  <1>4. OneMode
    BY <1>1 DEF GoingWell, OneMode
  <1> QED
    BY <1>1, <1>2, <1>3, <1>4 DEF GoingWell, OneMode

\* Two of them that may still be sent are one.
LEMMA OneEarly ==
  ASSUME GoingWell, NumberedInv, NEW i \in DOMAIN writes, NEW j \in DOMAIN writes, Early(writes[i]),
         Early(writes[j])
  PROVE  i = j
  BY DEF GoingWell, Going, NumberedInv

\* A call is asked for: nothing older waits to be sent.
LEMMA PowerAdds ==
  ASSUME PresentationConstants, TypeOK, StageInv, NumberedInv, PowerInv, NEW w \in Write, Added(w),
         Len(writes) < MaxCalls,
         version' = version + 1, w.version = version', w.at = "lock", w.class \in play,
         w.before = data,
         UNCHANGED <<play, data, desired, device, pend>>,
         owner' = owner \/ (w.class.via = "mode" /\ Owned(w.class))
  PROVE  PowerInv'
  <1> SUFFICES ASSUME GoingWell' PROVE Chosen' /\ Left' /\ Informed'
    BY DEF PowerInv
  <1>1. PICK n : n = Next1
    OBVIOUS
  <1>2. /\ DOMAIN writes' = 1..n /\ n \notin DOMAIN writes /\ writes'[n] = w /\ n \in DOMAIN writes'
        /\ \A j \in DOMAIN writes : writes'[j] = writes[j] /\ j \in DOMAIN writes'
        /\ \A j \in DOMAIN writes' : j \in DOMAIN writes \/ j = n
    BY <1>1, Adds
  <1>3. PowerNumber \in play /\ \A k \in DOMAIN writes' : Going(k)'
    BY DEF GoingWell
  <1>4. ASSUME NEW k \in DOMAIN writes PROVE Going(k) /\ ~Early(writes[k])
    <2>1. Going(k)' /\ writes'[k] = writes[k] /\ writes[k].version # version'
      BY <1>2, <1>3, WriteTypes DEF NumberedInv, TypeOK, StageInv, Stage
    <2> QED
      BY <2>1 DEF Going, Early
  <1>5. GoingWell
    BY <1>2, <1>3, <1>4 DEF GoingWell, OneMode
  <1>6. Chosen /\ Left /\ Informed
    BY <1>5 DEF PowerInv
  <1>7. w.class \in {ModeSelect, PowerNumber} /\ ModeSelect # PowerNumber /\
            ModeSelect.field = "mode" /\ ModeSelect.via = "mode" /\ PowerNumber.via = "power"
    BY <1>3, GoingFacts
  <1>8. /\ \A k \in DOMAIN writes : (Sent(k)' <=> Sent(k)) /\ (Saving(k)' <=> Saving(k))
        /\ \A k \in DOMAIN writes : (PowerUnderWay(k)' <=> PowerUnderWay(k)) /\
               (FastUnderWay(k)' <=> FastUnderWay(k))
        /\ ~Sent(n)' /\ ~Saving(n)'
    BY <1>2 DEF Sent, Saving, PowerUnderWay, FastUnderWay
  <1>9. SomeSent' <=> SomeSent
    BY <1>2, <1>8 DEF SomeSent
  <1>10. Chosen'
    BY <1>2, <1>6, <1>8, <1>9 DEF Chosen
  <1>11. Left'
    BY <1>2, <1>6, <1>8, <1>9 DEF Left
  <1>12. ASSUME NEW k \in DOMAIN writes', writes'[k].class = ModeSelect PROVE Knows(k)'
    <2>1. CASE k = n
      BY <1>2, <2>1 DEF Knows, Early
    <2>2. CASE k \in DOMAIN writes
      <3>1. w.class # ModeSelect
        BY <1>2, <1>12, <2>2 DEF GoingWell, OneMode
      <3>2. owner' = owner
        BY <1>7, <3>1
      <3> QED
        BY <1>2, <1>4, <1>6, <1>12, <2>2, <3>2 DEF Informed, Knows, Early
    <2> QED
      BY <1>2, <2>1, <2>2
  <1> QED
    BY <1>10, <1>11, <1>12 DEF Informed

\* A power is taken up: it is the chosen one.
LEMMA PowerTakes ==
  ASSUME PresentationConstants, TypeOK, StageInv, LockInv, NumberedInv, PowerInv, NEW i,
         Goes(i, "saving"), MayTake(i),
         writes[i].class.via = "power", writes[i].version = version, desired' = writes[i].value,
         UNCHANGED <<play, version, data, device, pend, owner>>
  PROVE  PowerInv'
  <1> SUFFICES ASSUME GoingWell' PROVE Chosen' /\ Left' /\ Informed'
    BY DEF PowerInv
  <1>1. /\ Updated(i) /\ i \in DOMAIN writes /\ DOMAIN writes' = DOMAIN writes
        /\ \A k \in DOMAIN writes : k # i => writes'[k] = writes[k]
        /\ \A k \in DOMAIN writes : writes'[k].class = writes[k].class /\
               writes'[k].value = writes[k].value
        /\ writes'[i].at = "saving" /\ writes[i].at = "lock"
    BY DEF Goes, Updated, MayTake
  <1>2. Going(i)' => Going(i)
    BY <1>1 DEF Goes, Updated, Going, Early
  <1>3. GoingWell /\ PowerNumber \in play
    BY <1>1, <1>2, GoingBack DEF GoingWell
  <1>4. Chosen /\ Left /\ Informed
    BY <1>3 DEF PowerInv
  <1>5. writes[i].class = PowerNumber /\ ModeSelect # PowerNumber /\ writes[i].value # None
        /\ \A k \in DOMAIN writes : ~Saving(k)
    BY <1>1, <1>3, GoingFacts DEF MayTake
  <1>6. /\ \A k \in DOMAIN writes : (Sent(k)' <=> Sent(k)) /\ (Saving(k)' <=> k = i)
        /\ \A k \in DOMAIN writes : (PowerUnderWay(k)' <=> PowerUnderWay(k)) /\
               (FastUnderWay(k)' <=> FastUnderWay(k))
    BY <1>1, <1>5 DEF Sent, Saving, PowerUnderWay, FastUnderWay
  <1>7. SomeSent' <=> SomeSent
    BY <1>1, <1>6 DEF SomeSent
  <1>8. Chosen'
    BY <1>1, <1>4, <1>5, <1>6, <1>7 DEF Chosen
  <1>9. Left'
    BY <1>1, <1>4, <1>6, <1>7 DEF Left
  <1>10. Informed'
    BY <1>1, <1>4, <1>5 DEF Informed, Knows, Early
  <1> QED
    BY <1>8, <1>9, <1>10

\* A mode goes on with the lock.
LEMMA ModeTakes ==
  ASSUME PresentationConstants, TypeOK, StageInv, LockInv, NumberedInv, PowerInv, NEW i,
         NEW at \in {"saving", "policy"}, Goes(i, at),
         Early(writes[i]), writes[i].class.via = "mode", writes[i].version = version,
         UNCHANGED <<play, version, desired, data, device, pend, owner>>
  PROVE  PowerInv'
  <1> SUFFICES ASSUME GoingWell' PROVE Chosen' /\ Left' /\ Informed'
    BY DEF PowerInv
  <1>1. /\ Updated(i) /\ i \in DOMAIN writes /\ DOMAIN writes' = DOMAIN writes
        /\ \A k \in DOMAIN writes : k # i => writes'[k] = writes[k]
        /\ \A k \in DOMAIN writes : writes'[k].class = writes[k].class /\
               writes'[k].value = writes[k].value
        /\ writes'[i].at = at /\ writes'[i].before = writes[i].before
    BY DEF Goes, Updated
  <1>2. Going(i)' => Going(i)
    BY <1>1 DEF Goes, Updated, Going, Early
  <1>3. GoingWell /\ PowerNumber \in play
    BY <1>1, <1>2, GoingBack DEF GoingWell
  <1>4. Chosen /\ Left /\ Informed
    BY <1>3 DEF PowerInv
  <1>5. writes[i].class = ModeSelect /\ ModeSelect # PowerNumber
    BY <1>1, <1>3, GoingFacts
  <1>6. /\ \A k \in DOMAIN writes : (Sent(k)' <=> Sent(k)) /\ (Saving(k)' <=> Saving(k))
        /\ \A k \in DOMAIN writes : (PowerUnderWay(k)' <=> PowerUnderWay(k)) /\
               (FastUnderWay(k)' <=> FastUnderWay(k))
    BY <1>1, <1>5 DEF Sent, Saving, PowerUnderWay, FastUnderWay, Early
  <1>7. SomeSent' <=> SomeSent
    BY <1>1, <1>6 DEF SomeSent
  <1>8. Chosen'
    BY <1>1, <1>4, <1>5, <1>6, <1>7 DEF Chosen
  <1>9. Left'
    BY <1>1, <1>4, <1>6, <1>7 DEF Left
  <1>10. Informed'
    BY <1>1, <1>4, <1>5 DEF Informed, Knows, Early
  <1> QED
    BY <1>8, <1>9, <1>10

\* The chosen power is sent, and is in the shared data.
LEMMA PowerSends ==
  ASSUME PresentationConstants, TypeOK, StageInv, LockInv, NumberedInv, PowerInv, NEW i, Updated(i),
         writes[i].at = "saving",
         writes'[i].at = "sent", writes[i].version = version, ~writes[i].staged,
         writes[i].class.via = "power", data' = [data EXCEPT !["power"] = writes[i].value],
         writes'[i].late = \E j \in DOMAIN writes : writes[j].at = "again",
         writes[i].class = PowerNumber, owner' = [owner EXCEPT !["power"] = i],
         UNCHANGED <<play, version, desired, device, pend>>
  PROVE  PowerInv'
  <1> SUFFICES ASSUME GoingWell' PROVE Chosen' /\ Left' /\ Informed'
    BY DEF PowerInv
  <1>1. /\ i \in DOMAIN writes /\ DOMAIN writes' = DOMAIN writes
        /\ \A k \in DOMAIN writes : k # i => writes'[k] = writes[k]
        /\ \A k \in DOMAIN writes : writes'[k].class = writes[k].class /\
               writes'[k].value = writes[k].value
    BY DEF Updated
  <1>2. Going(i)' => Going(i)
    BY <1>1 DEF Going, Early
  <1>3. GoingWell /\ PowerNumber \in play /\ Going(i)'
    BY <1>1, <1>2, GoingBack DEF GoingWell
  <1>4. Chosen /\ Left /\ Informed
    BY <1>3 DEF PowerInv
  <1>5. /\ ModeSelect # PowerNumber /\ writes[i].value # None /\ Saving(i)
        /\ \A k \in DOMAIN writes : Saving(k) => k = i
    <2>1. Saving(i)
      BY <1>1 DEF Saving
    <2> QED
      BY <1>1, <1>3, <2>1, GoingFacts DEF LockInv
  <1>6. desired = writes[i].value /\ data'["power"] = writes[i].value /\
            data'["mode"] = data["mode"]
        /\ owner'["mode"] = owner["mode"]
    BY <1>1, <1>4, <1>5 DEF Chosen, TypeOK, Fields
  <1>7. Chosen'
    <2>1. \A k \in DOMAIN writes : ~Saving(k)'
      BY <1>1, <1>5 DEF Saving
    <2>2. \A k \in DOMAIN writes : writes'[k].class = PowerNumber /\ writes'[k].at # "lock" =>
              desired # None
      BY <1>1, <1>5, <1>6
    <2> QED
      BY <1>1, <1>5, <1>6, <2>1, <2>2 DEF Chosen
  <1>8. Left'
    BY <1>1 DEF Left, PowerUnderWay
  <1>9. ASSUME NEW k \in DOMAIN writes, writes[k].class = ModeSelect
        PROVE  Knows(k)'
    <2>1. k # i /\ writes'[k] = writes[k]
      BY <1>1, <1>5, <1>9
    <2>2. ~Early(writes[k])
      BY <1>1, <1>3, <2>1, OneEarly DEF Early
    <2>3. writes[k].at # "again"
      BY <1>1, <1>3 DEF Going, Early
    <2> QED
      BY <1>4, <1>6, <1>9, <2>1, <2>2, <2>3 DEF Informed, Knows, Early
  <1> QED
    BY <1>1, <1>7, <1>8, <1>9 DEF Informed

\* A mode is sent past the policy: a Fast request that is, before any power was chosen.
LEMMA ModeSends ==
  ASSUME PresentationConstants, TypeOK, StageInv, LockInv, NumberedInv, PowerInv, NEW i, Updated(i),
         writes[i].at = "saving",
         writes'[i].at = "sent", writes[i].version = version, writes'[i].staged = writes[i].staged,
         writes[i].class.via = "mode", writes'[i].before = writes[i].before,
         writes'[i].current = writes[i].current,
         writes'[i].power = IF writes[i].value = FastMode THEN data["power"] ELSE None,
         owner' = [owner EXCEPT !["mode"] = i], pend' = [pend EXCEPT !["mode"] = writes[i].value],
         UNCHANGED <<play, version, desired, data, device>>
  PROVE  PowerInv'
  <1> SUFFICES ASSUME GoingWell' PROVE Chosen' /\ Left' /\ Informed'
    BY DEF PowerInv
  <1>1. /\ i \in DOMAIN writes /\ DOMAIN writes' = DOMAIN writes
        /\ \A k \in DOMAIN writes : k # i => writes'[k] = writes[k]
        /\ \A k \in DOMAIN writes : writes'[k].class = writes[k].class /\
               writes'[k].value = writes[k].value
    BY DEF Updated
  <1>2. PowerNumber \in play
    BY DEF GoingWell
  <1>3. writes[i].class = ModeSelect /\ ModeSelect # PowerNumber
    BY <1>1, <1>2, GoingFacts
  <1>4. Going(i)' => Going(i)
    BY <1>1, <1>3 DEF Going, Early
  <1>5. GoingWell /\ \A k \in DOMAIN writes : writes[k].class = ModeSelect => k = i
    BY <1>3, <1>4, GoingBack
  <1>6. Chosen /\ Left /\ Informed
    BY <1>5 DEF PowerInv
  <1>7. /\ \A k \in DOMAIN writes : (Sent(k)' <=> Sent(k)) /\ (Saving(k)' <=> Saving(k))
        /\ \A k \in DOMAIN writes : (PowerUnderWay(k)' <=> PowerUnderWay(k)) /\ ~FastUnderWay(k)
    BY <1>1, <1>3, <1>5 DEF Sent, Saving, PowerUnderWay, FastUnderWay
  <1>8. SomeSent' <=> SomeSent
    BY <1>1, <1>7 DEF SomeSent
  <1>9. Chosen'
    BY <1>1, <1>3, <1>6, <1>7, <1>8 DEF Chosen
  <1>10. Left'
    BY <1>1, <1>6, <1>7, <1>8 DEF Left
  <1>11. Knows(i)'
    <2>1. writes[i].before["power"] = data["power"] /\ writes[i].before["mode"] = data["mode"]
      BY <1>1, <1>3, <1>6 DEF Informed, Knows, Early
    <2>2. owner'["mode"] = i /\ pend'["mode"] = writes[i].value
      BY DEF TypeOK, Fields
    <2> QED
      BY <1>1, <2>1, <2>2 DEF Knows, Early
  <1> QED
    BY <1>1, <1>5, <1>9, <1>10, <1>11 DEF Informed

\* A power is accepted.
LEMMA PowerAccepted ==
  ASSUME PresentationConstants, TypeOK, StageInv, LockInv, DataInv, NumberedInv, PowerInv, NEW i,
         Goes(i, "ok"), writes[i].at = "sent",
         writes[i].class.via = "power", device' = writes[i].value, Released(i),
         UNCHANGED <<play, version, desired, data, pend>>
  PROVE  PowerInv'
  <1> SUFFICES ASSUME GoingWell' PROVE Chosen' /\ Left' /\ Informed'
    BY DEF PowerInv
  <1>1. /\ Updated(i) /\ i \in DOMAIN writes /\ DOMAIN writes' = DOMAIN writes /\
               writes'[i].at = "ok"
        /\ \A k \in DOMAIN writes : k # i => writes'[k] = writes[k]
        /\ \A k \in DOMAIN writes : writes'[k].class = writes[k].class /\
               writes'[k].value = writes[k].value
    BY DEF Goes, Updated
  <1>2. Going(i)' => Going(i)
    BY <1>1 DEF Goes, Updated, Going, Early
  <1>3. GoingWell /\ PowerNumber \in play /\ Going(i)
    BY <1>1, <1>2, GoingBack DEF GoingWell
  <1>4. Chosen /\ Left /\ Informed
    BY <1>3 DEF PowerInv
  <1>5. writes[i].class = PowerNumber /\ ModeSelect # PowerNumber
    BY <1>1, <1>3, GoingFacts
  <1>6. data["power"] = writes[i].value
    BY <1>1, <1>3, <1>5 DEF DataInv, Going, Early
  <1>7. \A k \in DOMAIN writes : (Sent(k)' <=> Sent(k)) /\ (Saving(k)' <=> Saving(k))
    BY <1>1 DEF Sent, Saving
  <1>8. SomeSent' <=> SomeSent
    BY <1>1, <1>7 DEF SomeSent
  <1>9. Chosen'
    BY <1>1, <1>4, <1>7, <1>8 DEF Chosen
  <1>10. Left'
    BY <1>6 DEF Left
  <1>11. ASSUME NEW k \in DOMAIN writes, writes[k].class = ModeSelect PROVE Knows(k)'
    <2>1. k # i /\ writes'[k] = writes[k] /\ Knows(k)
      BY <1>1, <1>4, <1>5, <1>11 DEF Informed
    <2>2. owner["mode"] = k => owner'["mode"] = k
      BY <2>1 DEF Released, Fields
    <2> QED
      BY <2>1, <2>2 DEF Knows, Early
  <1> QED
    BY <1>1, <1>9, <1>10, <1>11 DEF Informed

\* A Fast request finds another power chosen, and is sent again with it.
LEMMA FastAgain ==
  ASSUME PresentationConstants, TypeOK, StageInv, NumberedInv, PowerInv, NEW i, Updated(i),
         writes[i].at = "sent", SendsAgain(i),
         writes'[i].at = "again", writes'[i].current = writes[i].current,
         writes'[i].power = data["power"],
         UNCHANGED <<play, version, desired, data, pend, owner>>
  PROVE  PowerInv'
  <1> SUFFICES ASSUME GoingWell' PROVE Chosen' /\ Left' /\ Informed'
    BY DEF PowerInv
  <1>1. /\ i \in DOMAIN writes /\ DOMAIN writes' = DOMAIN writes
        /\ \A k \in DOMAIN writes : k # i => writes'[k] = writes[k]
        /\ \A k \in DOMAIN writes : writes'[k].class = writes[k].class /\
               writes'[k].value = writes[k].value
        /\ writes'[i].staged = writes[i].staged
    BY DEF Updated
  <1>2. writes[i].class = ModeSelect /\ writes[i].value = FastMode
    BY DEF SendsAgain
  <1>3. PowerNumber \in play
    BY DEF GoingWell
  <1>4. ModeSelect # PowerNumber
    BY <1>3, GoingFacts
  <1>5. Going(i)' => Going(i)
    BY <1>1, <1>2, <1>4 DEF Going, Early
  <1>6. GoingWell /\ \A k \in DOMAIN writes : writes[k].class = ModeSelect => k = i
    BY <1>2, <1>5, GoingBack
  <1>7. Chosen
    BY <1>6 DEF PowerInv
  <1>8. \A k \in DOMAIN writes : (Sent(k)' <=> Sent(k)) /\ (Saving(k)' <=> Saving(k))
    BY <1>1, <1>2, <1>4 DEF Sent, Saving
  <1>9. SomeSent' <=> SomeSent
    BY <1>1, <1>8 DEF SomeSent
  <1>10. Chosen'
    BY <1>1, <1>2, <1>4, <1>7, <1>8, <1>9 DEF Chosen
  <1>11. Left'
    BY <1>1, <1>2 DEF Left, FastUnderWay
  <1>12. Knows(i)'
    BY <1>1, <1>2 DEF Knows, Early
  <1> QED
    BY <1>1, <1>6, <1>10, <1>11, <1>12 DEF Informed

\* A mode is accepted: a Fast request carried the power that is chosen.
LEMMA ModeAccepted ==
  ASSUME PresentationConstants, TypeOK, StageInv, NumberedInv, PowerInv, NEW i, Goes(i, "ok"),
         writes[i].at \in {"sent", "again"},
         writes[i].at = "sent" => ~SendsAgain(i), writes[i].class.via = "mode",
         device' = IF writes[i].value = FastMode /\
             writes[i].power # None THEN writes[i].power ELSE device,
         UNCHANGED <<play, version, desired, data, pend>>
  PROVE  PowerInv'
  <1> SUFFICES ASSUME GoingWell' PROVE Chosen' /\ Left' /\ Informed'
    BY DEF PowerInv
  <1>1. /\ Updated(i) /\ i \in DOMAIN writes /\ DOMAIN writes' = DOMAIN writes /\
               writes'[i].at = "ok"
        /\ \A k \in DOMAIN writes : k # i => writes'[k] = writes[k]
        /\ \A k \in DOMAIN writes : writes'[k].class = writes[k].class /\
               writes'[k].value = writes[k].value
    BY DEF Goes, Updated
  <1>2. Going(i)' => Going(i)
    BY <1>1 DEF Goes, Updated, Going, Early
  <1>3. GoingWell /\ PowerNumber \in play
    BY <1>1, <1>2, GoingBack DEF GoingWell
  <1>4. Chosen /\ Left /\ Informed
    BY <1>3 DEF PowerInv
  <1>5. writes[i].class = ModeSelect /\ ModeSelect # PowerNumber
    BY <1>1, <1>3, GoingFacts
  <1>6. \A k \in DOMAIN writes : writes[k].class = ModeSelect => k = i
    BY <1>1, <1>2, <1>5, GoingBack
  <1>7. /\ \A k \in DOMAIN writes : (Sent(k)' <=> Sent(k)) /\ (Saving(k)' <=> Saving(k))
        /\ \A k \in DOMAIN writes : (PowerUnderWay(k)' <=> PowerUnderWay(k)) /\
               (FastUnderWay(k) => k = i)
    BY <1>1, <1>5, <1>6 DEF Sent, Saving, PowerUnderWay, FastUnderWay
  <1>8. SomeSent' <=> SomeSent
    BY <1>1, <1>7 DEF SomeSent
  <1>9. Chosen'
    BY <1>1, <1>4, <1>5, <1>7, <1>8 DEF Chosen
  <1>10. Left'
    <2>1. CASE ~SomeSent
      BY <1>8, <2>1 DEF Left
    <2>2. CASE SomeSent /\ writes[i].value # FastMode
      <3>1. ~FastUnderWay(i) /\ device' = device
        BY <2>2 DEF FastUnderWay
      <3> QED
        BY <1>1, <1>4, <1>7, <1>8, <3>1 DEF Left
    <2>3. CASE SomeSent /\ writes[i].value = FastMode
      <3>1. data["power"] # None
        BY <1>4, <2>3 DEF Chosen
      <3>2. writes[i].power = data["power"]
        <4>1. Knows(i)
          BY <1>1, <1>4, <1>5 DEF Informed
        <4>2. CASE writes[i].at = "again"
          BY <4>1, <4>2 DEF Knows
        <4>3. CASE writes[i].at = "sent"
          <5>1. /\ writes[i].before["mode"] = data["mode"] /\
                       writes[i].power = writes[i].before["power"]
                /\ owner["mode"] = i /\ pend["mode"] = FastMode
            BY <2>3, <4>1, <4>3 DEF Knows
          <5> QED
            BY <1>5, <2>3, <3>1, <4>3, <5>1 DEF SendsAgain
        <4> QED
          BY <4>2, <4>3
      <3> QED
        BY <2>3, <3>1, <3>2 DEF Left
    <2> QED
      BY <2>1, <2>2, <2>3
  <1>11. Knows(i)'
    BY <1>1 DEF Knows, Early
  <1> QED
    BY <1>1, <1>6, <1>9, <1>10, <1>11 DEF Informed

\* The policy is through with a mode: Fast mode took the chosen power along.
LEMMA PolicyModeAccepted ==
  ASSUME PresentationConstants, TypeOK, StageInv, LockInv, NumberedInv, PowerInv, NEW i,
         Goes(i, "ok"), writes[i].at = "policy",
         writes[i].class.via = "mode",
         device' = IF writes[i].value = FastMode /\ desired # None THEN desired ELSE device,
         UNCHANGED <<play, version, desired, data>>
  PROVE  PowerInv'
  <1> SUFFICES ASSUME GoingWell' PROVE Chosen' /\ Left' /\ Informed'
    BY DEF PowerInv
  <1>1. /\ Updated(i) /\ i \in DOMAIN writes /\ DOMAIN writes' = DOMAIN writes /\
               writes'[i].at = "ok"
        /\ \A k \in DOMAIN writes : k # i => writes'[k] = writes[k]
        /\ \A k \in DOMAIN writes : writes'[k].class = writes[k].class /\
               writes'[k].value = writes[k].value
    BY DEF Goes, Updated
  <1>2. Going(i)' => Going(i)
    BY <1>1 DEF Goes, Updated, Going, Early
  <1>3. GoingWell /\ PowerNumber \in play
    BY <1>1, <1>2, GoingBack DEF GoingWell
  <1>4. Chosen /\ Left /\ Informed
    BY <1>3 DEF PowerInv
  <1>5. writes[i].class = ModeSelect /\ ModeSelect # PowerNumber
    BY <1>1, <1>3, GoingFacts
  <1>6. \A k \in DOMAIN writes : writes[k].class = ModeSelect => k = i
    BY <1>1, <1>2, <1>5, GoingBack
  <1>7. \A k \in DOMAIN writes : ~Saving(k) /\ ~PowerUnderWay(k) /\ ~FastUnderWay(k)
    <2>1. Holds(i)
      BY DEF Holds
    <2>2. ASSUME NEW k \in DOMAIN writes, Saving(k) \/ PowerUnderWay(k) PROVE FALSE
      <3>1. Holds(k) /\ k # i
        BY <1>3, <1>5, <2>2, GoingFacts DEF Saving, PowerUnderWay
      <3> QED
        BY <1>1, <2>1, <3>1 DEF LockInv
    <2> QED
      BY <1>6, <2>2 DEF FastUnderWay
  <1>8. \A k \in DOMAIN writes : (Sent(k)' <=> Sent(k)) /\ ~Saving(k)'
    BY <1>1, <1>5, <1>7 DEF Sent, Saving
  <1>9. SomeSent' <=> SomeSent
    BY <1>1, <1>8 DEF SomeSent
  <1>10. SomeSent => data["power"] # None /\ desired = data["power"] /\ device = data["power"]
    BY <1>4, <1>7 DEF Chosen, Left
  <1>11. Chosen'
    BY <1>1, <1>4, <1>5, <1>8, <1>9, <1>10 DEF Chosen
  <1>12. Left'
    BY <1>9, <1>10 DEF Left
  <1>13. Knows(i)'
    BY <1>1 DEF Knows, Early
  <1> QED
    BY <1>1, <1>6, <1>11, <1>12, <1>13 DEF Informed

\* Whatever is refused or fails ends such a history.
LEMMA PowerEnds ==
  ASSUME NEW i, Updated(i), writes'[i].at \in {"failed", "refused"} \/ writes'[i].staged
  PROVE  PowerInv'
  BY DEF Updated, PowerInv, GoingWell, Going

-----------------------------------------------------------------------------
(* Calls *)

LEMMA PresentsTypes ==
  ASSUME PresentationConstants, TypeOK, NEW c \in Classes, NEW v \in Values, Presents(c, v)
  PROVE  pend' \in [Fields -> Maybe] /\ live' \in [Fields -> BOOLEAN] /\
             shown' \in [Fields -> Maybe]
  <1>1. c.field \in Fields /\ v \in Maybe
    BY ClassFacts DEF Maybe
  <1>2. Show(c, data, None, FALSE) \in Maybe
    BY <1>1 DEF Show, Waits, TypeOK
  <1>3. CASE c.shows = "pending"
    BY <1>1, <1>3 DEF Presents, TypeOK
  <1>4. CASE c.shows # "pending"
    BY <1>1, <1>2, <1>4 DEF Presents, TypeOK
  <1> QED
    BY <1>3, <1>4

LEMMA NewWriteTypes ==
  ASSUME PresentationConstants, TypeOK, NEW c \in play, NEW v \in Values, NEW at \in Stages,
         version' \in 0..MaxCalls
  PROVE  /\ NewWrite(c, v, at) \in Write /\ NewWrite(c, v, at).class = c /\
                NewWrite(c, v, at).value = v
         /\ NewWrite(c, v, at).at = at /\ NewWrite(c, v, at).version = version' /\
                ~NewWrite(c, v, at).staged
         /\ (NewWrite(c, v, at).presented <=> at = "sent") /\ NewWrite(c, v, at).before = data
  <1>1. c \in Classes /\ data \in [Fields -> Maybe]
    BY PlayFacts DEF TypeOK
  <1> QED
    BY <1>1 DEF NewWrite, Write, Maybe, Stages

\* Whatever is called keeps the invariant.
LEMMA CallKeeps ==
  ASSUME PresentationConstants, EntitiesInv, Len(writes) < MaxCalls, NEW w \in Write, Added(w),
         w.class \in play,
         UNCHANGED <<play, enabled, desired, report, data, fresh, device, reports>>,
         version' \in {version, version + 1}, w.version = version', w.before = data,
         w.class.via \in {"mode", "power"} => version' = version + 1 /\ w.at = "lock",
         w.staged => w.class.via = "power",
         \/ ~w.presented /\ w.at \in {"lock", "policy"} /\ UNCHANGED <<pend, live, shown>>
         \/ w.presented /\ w.at \in {"sent", "ok"} /\ Presents(w.class, w.value) /\
                w.class.via # "power" /\ Owned(w.class),
         w.at = "lock" => Locks(w), w.at = "policy" => w.class.via = "charging" /\ enabled,
         w.at = "sent" => ~enabled /\ w.class.via \in {"setting", "charging"},
         w.at = "ok" => w.class.via = "charging",
         owner' = owner \/ (Owned(w.class) /\ w.class.via # "power")
  PROVE  EntitiesInv'
  <1>1. PICK n : n = Next1
    OBVIOUS
  <1>2. /\ writes' \in Seq(Write) /\ Len(writes') = Len(writes) + 1 /\ Len(writes') <= MaxCalls
        /\ n \in 1..MaxCalls /\ n = Len(writes) + 1 /\ DOMAIN writes' = 1..n /\ writes'[n] = w
        /\ \A j \in DOMAIN writes : writes'[j] = writes[j]
        /\ \A j \in DOMAIN writes' : j \in DOMAIN writes \/ j = n
    BY <1>1, Adds DEF EntitiesInv
  <1>3. w.class \in Classes /\ w.class.field \in Fields /\ w.value \in Values
    BY ClassFacts DEF Write
  <1>4. /\ pend' \in [Fields -> Maybe] /\ live' \in [Fields -> BOOLEAN] /\
               shown' \in [Fields -> Maybe]
    BY <1>3, PresentsTypes DEF EntitiesInv, TypeOK
  <1>5. owner' \in [Fields -> 0..MaxCalls]
    <2>1. owner \in [Fields -> 0..MaxCalls] /\ n \in 0..MaxCalls
      BY <1>2 DEF EntitiesInv, TypeOK, PresentationConstants
    <2>2. CASE Owned(w.class)
      <3>1. owner' = [owner EXCEPT ![w.class.field] = n]
        BY <1>1, <2>2 DEF Owned
      <3> QED
        BY <1>3, <2>1, <3>1
    <2> QED
      BY <2>1, <2>2
  <1>6. version' <= Len(writes') /\ version' \in 0..MaxCalls
    BY <1>2 DEF EntitiesInv, NumberedInv, TypeOK, PresentationConstants
  <1>7. TypeOK'
    BY <1>2, <1>4, <1>5, <1>6 DEF EntitiesInv, TypeOK
  <1>8. StageInv'
    <2>1. ASSUME NEW j \in DOMAIN writes' PROVE Stage(j)'
      <3>1. CASE j = n
        BY <1>2, <1>6, <3>1 DEF Stage, Locks
      <3>2. CASE j \in DOMAIN writes
        <4>1. Stage(j) /\ writes[j].version \in Int /\ version \in Int
          BY <3>2, WriteTypes DEF EntitiesInv, StageInv, TypeOK
        <4> QED
          BY <1>2, <3>2, <4>1 DEF Stage, Locks
      <3> QED
        BY <1>2, <2>1, <3>1, <3>2
    <2> QED
      BY <2>1 DEF StageInv
  <1>9. LockInv' /\ OrderInv'
    BY LockAdds DEF EntitiesInv, Locks
  <1>10. OwnerInv' /\ WaitInv' /\ FailedInv'
    BY PresentAdds DEF EntitiesInv
  <1>11. DataInv'
    BY DataAdds DEF EntitiesInv
  <1>12. NumberedInv'
    <2>1. PowerNumber \in play => w.class.via \in {"mode", "power"}
      BY GoingFacts DEF EntitiesInv
    <2> QED
      BY <1>2, <1>6, <2>1 DEF EntitiesInv, NumberedInv
  <1>13. PowerInv'
    <2>1. CASE PowerNumber \in play
      <3>1. w.class.via \in {"mode", "power"}
        BY <2>1, GoingFacts DEF EntitiesInv
      <3> QED
        BY <3>1, PowerAdds DEF EntitiesInv
    <2>2. CASE PowerNumber \notin play
      BY <2>2 DEF PowerInv, GoingWell
    <2> QED
      BY <2>1, <2>2
  <1> QED
    BY <1>7, <1>8, <1>9, <1>10, <1>11, <1>12, <1>13 DEF EntitiesInv

LEMMA CallStep ==
  ASSUME PresentationConstants, EntitiesInv, Call
  PROVE  EntitiesInv'
  <1>1. /\ Len(writes) < MaxCalls
        /\ UNCHANGED <<play, enabled, desired, report, data, fresh, device, reports>>
    BY DEF Call
  <1>2. PICK c \in play, v \in Values :
               CallAtOnce(c, v) \/ CallLocked(c, v) \/ CallMode(c, v) \/ CallCharging(c, v)
    BY DEF Call
  <1>3. TypeOK /\ c \in Classes
    BY PlayFacts DEF EntitiesInv, TypeOK
  <1>4. version \in 0..MaxCalls /\ version + 1 \in 0..MaxCalls
    BY <1>1, <1>3 DEF EntitiesInv, NumberedInv, TypeOK, PresentationConstants
  <1>5. {"sent", "lock", "policy", "ok"} \subseteq Stages
    BY DEF Stages, Ends
  <1>6. CASE CallAtOnce(c, v)
    <2>1. PICK w : w = NewWrite(c, v, "sent")
      OBVIOUS
    <2>2. /\ w \in Write /\ w.class = c /\ w.value = v /\ w.at = "sent" /\ w.version = version' /\
                 ~w.staged
          /\ w.presented /\ w.before = data /\ Added(w)
      BY <1>3, <1>4, <1>5, <1>6, <2>1, NewWriteTypes DEF CallAtOnce
    <2> QED
      BY <1>1, <1>6, <2>2, CallKeeps DEF CallAtOnce
  <1>7. CASE CallLocked(c, v)
    <2>1. PICK u : u = NewWrite(c, v, "lock")
      OBVIOUS
    <2>2. PICK s \in BOOLEAN : s = (c.via = "power" /\ data["mode"] # FastMode)
      OBVIOUS
    <2>3. PICK w : w = [u EXCEPT !.staged = s]
      OBVIOUS
    <2>4. /\ u \in Write /\ u.class = c /\ u.value = v /\ u.at = "lock" /\ u.version = version'
          /\ ~u.presented /\ u.before = data
      BY <1>3, <1>4, <1>5, <1>7, <2>1, NewWriteTypes DEF CallLocked
    <2>5. /\ w \in Write /\ w.class = c /\ w.value = v /\ w.at = "lock" /\ w.version = version'
          /\ ~w.presented /\ w.before = data /\ w.staged = s
      BY <2>3, <2>4 DEF Write
    <2>6. Added(w)
      BY <1>7, <2>1, <2>2, <2>3 DEF CallLocked, Added
    <2>7. Locks(w)
      BY <1>7, <2>5 DEF CallLocked, Locks
    <2> QED
      BY <1>1, <1>7, <2>2, <2>5, <2>6, <2>7, CallKeeps DEF CallLocked
  <1>8. CASE CallMode(c, v)
    <2>1. PICK w : w = NewWrite(c, v, "lock")
      OBVIOUS
    <2>2. /\ w \in Write /\ w.class = c /\ w.value = v /\ w.at = "lock" /\ w.version = version' /\
                 ~w.staged
          /\ ~w.presented /\ w.before = data /\ Added(w) /\ Locks(w)
      BY <1>3, <1>4, <1>5, <1>8, <2>1, NewWriteTypes DEF CallMode, Locks
    <2> QED
      BY <1>1, <1>8, <2>2, CallKeeps DEF CallMode
  <1>9. CASE CallCharging(c, v)
    <2>1. c.via = "charging" /\ enabled /\ version' \in {version, version + 1} /\ Owned(c)
      BY <1>9 DEF CallCharging
    <2>2. CASE v = 1 /\ StartUnderWay
      <3>1. PICK u : u = NewWrite(c, v, "ok")
        OBVIOUS
      <3>2. PICK w : w = [u EXCEPT !.presented = TRUE]
        OBVIOUS
      <3>3. /\ u \in Write /\ u.class = c /\ u.value = v /\ u.at = "ok" /\ u.version = version' /\
                   ~u.staged
            /\ u.before = data
        BY <1>3, <1>4, <1>5, <2>1, <3>1, NewWriteTypes
      <3>4. /\ w \in Write /\ w.class = c /\ w.value = v /\ w.at = "ok" /\ w.version = version' /\
                   ~w.staged
            /\ w.presented /\ w.before = data
        BY <3>2, <3>3 DEF Write
      <3>5. Added(w) /\ Presents(c, v)
        BY <1>9, <2>2, <3>1, <3>2 DEF CallCharging, Added
      <3> QED
        BY <1>1, <2>1, <3>4, <3>5, CallKeeps
    <2>3. CASE ~(v = 1 /\ StartUnderWay)
      <3>1. PICK w : w = NewWrite(c, v, "policy")
        OBVIOUS
      <3>2. /\ w \in Write /\ w.class = c /\ w.value = v /\ w.at = "policy" /\
                   w.version = version' /\ ~w.staged
            /\ ~w.presented /\ w.before = data
        BY <1>3, <1>4, <1>5, <2>1, <3>1, NewWriteTypes
      <3>3. Added(w) /\ UNCHANGED <<pend, live, shown>>
        BY <1>9, <2>3, <3>1 DEF CallCharging
      <3> QED
        BY <1>1, <2>1, <3>2, <3>3, CallKeeps
    <2> QED
      BY <2>2, <2>3
  <1> QED
    BY <1>2, <1>6, <1>7, <1>8, <1>9

-----------------------------------------------------------------------------
(* Steps of the calls *)

LEMMA ClearedTypes ==
  ASSUME PresentationConstants, TypeOK, NEW i \in DOMAIN writes, Cleared(i)
  PROVE  /\ data' \in [Fields -> Maybe] /\ pend' \in [Fields -> Maybe]
         /\ owner' \in [Fields -> 0..MaxCalls] /\ shown' \in [Fields -> Maybe]
  <1> DEFINE c == writes[i].class
  <1>1. c \in Classes /\ c.field \in Fields /\ "power" \in Fields
    BY WriteTypes, ClassFacts DEF Fields
  <1>2. CASE owner[c.field] # i
    BY <1>2 DEF Cleared, TypeOK
  <1>3. CASE owner[c.field] = i
    <2>1. /\ data' = data \/ data' = [data EXCEPT ![c.field] = writes[i].before[c.field]]
          /\ pend' = [pend EXCEPT ![c.field] = None] /\ owner' = [owner EXCEPT ![c.field] = 0]
          /\ shown' = [shown EXCEPT ![c.field] = Show(c, data', None, FALSE)]
      BY <1>3 DEF Cleared
    <2>2. writes[i].before[c.field] \in Maybe
      BY <1>1, WriteTypes
    <2>3. data' \in [Fields -> Maybe]
      BY <1>1, <2>1, <2>2 DEF TypeOK
    <2>4. Show(c, data', None, FALSE) \in Maybe
      BY <1>1, <2>3 DEF Show, Waits, TypeOK
    <2>5. owner' \in [Fields -> 0..MaxCalls]
      BY <1>1, <2>1 DEF TypeOK, PresentationConstants
    <2>6. pend' \in [Fields -> Maybe] /\ shown' \in [Fields -> Maybe]
      BY <1>1, <2>1, <2>4 DEF TypeOK, Maybe
    <2> QED
      BY <2>3, <2>5, <2>6
  <1> QED
    BY <1>2, <1>3

LEMMA ReleasedTypes ==
  ASSUME TypeOK, PresentationConstants, NEW i, Released(i)
  PROVE  owner' \in [Fields -> 0..MaxCalls]
  BY DEF Released, TypeOK, PresentationConstants

LEMMA NumberedStays ==
  ASSUME NumberedInv, NEW i, Updated(i), UNCHANGED <<play, version>>
  PROVE  NumberedInv'
  BY DEF NumberedInv, Updated

LEMMA RefusedKeeps ==
  ASSUME PresentationConstants, EntitiesInv, NEW i \in DOMAIN writes, Refused(i),
         MayTake(i) \/ writes[i].at = "saving",
         UNCHANGED <<play, enabled, report, fresh, version, device, reports>>
  PROVE  EntitiesInv'
  <1>1. Goes(i, "refused") /\ Updated(i) /\ writes'[i].at = "refused" /\ UNCHANGED <<desired, live>>
    <2>1. "refused" \in Stages
      BY DEF Stages, Ends
    <2> QED
      BY <2>1, AtGoes DEF Refused, EntitiesInv, Goes
  <1>2. Early(writes[i]) /\ ~writes[i].presented
    BY DEF MayTake, Early, EntitiesInv, StageInv, Stage
  <1>3. TypeOK' /\ OwnerInv' /\ WaitInv' /\ FailedInv' /\ DataInv'
    <2>1. CASE writes[i].class.via = "mode"
      <3>1. Cleared(i)
        BY <2>1 DEF Refused
      <3>2. TypeOK'
        BY <1>1, <3>1, ClearedTypes DEF EntitiesInv, TypeOK, Updated
      <3>3. OwnerInv' /\ WaitInv' /\ FailedInv'
        BY <1>1, <1>2, <3>1, PresentClears DEF EntitiesInv
      <3>4. DataInv'
        BY <1>1, <1>2, <2>1, <3>1, DataClears DEF EntitiesInv, Early
      <3> QED
        BY <3>2, <3>3, <3>4
    <2>2. CASE writes[i].class.via # "mode"
      <3>1. UNCHANGED <<data, pend, owner, shown>>
        BY <2>2 DEF Refused
      <3>2. TypeOK'
        BY <1>1, <3>1 DEF EntitiesInv, TypeOK, Updated
      <3>3. OwnerInv' /\ WaitInv' /\ FailedInv'
        BY <1>1, <1>2, <3>1, PresentStays DEF EntitiesInv, Goes
      <3>4. DataInv'
        BY <1>1, <1>2, <3>1, DataStays DEF EntitiesInv, Early, Goes
      <3> QED
        BY <3>2, <3>3, <3>4
    <2> QED
      BY <2>1, <2>2
  <1>5. Stage(i)'
    BY <1>1, <1>2 DEF Goes, Updated, EntitiesInv, StageInv, Stage, Locks
  <1>6. StageInv'
    BY <1>1, <1>5, StageKeeps DEF EntitiesInv
  <1>7. LockInv' /\ OrderInv'
    <2>1. ~Holds(i)'
      BY <1>1 DEF Holds
    <2> QED
      BY <1>1, <2>1, LockKeeps DEF EntitiesInv
  <1>8. NumberedInv' /\ PowerInv'
    BY <1>1, NumberedStays, PowerEnds DEF EntitiesInv
  <1> QED
    BY <1>3, <1>6, <1>7, <1>8 DEF EntitiesInv

LEMMA SendsUpdates ==
  ASSUME PresentationConstants, TypeOK, NEW i \in DOMAIN writes, Sends(i)
  PROVE  /\ Updated(i) /\ writes'[i].at = "sent" /\ writes'[i].presented /\
                writes'[i].settled = writes[i].settled
         /\ writes'[i].current = (writes[i].current \/ writes[i].class.via # "mode")
         /\ writes'[i].late = (writes[i].class = PowerNumber /\
                               \E j \in DOMAIN writes : writes[j].at = "again")
         /\ writes'[i].before = IF writes[i].class.via = "mode" THEN writes[i].before ELSE data
         /\ writes'[i].power = IF writes[i].class.via = "mode" /\
                writes[i].value = FastMode THEN data["power"] ELSE None
  <1>1. PICK l \in BOOLEAN : l = (writes[i].class = PowerNumber /\
                                  \E j \in DOMAIN writes : writes[j].at = "again")
    OBVIOUS
  <1>2. PICK u \in BOOLEAN : u = (writes[i].current \/ writes[i].class.via # "mode")
    OBVIOUS
  <1>3. PICK b : b = IF writes[i].class.via = "mode" THEN writes[i].before ELSE data
    OBVIOUS
  <1>4. PICK p : p = IF writes[i].class.via = "mode" /\
            writes[i].value = FastMode THEN data["power"] ELSE None
    OBVIOUS
  <1> DEFINE w == [writes[i] EXCEPT !.at = "sent", !.presented = TRUE, !.current = u, !.late = l,
                   !.before = b, !.power = p]
  <1>5. writes[i] \in Write /\ DOMAIN writes = 1..Len(writes) /\ b \in [Fields -> Maybe] /\
            p \in Maybe
    BY <1>3, <1>4, WriteTypes DEF TypeOK, Fields, Maybe
  <1>6. /\ w \in Write /\ w.at = "sent" /\ w.presented /\ w.current = u /\ w.late = l /\
               w.before = b /\ w.power = p
        /\ w.class = writes[i].class /\ w.value = writes[i].value /\ w.settled = writes[i].settled
        /\ w.version = writes[i].version /\ w.staged = writes[i].staged
    BY <1>5 DEF Write
  <1>7. writes' = [writes EXCEPT ![i] = w]
    BY <1>1, <1>2, <1>3, <1>4, <1>5 DEF Sends, Write
  <1> HIDE DEF w
  <1>8. /\ writes' \in Seq(Write) /\ DOMAIN writes' = DOMAIN writes /\ Len(writes') = Len(writes)
        /\ writes'[i] = w /\ \A j \in DOMAIN writes : j # i => writes'[j] = writes[j]
    BY <1>5, <1>6, <1>7 DEF TypeOK
  <1> QED
    BY <1>1, <1>2, <1>3, <1>4, <1>6, <1>8 DEF Updated

LEMMA SendsKeeps ==
  ASSUME PresentationConstants, EntitiesInv, NEW i \in DOMAIN writes, Sends(i),
         writes[i].version = version,
         \/ MayTake(i) /\ writes[i].class.via = "setting"
         \/ writes[i].at = "saving" /\ ~writes[i].staged,
         UNCHANGED <<play, enabled, desired, report, fresh, version, device, reports>>
  PROVE  EntitiesInv'
  <1> DEFINE c == writes[i].class
  <1>1. /\ Updated(i) /\ writes'[i].at = "sent" /\ writes'[i].presented /\
               writes'[i].settled = writes[i].settled
        /\ writes'[i].current = (writes[i].current \/ c.via # "mode")
        /\ writes'[i].late = (c = PowerNumber /\ \E j \in DOMAIN writes : writes[j].at = "again")
        /\ writes'[i].before = IF c.via = "mode" THEN writes[i].before ELSE data
        /\ writes'[i].power = IF c.via = "mode" /\
               writes[i].value = FastMode THEN data["power"] ELSE None
    BY SendsUpdates DEF EntitiesInv
  <1>2. /\ data' = IF c = PowerNumber THEN [data EXCEPT !["power"] = writes[i].value] ELSE data
        /\ owner' = [owner EXCEPT ![c.field] = i] /\ Presents(c, writes[i].value)
    BY DEF Sends
  <1>3. /\ c \in Classes /\ c.field \in Fields /\ writes[i].value \in Values /\
               i \in 0..MaxCalls /\ TypeOK
        /\ Early(writes[i]) /\ Locks(writes[i]) /\ ~writes[i].presented /\ Stage(i)
        /\ (c.via = "mode" <=> c.field = "mode") /\ (c.via = "power" <=> c.field = "power") /\
               c.shows \in {"pending", "wanted", "report"}
        /\ writes[i].at = "saving" => c.via \in {"mode", "power"}
        /\ writes[i].at = "saving" => Holds(i)
        /\ c.via \in {"mode", "power"} => writes[i].at = "saving"
    BY WriteTypes, ClassFacts DEF EntitiesInv, StageInv, Stage, MayTake, Early, Holds
  <1>4. TypeOK'
    <2>1. pend' \in [Fields -> Maybe] /\ live' \in [Fields -> BOOLEAN] /\
              shown' \in [Fields -> Maybe]
      BY <1>2, <1>3, PresentsTypes
    <2>2. data' \in [Fields -> Maybe]
      BY <1>2, <1>3 DEF TypeOK, Maybe
    <2>3. owner' \in [Fields -> 0..MaxCalls]
      BY <1>2, <1>3 DEF TypeOK
    <2> QED
      BY <1>1, <2>1, <2>2, <2>3 DEF EntitiesInv, TypeOK, Updated
  <1>5. Stage(i)'
    BY <1>1, <1>3 DEF Updated, Stage, Locks, MayTake, Early
  <1>6. StageInv'
    BY <1>1, <1>5, StageKeeps DEF EntitiesInv
  <1>7. LockInv' /\ OrderInv'
    BY <1>1, <1>3, LockKeeps DEF EntitiesInv
  <1>8. OwnerInv' /\ WaitInv' /\ FailedInv'
    BY <1>1, <1>2, <1>3, <1>7, PresentSends DEF EntitiesInv, Early
  <1>9. DataInv'
    BY <1>1, <1>2, <1>3, DataSends DEF EntitiesInv, Early
  <1>10. NumberedInv'
    BY <1>1, NumberedStays DEF EntitiesInv
  <1>11. PowerInv'
    <2>1. CASE PowerNumber \notin play
      BY <2>1 DEF PowerInv, GoingWell
    <2>2. CASE PowerNumber \in play
      <3>1. /\ c \in {ModeSelect, PowerNumber} /\ ModeSelect # PowerNumber /\
                   ModeSelect.via = "mode" /\ PowerNumber.via = "power"
            /\ ModeSelect.field = "mode" /\ PowerNumber.field = "power" /\
                   ModeSelect.shows = "pending" /\ PowerNumber.shows = "wanted"
        BY <2>2, GoingFacts DEF EntitiesInv
      <3>2. CASE c = PowerNumber
        <4>1. UNCHANGED pend
          BY <1>2, <3>1, <3>2 DEF Presents
        <4>2. writes[i].at = "saving" /\ ~writes[i].staged
          BY <1>3, <3>1, <3>2 DEF MayTake
        <4> QED
          BY <1>1, <1>2, <1>3, <3>1, <3>2, <4>1, <4>2, PowerSends DEF EntitiesInv
      <3>3. CASE c = ModeSelect
        <4>1. pend' = [pend EXCEPT !["mode"] = writes[i].value]
          BY <1>2, <3>1, <3>3 DEF Presents
        <4>2. writes[i].at = "saving" /\ writes'[i].staged = writes[i].staged
          BY <1>1, <1>3, <3>1, <3>3 DEF Updated
        <4>3. writes'[i].current = writes[i].current
          BY <1>1, <3>1, <3>3, WriteTypes DEF EntitiesInv
        <4> QED
          BY <1>1, <1>2, <1>3, <3>1, <3>3, <4>1, <4>2, <4>3, ModeSends DEF EntitiesInv
      <3> QED
        BY <3>1, <3>2, <3>3
    <2> QED
      BY <2>1, <2>2
  <1> QED
    BY <1>4, <1>6, <1>7, <1>8, <1>9, <1>10, <1>11 DEF EntitiesInv

\* A write that presented nothing goes on, and only it is changed.
LEMMA GoesOn ==
  ASSUME PresentationConstants, EntitiesInv, NEW i \in DOMAIN writes,
         NEW at \in {"saving", "policy", "ok"}, At(i, at),
         writes[i].at \in {"lock", "saving", "policy"}, MayTake(i) \/ writes[i].at # "lock",
         at = "saving" => MayTake(i) /\ writes[i].class.via \in {"mode", "power"},
         at = "policy" => writes[i].at = "saving" /\ writes[i].class.via = "mode",
         UNCHANGED <<play, enabled, report, version, reports, data, pend, live, owner, fresh>>,
         desired' \in Maybe, device' \in Maybe, shown' \in [Fields -> Maybe],
         \A f \in Fields : f # "power" => shown'[f] = shown[f], PowerInv'
  PROVE  EntitiesInv'
  <1>1. Goes(i, at) /\ Updated(i) /\ writes'[i].at = at /\ ~writes[i].presented /\ Stage(i)
    <2>1. at \in Stages
      BY DEF Stages, Ends
    <2> QED
      BY <2>1, AtGoes DEF EntitiesInv, Goes, StageInv, Stage
  <1>2. TypeOK'
    BY <1>1 DEF EntitiesInv, TypeOK, Updated
  <1>3. Stage(i)'
    BY <1>1 DEF Goes, Updated, Stage, Locks
  <1>4. StageInv'
    BY <1>1, <1>3, StageKeeps DEF EntitiesInv
  <1>5. LockInv' /\ OrderInv'
    <2>1. MayTake(i) \/ (writes[i].at # "lock" /\ (Holds(i)' => Holds(i)))
      BY <1>1 DEF Goes, Updated, Holds
    <2> QED
      BY <1>1, <2>1, LockKeeps DEF EntitiesInv
  <1>6. OwnerInv' /\ WaitInv' /\ FailedInv'
    BY <1>1, PresentStays DEF EntitiesInv, Goes
  <1>7. DataInv'
    BY <1>1, DataStays DEF EntitiesInv, Goes
  <1>8. NumberedInv'
    BY <1>1, NumberedStays DEF EntitiesInv
  <1> QED
    BY <1>2, <1>4, <1>5, <1>6, <1>7, <1>8 DEF EntitiesInv

LEMMA TakeStep ==
  ASSUME PresentationConstants, EntitiesInv, Take
  PROVE  EntitiesInv'
  <1>1. UNCHANGED <<play, enabled, report, fresh, version, device, reports>>
    BY DEF Take
  <1>2. PICK i \in DOMAIN writes :
        /\ MayTake(i)
        /\ IF writes[i].version # version THEN Refused(i)
           ELSE \/ /\ writes[i].class.via = "setting"
                   /\ Sends(i) /\ UNCHANGED desired
                \/ /\ writes[i].class.via = "power"
                   /\ desired' = writes[i].value /\ At(i, "saving")
                   /\ UNCHANGED <<data, pend, live, owner, shown>>
                \/ /\ writes[i].class.via = "mode"
                   /\ At(i, "saving") /\ UNCHANGED <<desired, data, pend, live, owner, shown>>
    BY DEF Take
  <1>3. writes[i].at = "lock" /\ writes[i].value \in Maybe /\ "saving" \in Stages /\ TypeOK
    BY <1>2, WriteTypes DEF MayTake, Maybe, Stages, EntitiesInv
  <1>4. CASE writes[i].version # version
    BY <1>1, <1>2, <1>4, RefusedKeeps
  <1>5. CASE writes[i].version = version /\ writes[i].class.via = "setting"
    BY <1>1, <1>2, <1>5, SendsKeeps
  <1>6. CASE writes[i].version = version /\ writes[i].class.via = "power"
    <2>1. /\ desired' = writes[i].value /\ At(i, "saving")
          /\ UNCHANGED <<data, pend, live, owner, shown>>
      BY <1>2, <1>6
    <2>2. Goes(i, "saving")
      BY <1>3, <2>1, AtGoes
    <2>3. PowerInv'
      BY <1>1, <1>2, <1>6, <2>1, <2>2, PowerTakes DEF EntitiesInv
    <2> QED
      BY <1>1, <1>2, <1>3, <1>6, <2>1, <2>3, GoesOn DEF TypeOK
  <1>7. CASE writes[i].version = version /\ writes[i].class.via = "mode"
    <2>1. /\ At(i, "saving")
          /\ UNCHANGED <<desired, data, pend, live, owner, shown>>
      BY <1>2, <1>7
    <2>2. Goes(i, "saving")
      BY <1>3, <2>1, AtGoes
    <2>3. PowerInv'
      BY <1>1, <1>2, <1>3, <1>7, <2>1, <2>2, ModeTakes DEF EntitiesInv, Early
    <2> QED
      BY <1>1, <1>2, <1>3, <1>7, <2>1, <2>3, GoesOn DEF TypeOK
  <1> QED
    BY <1>2, <1>4, <1>5, <1>6, <1>7

LEMMA SavedStep ==
  ASSUME PresentationConstants, EntitiesInv, Saved
  PROVE  EntitiesInv'
  <1>1. UNCHANGED <<play, enabled, report, fresh, version, device, reports>>
    BY DEF Saved
  <1>2. PICK i \in DOMAIN writes :
        /\ writes[i].at = "saving"
        /\ IF writes[i].version # version THEN Refused(i)
           ELSE IF ByPolicy(writes[i].class, writes[i].value)
           THEN At(i, "policy") /\ UNCHANGED <<data, pend, live, owner, shown, desired>>
           ELSE IF writes[i].staged
           THEN /\ At(i, "ok") /\ shown' = [shown EXCEPT !["power"] = desired]
                /\ UNCHANGED <<data, pend, live, owner, desired>>
           ELSE Sends(i) /\ UNCHANGED desired
    BY DEF Saved
  <1>3. TypeOK /\ "policy" \in Stages /\ "ok" \in Stages
    BY DEF EntitiesInv, Stages, Ends
  <1>4. CASE writes[i].version # version
    BY <1>1, <1>2, <1>4, RefusedKeeps
  <1>5. CASE writes[i].version = version /\ ByPolicy(writes[i].class, writes[i].value)
    <2>1. At(i, "policy") /\ UNCHANGED <<data, pend, live, owner, shown,
          desired>> /\ writes[i].class.via = "mode"
      BY <1>2, <1>5 DEF ByPolicy
    <2>2. Goes(i, "policy")
      BY <1>3, <2>1, AtGoes
    <2>3. PowerInv'
      BY <1>1, <1>2, <1>5, <2>1, <2>2, ModeTakes DEF EntitiesInv, Early
    <2> QED
      BY <1>1, <1>2, <1>3, <2>1, <2>3, GoesOn DEF TypeOK
  <1>6. CASE writes[i].version = version /\ ~ByPolicy(writes[i].class, writes[i].value) /\
                 writes[i].staged
    <2>1. /\ At(i, "ok") /\ shown' = [shown EXCEPT !["power"] = desired]
          /\ UNCHANGED <<data, pend, live, owner, desired>>
      BY <1>2, <1>6
    <2>2. Goes(i, "ok")
      BY <1>3, <2>1, AtGoes
    <2>3. PowerInv'
      BY <1>6, <2>2, PowerEnds DEF Goes, Updated
    <2>4. shown' \in [Fields -> Maybe] /\ \A f \in Fields : f # "power" => shown'[f] = shown[f]
      BY <1>3, <2>1 DEF TypeOK
    <2> QED
      BY <1>1, <1>2, <1>3, <2>1, <2>3, <2>4, GoesOn DEF TypeOK
  <1>7. CASE writes[i].version = version /\ ~ByPolicy(writes[i].class, writes[i].value) /\
                 ~writes[i].staged
    BY <1>1, <1>2, <1>7, SendsKeeps
  <1> QED
    BY <1>2, <1>4, <1>5, <1>6, <1>7

-----------------------------------------------------------------------------
(* Steps of the answers *)

LEMMA PowerOfTypes ==
  ASSUME PresentationConstants, TypeOK, NEW i \in DOMAIN writes, Applied(writes[i])
  PROVE  /\ device' \in Maybe
         /\ writes[i].class.via \notin {"mode", "power"} => device' = device
         /\ writes[i].class.via = "power" => device' = writes[i].value
         /\ writes[i].class.via = "mode" /\ writes[i].at # "policy" =>
                device' = IF writes[i].value = FastMode /\
                    writes[i].power # None THEN writes[i].power ELSE device
         /\ writes[i].class.via = "mode" /\ writes[i].at = "policy" =>
                device' = IF writes[i].value = FastMode /\ desired # None THEN desired ELSE device
  <1>1. writes[i].value \in Values /\ writes[i].value # None /\ writes[i].power \in Maybe /\
            desired \in Maybe /\ device \in Maybe
    BY WriteTypes DEF TypeOK, PresentationConstants
  <1> QED
    BY <1>1 DEF Applied, PowerOf, Maybe

\* An answer that changes the write, and what it owns.
LEMMA AnswerKeeps ==
  ASSUME PresentationConstants, EntitiesInv, NEW i \in DOMAIN writes,
         writes[i].at \in {"sent", "again", "policy"},
         Updated(i), writes'[i].at \in {"ok", "failed", "again"}, writes'[i].presented =>
             writes[i].presented \/ writes'[i].at = "ok",
         writes[i].presented => writes'[i].presented,
         writes'[i].at = "again" => writes[i].class = ModeSelect /\ writes[i].at = "sent",
         UNCHANGED <<play, enabled, version>>
  PROVE  StageInv' /\ LockInv' /\ OrderInv' /\ NumberedInv'
  <1>1. Stage(i) /\ writes[i].version \in Int /\ version \in Int
    BY WriteTypes DEF EntitiesInv, StageInv, TypeOK
  <1>2. Stage(i)'
    BY <1>1 DEF Updated, Stage, Locks
  <1>3. StageInv'
    BY <1>2, StageKeeps DEF EntitiesInv
  <1>4. ~Holds(i)'
    BY PowerClasses DEF Holds, Updated
  <1>5. LockInv' /\ OrderInv'
    BY <1>4, LockKeeps DEF EntitiesInv
  <1> QED
    BY <1>3, <1>5, NumberedStays DEF EntitiesInv

LEMMA SucceedsStep ==
  ASSUME PresentationConstants, EntitiesInv, Succeeds
  PROVE  EntitiesInv'
  <1>1. UNCHANGED <<play, enabled, desired, report, data, fresh, pend, live, shown, version,
        reports>>
    BY DEF Succeeds
  <1>2. PICK i \in DOMAIN writes :
        /\ writes[i].at \in {"sent", "again"}
        /\ Applied(writes[i])
        /\ IF writes[i].at = "sent" /\ SendsAgain(i)
           THEN /\ writes' = [writes EXCEPT ![i].at = "again", ![i].power = data["power"]]
                /\ UNCHANGED owner
           ELSE At(i, "ok") /\ Released(i)
    BY DEF Succeeds
  <1>3. /\ TypeOK /\ writes[i].presented /\ Stage(i) /\ device' \in Maybe /\ "ok" \in Stages
        /\ writes[i].class \in Classes /\
               writes[i].class.via \in {"mode", "power", "charging", "setting"}
    BY <1>2, PowerOfTypes, WriteTypes, ClassFacts DEF EntitiesInv, StageInv, Stage, Stages, Ends
  <1>4. CASE writes[i].at = "sent" /\ SendsAgain(i)
    <2>1. /\ writes' = [writes EXCEPT ![i].at = "again", ![i].power = data["power"]]
          /\ UNCHANGED owner
      BY <1>2, <1>4
    <2> DEFINE w == [writes[i] EXCEPT !.at = "again", !.power = data["power"]]
    <2>2. writes[i] \in Write /\ data["power"] \in Maybe /\ DOMAIN writes = 1..Len(writes)
      BY <1>3, WriteTypes DEF TypeOK, Fields
    <2>3. /\ w \in Write /\ w.at = "again" /\ w.power = data["power"]
          /\ w.class = writes[i].class /\ w.value = writes[i].value /\ w.settled = writes[i].settled
          /\ w.version = writes[i].version /\ w.staged = writes[i].staged /\
                 w.presented = writes[i].presented
          /\ w.current = writes[i].current /\ w.late = writes[i].late /\ w.before = writes[i].before
      BY <2>2 DEF Write
    <2>4. writes' = [writes EXCEPT ![i] = w]
      BY <2>1, <2>2 DEF Write
    <2> HIDE DEF w
    <2>5. Updated(i) /\ writes'[i] = w
      BY <1>3, <2>2, <2>3, <2>4 DEF TypeOK, Updated
    <2>6. writes[i].class = ModeSelect
      BY <1>4 DEF SendsAgain
    <2>7. TypeOK'
      BY <1>1, <1>3, <2>1, <2>5 DEF TypeOK, Updated
    <2>8. StageInv' /\ LockInv' /\ OrderInv' /\ NumberedInv'
      BY <1>1, <1>2, <1>3, <1>4, <2>3, <2>5, <2>6, AnswerKeeps
    <2>9. OwnerInv' /\ WaitInv' /\ FailedInv'
      BY <1>1, <1>3, <1>4, <2>1, <2>3, <2>5, PresentStays DEF EntitiesInv, Goes
    <2>10. DataInv'
      BY <1>1, <1>4, <2>3, <2>5, <2>6, DataStays, PowerClasses DEF EntitiesInv
    <2>11. PowerInv'
      BY <1>1, <1>4, <2>1, <2>3, <2>5, FastAgain DEF EntitiesInv
    <2> QED
      BY <2>7, <2>8, <2>9, <2>10, <2>11 DEF EntitiesInv
  <1>5. CASE ~(writes[i].at = "sent" /\ SendsAgain(i))
    <2>1. At(i, "ok") /\ Released(i)
      BY <1>2, <1>5
    <2>2. Goes(i, "ok") /\ Updated(i) /\ writes'[i].at = "ok" /\
              writes'[i].presented = writes[i].presented
      BY <1>3, <2>1, AtGoes DEF Goes
    <2>3. TypeOK'
      BY <1>1, <1>3, <2>1, <2>2, ReleasedTypes DEF TypeOK, Updated
    <2>4. StageInv' /\ LockInv' /\ OrderInv' /\ NumberedInv'
      BY <1>1, <1>2, <1>3, <2>2, AnswerKeeps
    <2>5. OwnerInv' /\ WaitInv' /\ FailedInv'
      BY <1>1, <1>2, <1>3, <2>1, <2>2, PresentStays DEF EntitiesInv, Goes
    <2>6. DataInv'
      BY <1>1, <1>2, <2>2, DataStays DEF EntitiesInv, Goes
    <2>7. PowerInv'
      <3>1. CASE writes[i].class.via = "power"
        <4>1. writes[i].at = "sent"
          BY <1>2, <1>3, <3>1, PowerClasses DEF Stage
        <4> QED
          BY <1>1, <1>2, <2>1, <2>2, <3>1, <4>1, PowerOfTypes, PowerAccepted DEF EntitiesInv
      <3>2. CASE writes[i].class.via = "mode"
        BY <1>1, <1>2, <1>5, <2>2, <3>2, PowerOfTypes, ModeAccepted DEF EntitiesInv
      <3>3. CASE writes[i].class.via \notin {"mode", "power"}
        <4>1. PowerNumber \notin play
          BY <3>3, GoingFacts DEF EntitiesInv
        <4> QED
          BY <1>1, <4>1 DEF PowerInv, GoingWell
      <3> QED
        BY <3>1, <3>2, <3>3
    <2> QED
      BY <2>3, <2>4, <2>5, <2>6, <2>7 DEF EntitiesInv
  <1> QED
    BY <1>4, <1>5

LEMMA PolicySucceedsStep ==
  ASSUME PresentationConstants, EntitiesInv, PolicySucceeds
  PROVE  EntitiesInv'
  <1>1. UNCHANGED <<play, enabled, desired, report, data, fresh, version, reports>>
    BY DEF PolicySucceeds
  <1>2. PICK i \in DOMAIN writes :
        /\ writes[i].at = "policy" /\ Applied(writes[i])
        /\ IF writes[i].class.via = "mode"
           THEN /\ pend' = [pend EXCEPT !["mode"] = None] /\ UNCHANGED <<live, shown>>
                /\ At(i, "ok") /\ Released(i)
           ELSE IF owner["own"] = i
           THEN /\ Presents(writes[i].class, writes[i].value) /\ UNCHANGED owner
                /\ writes' = [writes EXCEPT ![i].at = "ok", ![i].presented = TRUE]
           ELSE At(i, "ok") /\ UNCHANGED <<pend, live, shown, owner>>
    BY DEF PolicySucceeds
  <1>3. /\ TypeOK /\ ~writes[i].presented /\ Stage(i) /\ device' \in Maybe /\ "ok" \in Stages
        /\ writes[i].class \in Classes /\ writes[i].value \in Values
        /\ writes[i].class.via = "mode" \/ (writes[i].class.via = "charging" /\ enabled)
    BY <1>2, PowerOfTypes, WriteTypes DEF EntitiesInv, StageInv, Stage, Stages, Ends
  <1>4. CASE writes[i].class.via = "mode"
    <2>1. /\ pend' = [pend EXCEPT !["mode"] = None] /\ UNCHANGED <<live, shown>>
          /\ At(i, "ok") /\ Released(i)
      BY <1>2, <1>4
    <2>2. Goes(i, "ok") /\ Updated(i) /\ writes'[i].at = "ok" /\
              writes'[i].presented = writes[i].presented
      BY <1>3, <2>1, AtGoes DEF Goes
    <2>3. TypeOK'
      <3>1. pend' \in [Fields -> Maybe]
        BY <1>3, <2>1 DEF TypeOK, Maybe
      <3> QED
        BY <1>1, <1>3, <2>1, <2>2, <3>1, ReleasedTypes DEF TypeOK, Updated
    <2>4. StageInv' /\ LockInv' /\ OrderInv' /\ NumberedInv'
      BY <1>1, <1>2, <1>3, <2>2, AnswerKeeps
    <2>5. OwnerInv' /\ WaitInv' /\ FailedInv'
      BY <1>1, <1>2, <1>4, <2>1, <2>2, PresentPolicyMode DEF EntitiesInv
    <2>6. DataInv'
      BY <1>1, <1>2, <2>2, DataStays DEF EntitiesInv, Goes
    <2>7. PowerInv'
      BY <1>1, <1>2, <1>4, <2>2, PowerOfTypes, PolicyModeAccepted DEF EntitiesInv
    <2> QED
      BY <2>3, <2>4, <2>5, <2>6, <2>7 DEF EntitiesInv
  <1>5. CASE writes[i].class.via = "charging"
    <2>1. PowerInv'
      <3>1. PowerNumber \notin play
        BY <1>5, GoingFacts DEF EntitiesInv
      <3> QED
        BY <1>1, <3>1 DEF PowerInv, GoingWell
    <2>2. CASE owner["own"] = i
      <3>1. /\ Presents(writes[i].class, writes[i].value) /\ UNCHANGED owner
            /\ writes' = [writes EXCEPT ![i].at = "ok", ![i].presented = TRUE]
        BY <1>2, <1>5, <2>2
      <3> DEFINE w == [writes[i] EXCEPT !.at = "ok", !.presented = TRUE]
      <3>2. writes[i] \in Write /\ DOMAIN writes = 1..Len(writes)
        BY <1>3, WriteTypes
      <3>3. /\ w \in Write /\ w.at = "ok" /\ w.presented
            /\ w.class = writes[i].class /\ w.value = writes[i].value /\
                   w.settled = writes[i].settled
            /\ w.version = writes[i].version /\ w.staged = writes[i].staged /\
                   w.current = writes[i].current
        BY <3>2 DEF Write, Ends
      <3>4. writes' = [writes EXCEPT ![i] = w]
        BY <3>1, <3>2 DEF Write
      <3> HIDE DEF w
      <3>5. Updated(i) /\ writes'[i] = w
        BY <1>3, <3>2, <3>3, <3>4 DEF TypeOK, Updated
      <3>6. TypeOK'
        BY <1>1, <1>3, <3>1, <3>5, PresentsTypes DEF TypeOK, Updated
      <3>7. StageInv' /\ LockInv' /\ OrderInv' /\ NumberedInv'
        BY <1>1, <1>2, <1>3, <3>3, <3>5, AnswerKeeps
      <3>8. OwnerInv' /\ WaitInv' /\ FailedInv'
        BY <1>1, <1>5, <2>2, <3>1, <3>3, <3>5, PresentCommand DEF EntitiesInv
      <3>9. DataInv'
        BY <1>1, <1>2, <3>3, <3>5, DataStays DEF EntitiesInv
      <3> QED
        BY <2>1, <3>6, <3>7, <3>8, <3>9 DEF EntitiesInv
    <2>3. CASE owner["own"] # i
      <3>1. At(i, "ok") /\ UNCHANGED <<pend, live, shown, owner>>
        BY <1>2, <1>5, <2>3
      <3> QED
        BY <1>1, <1>2, <1>3, <2>1, <3>1, GoesOn DEF TypeOK
    <2> QED
      BY <2>2, <2>3
  <1> QED
    BY <1>3, <1>4, <1>5

LEMMA FailsStep ==
  ASSUME PresentationConstants, EntitiesInv, Fails
  PROVE  EntitiesInv'
  <1>1. UNCHANGED <<play, enabled, desired, report, fresh, live, version, reports>>
    BY DEF Fails
  <1>2. PICK i \in DOMAIN writes :
        /\ writes[i].at \in {"sent", "again", "policy"}
        /\ Applied(writes[i]) \/ UNCHANGED device
        /\ At(i, "failed")
        /\ IF writes[i].at = "policy" /\ writes[i].class.via = "charging"
           THEN UNCHANGED <<data, pend, owner, shown>> ELSE Cleared(i)
    BY DEF Fails
  <1>3. /\ TypeOK /\ Stage(i) /\ "failed" \in Stages /\ device' \in Maybe
    BY <1>2, PowerOfTypes DEF EntitiesInv, StageInv, Stages, Ends, TypeOK
  <1>4. Goes(i, "failed") /\ Updated(i) /\ writes'[i].at = "failed" /\
            writes'[i].presented = writes[i].presented
    BY <1>2, <1>3, AtGoes DEF Goes
  <1>5. StageInv' /\ LockInv' /\ OrderInv' /\ NumberedInv'
    BY <1>1, <1>2, <1>4, AnswerKeeps
  <1>6. PowerInv'
    BY <1>4, PowerEnds
  <1>7. TypeOK' /\ OwnerInv' /\ WaitInv' /\ FailedInv' /\ DataInv'
    <2>1. CASE writes[i].at = "policy" /\ writes[i].class.via = "charging"
      <3>1. UNCHANGED <<data, pend, owner, shown>> /\ ~writes[i].presented
        BY <1>2, <1>3, <2>1 DEF Stage
      <3>2. TypeOK'
        BY <1>1, <1>3, <1>4, <3>1 DEF TypeOK, Updated
      <3>3. OwnerInv' /\ WaitInv' /\ FailedInv'
        BY <1>1, <1>4, <3>1, PresentStays DEF EntitiesInv, Goes
      <3>4. DataInv'
        BY <1>1, <1>4, <2>1, <3>1, DataStays DEF EntitiesInv, Goes
      <3> QED
        BY <3>2, <3>3, <3>4
    <2>2. CASE ~(writes[i].at = "policy" /\ writes[i].class.via = "charging")
      <3>1. Cleared(i)
        BY <1>2, <2>2
      <3>2. TypeOK'
        BY <1>1, <1>3, <1>4, <3>1, ClearedTypes DEF TypeOK, Updated
      <3>3. OwnerInv' /\ WaitInv' /\ FailedInv'
        <4>1. writes[i].presented => writes[i].at \in {"sent", "again"}
          BY <1>2, <1>3 DEF Stage
        <4> QED
          BY <1>1, <1>4, <3>1, <4>1, PresentClears DEF EntitiesInv
      <3>4. DataInv'
        <4>1. writes[i].class.via = "power" => writes[i].at = "sent"
          BY <1>2, <1>3, PowerClasses DEF Stage
        <4> QED
          BY <1>1, <1>2, <1>4, <3>1, <4>1, DataClears DEF EntitiesInv
      <3> QED
        BY <3>2, <3>3, <3>4
    <2> QED
      BY <2>1, <2>2
  <1> QED
    BY <1>5, <1>6, <1>7 DEF EntitiesInv

-----------------------------------------------------------------------------
(* Reports and time *)

\* Writes are only marked: as settled, and as older than a report.
Marked ==
    /\ writes' \in Seq(Write) /\ DOMAIN writes' = DOMAIN writes /\ Len(writes') = Len(writes)
    /\ \A i \in DOMAIN writes :
           /\ writes'[i].class = writes[i].class /\ writes'[i].value = writes[i].value /\
                  writes'[i].at = writes[i].at
           /\ writes'[i].version = writes[i].version /\ writes'[i].staged = writes[i].staged
           /\ writes'[i].presented = writes[i].presented /\ writes'[i].late = writes[i].late
           /\ writes'[i].before = writes[i].before /\ writes'[i].power = writes[i].power

\* Marks matter to nothing but the waits, the shared data and the power.
LEMMA MarkedKeeps ==
  ASSUME PresentationConstants, EntitiesInv, Marked, UNCHANGED <<play, enabled, version, owner>>
  PROVE  /\ StageInv' /\ LockInv' /\ OrderInv' /\ OwnerInv' /\ NumberedInv'
         /\ \A k \in DOMAIN writes : Newest(k)' <=> Newest(k)
  <1>1. /\ DOMAIN writes' = DOMAIN writes
        /\ \A k \in DOMAIN writes : Newest(k)' <=> Newest(k)
        /\ \A k \in DOMAIN writes : Holds(k)' <=> Holds(k)
        /\ \A k \in DOMAIN writes : Locks(writes[k])' <=> Locks(writes[k])
    BY DEF Marked, Newest, Holds, Locks
  <1>2. StageInv'
    BY <1>1 DEF EntitiesInv, StageInv, Stage, Marked
  <1>3. LockInv'
    BY <1>1 DEF EntitiesInv, LockInv
  <1>4. OrderInv'
    BY <1>1 DEF EntitiesInv, OrderInv, Marked
  <1>5. OwnerInv'
    BY <1>1 DEF EntitiesInv, OwnerInv, Marked
  <1>6. NumberedInv'
    BY DEF EntitiesInv, NumberedInv, Marked
  <1> QED
    BY <1>1, <1>2, <1>3, <1>4, <1>5, <1>6

\* To mark a write leaves what it was.
LEMMA MarkSettled ==
  ASSUME NEW x \in Write, NEW s \in BOOLEAN, NEW y, y = [x EXCEPT !.settled = s]
  PROVE  /\ y \in Write /\ (y.settled <=> s) /\ (y.current <=> x.current)
         /\ y.class = x.class /\ y.value = x.value /\ y.at = x.at
         /\ y.version = x.version /\ y.staged = x.staged
         /\ y.presented = x.presented /\ y.late = x.late
         /\ y.before = x.before /\ y.power = x.power
  BY DEF Write

LEMMA MarkReported ==
  ASSUME NEW x \in Write, NEW s \in BOOLEAN, NEW y, y = [x EXCEPT !.current = FALSE, !.settled = s]
  PROVE  /\ y \in Write /\ (y.settled <=> s) /\ ~y.current
         /\ y.class = x.class /\ y.value = x.value /\ y.at = x.at
         /\ y.version = x.version /\ y.staged = x.staged
         /\ y.presented = x.presented /\ y.late = x.late
         /\ y.before = x.before /\ y.power = x.power
  BY DEF Write

\* Marked writes are writes.
LEMMA MarkSeq ==
  ASSUME TypeOK, NEW m, writes' = m, DOMAIN m = DOMAIN writes, m = [i \in DOMAIN writes |-> m[i]],
         \A i \in DOMAIN writes : m[i] \in Write
  PROVE  writes' \in Seq(Write) /\ DOMAIN writes' = DOMAIN writes /\ Len(writes') = Len(writes)
  <1>1. DOMAIN writes = 1..Len(writes) /\ Len(writes) \in Nat
    BY DEF TypeOK
  <1>2. m = [i \in 1..Len(writes) |-> m[i]]
    BY <1>1
  <1> QED
    BY <1>1, <1>2

\* The wait of a field is over: its writes count as settled.
LEMMA WaitOverStep ==
  ASSUME PresentationConstants, EntitiesInv, WaitOver
  PROVE  EntitiesInv'
  <1>1. UNCHANGED <<play, enabled, desired, report, data, fresh, pend, owner, shown, version,
        device, reports>>
    BY DEF WaitOver
  <1>2. PICK f \in Fields :
        /\ pend[f] # None /\ live[f] /\ live' = [live EXCEPT ![f] = FALSE]
        /\ writes' = [i \in DOMAIN writes |->
               [writes[i] EXCEPT !.settled = @ \/
                (writes[i].presented /\ writes[i].class.field = f)]]
    BY DEF WaitOver
  <1>3. TypeOK /\ \A i \in DOMAIN writes : writes[i] \in Write
    BY WriteTypes DEF EntitiesInv
  <1> DEFINE S(i) == writes[i].settled \/ (writes[i].presented /\ writes[i].class.field = f)
  <1>4. ASSUME NEW i \in DOMAIN writes
        PROVE  /\ writes'[i] \in Write /\ (writes'[i].settled <=> S(i)) /\
                      (writes'[i].current <=> writes[i].current)
               /\ writes'[i].class = writes[i].class /\ writes'[i].value = writes[i].value /\
                      writes'[i].at = writes[i].at
               /\ writes'[i].version = writes[i].version /\ writes'[i].staged = writes[i].staged
               /\ writes'[i].presented = writes[i].presented /\ writes'[i].late = writes[i].late
               /\ writes'[i].before = writes[i].before /\ writes'[i].power = writes[i].power
    <2>1. writes[i].settled \in BOOLEAN /\ writes[i].presented \in BOOLEAN /\
              writes[i].current \in BOOLEAN
      BY <1>3, <1>4, WriteTypes
    <2>2. S(i) \in BOOLEAN
      BY <2>1
    <2>3. writes'[i] = [writes[i] EXCEPT !.settled = @ \/
                        (writes[i].presented /\ writes[i].class.field = f)]
      BY <1>2, <1>4
    <2>4. writes'[i] = [writes[i] EXCEPT !.settled = S(i)]
      BY <2>3
    <2> HIDE DEF S
    <2> QED
      BY <1>3, <1>4, <2>2, <2>4, MarkSettled
  <1>5. Marked
    <2>1. DOMAIN writes' = DOMAIN writes /\ writes' = [i \in DOMAIN writes |-> writes'[i]]
      BY <1>2
    <2>2. writes' \in Seq(Write) /\ DOMAIN writes' = DOMAIN writes /\ Len(writes') = Len(writes)
      BY <1>3, <1>4, <2>1, MarkSeq
    <2> QED
      BY <1>4, <2>2 DEF Marked
  <1>6. /\ StageInv' /\ LockInv' /\ OrderInv' /\ OwnerInv' /\ NumberedInv'
        /\ \A k \in DOMAIN writes : Newest(k)' <=> Newest(k)
    BY <1>1, <1>5, MarkedKeeps
  <1>7. TypeOK'
    <2>1. live' \in [Fields -> BOOLEAN]
      BY <1>2, <1>3 DEF TypeOK
    <2> QED
      BY <1>1, <1>3, <1>5, <2>1 DEF TypeOK, Marked
  <1>8. WaitInv'
    <2>1. SUFFICES ASSUME NEW i \in DOMAIN writes, Newest(i)', writes'[i].class.shows = "pending",
                          writes'[i].presented, writes'[i].at \in {"sent", "again", "ok"},
                          ~writes'[i].settled
                   PROVE  LET g == writes'[i].class.field IN
                          pend'[g] = writes'[i].value /\ live'[g] /\ shown'[g] = writes'[i].value
      BY <1>5 DEF WaitInv, Marked
    <2> DEFINE g == writes[i].class.field
    <2>2. Newest(i) /\ writes[i].class.shows = "pending" /\ writes[i].presented
          /\ writes[i].at \in {"sent", "again", "ok"} /\ ~writes[i].settled /\ g # f
          /\ writes'[i].value = writes[i].value /\ writes'[i].class = writes[i].class
      BY <1>4, <1>6, <2>1
    <2>3. pend[g] = writes[i].value /\ live[g] /\ shown[g] = writes[i].value
      BY <2>2 DEF EntitiesInv, WaitInv
    <2>4. g \in Fields /\ live \in [Fields -> BOOLEAN]
      BY <1>3, WriteTypes, ClassFacts DEF TypeOK
    <2> QED
      BY <1>1, <1>2, <2>2, <2>3, <2>4
  <1>9. FailedInv'
    BY <1>1, <1>4, <1>5, <1>6 DEF EntitiesInv, FailedInv, Marked
  <1>10. DataInv'
    BY <1>1, <1>4, <1>5 DEF EntitiesInv, DataInv, Accepted, Marked
  <1>11. PowerInv'
    <2>1. \A i \in DOMAIN writes : Going(i)' <=> Going(i)
      BY <1>1, <1>4 DEF Going, Early
    <2>2. GoingWell' <=> GoingWell
      BY <1>1, <1>4, <1>5, <2>1 DEF GoingWell, OneMode, Marked
    <2>3. \A i \in DOMAIN writes :
              /\ Sent(i)' <=> Sent(i)
              /\ Saving(i)' <=> Saving(i)
              /\ FastUnderWay(i)' <=> FastUnderWay(i)
              /\ PowerUnderWay(i)' <=> PowerUnderWay(i)
              /\ Knows(i)' <=> Knows(i)
      BY <1>1, <1>4 DEF Sent, Saving, FastUnderWay, PowerUnderWay, Knows, Early
    <2>4. DOMAIN writes' = DOMAIN writes /\ (SomeSent' <=> SomeSent)
      BY <1>5, <2>3 DEF Marked, SomeSent
    <2>5. Chosen => Chosen'
      BY <1>1, <1>4, <2>3, <2>4 DEF Chosen
    <2>6. Left => Left'
      BY <1>1, <2>3, <2>4 DEF Left
    <2>7. Informed => Informed'
      BY <1>4, <2>3, <2>4 DEF Informed
    <2> QED
      BY <2>2, <2>5, <2>6, <2>7 DEF EntitiesInv, PowerInv
  <1> QED
    BY <1>6, <1>7, <1>8, <1>9, <1>10, <1>11 DEF EntitiesInv

\* What of the waits a report leaves: a charger that stopped ends the wait for a Start.
Kept(stopped) == IF stopped /\ pend["own"] = 1 THEN [pend EXCEPT !["own"] = None] ELSE pend
Settles(i, r, stopped) ==
    writes[i].settled \/ (writes[i].presented /\ (r[writes[i].class.field] = writes[i].value
                                                  \/ (stopped /\ writes[i].value = 1)))

Awaited(r, p, f) == IF \E c \in play : c.field = f /\ Waits(c, r, p[f], live[f]) THEN p[f] ELSE None
ShownThen(r, p, f) ==
    IF \E c \in play : c.field = f
    THEN LET c == CHOOSE x \in play : x.field = f IN Show(c, r, p[f], live[f])
    ELSE None

\* A report is shown by each class for itself: no two share a field.
LEMMA ReportShows ==
  ASSUME PresentationConstants, TypeOK, NEW r \in [Fields -> Maybe], NEW p \in [Fields -> Maybe],
         pend' = [f \in Fields |-> Awaited(r, p, f)], shown' = [f \in Fields |-> ShownThen(r, p, f)]
  PROVE  /\ pend' \in [Fields -> Maybe] /\ shown' \in [Fields -> Maybe]
         /\ \A c \in play : /\ c.field \in Fields
                            /\ pend'[c.field] = IF Waits(c, r, p[c.field],
                                                         live[c.field]) THEN p[c.field] ELSE None
                            /\ shown'[c.field] = Show(c, r, p[c.field], live[c.field])
  <1>1. /\ play \subseteq Classes /\ \A c, d \in play : c.field = d.field => c = d
        /\ \A c \in play : c.field \in Fields
    BY PlayFacts, ClassFacts DEF TypeOK
  <1>2. ASSUME NEW c \in play
        PROVE  Show(c, r, p[c.field], live[c.field]) \in Maybe
    BY <1>1, <1>2 DEF Show, Maybe, TypeOK
  <1>3. ASSUME NEW c \in play
        PROVE  (CHOOSE x \in play : x.field = c.field) = c
    BY <1>1, <1>3
  <1>4. ASSUME NEW c \in play
        PROVE  /\ pend'[c.field] = IF Waits(c, r, p[c.field],
                                            live[c.field]) THEN p[c.field] ELSE None
               /\ shown'[c.field] = Show(c, r, p[c.field], live[c.field])
    <2>1. pend'[c.field] = IF \E d \in play : d.field = c.field /\
              Waits(d, r, p[c.field], live[c.field])
                           THEN p[c.field] ELSE None
      BY <1>1, <1>4 DEF Awaited
    <2>2. shown'[c.field] = Show(CHOOSE x \in play : x.field = c.field, r, p[c.field],
                                 live[c.field])
      BY <1>1, <1>4 DEF ShownThen
    <2> QED
      BY <1>1, <1>3, <1>4, <2>1, <2>2
  <1>5. \A f \in Fields : shown'[f] \in Maybe
    <2> SUFFICES ASSUME NEW f \in Fields PROVE shown'[f] \in Maybe
      OBVIOUS
    <2>1. CASE \E c \in play : c.field = f
      BY <1>2, <1>4, <2>1
    <2>2. CASE ~\E c \in play : c.field = f
      BY <2>2 DEF Maybe, ShownThen
    <2> QED
      BY <2>1, <2>2
  <1>6. pend' \in [Fields -> Maybe]
    <2>1. \A f \in Fields : Awaited(r, p, f) \in Maybe
      BY DEF Awaited, Maybe
    <2> QED
      BY <2>1
  <1>7. shown' \in [Fields -> Maybe]
    BY <1>5
  <1> QED
    BY <1>1, <1>4, <1>6, <1>7

LEMMA ReportStep ==
  ASSUME PresentationConstants, EntitiesInv, Report
  PROVE  EntitiesInv'
  <1>1. /\ UNCHANGED <<play, enabled, desired, live, owner, version, device>>
        /\ reports < MaxReports /\ reports' = reports + 1 /\ fresh' = TRUE
    BY DEF Report
  <1>2. PICK r \in Reports, stopped \in BOOLEAN :
        /\ report' = r /\ data' = r
        /\ pend' = [f \in Fields |-> Awaited(r, Kept(stopped), f)]
        /\ shown' = [f \in Fields |-> ShownThen(r, Kept(stopped), f)]
        /\ writes' = [i \in DOMAIN writes |->
               [writes[i] EXCEPT !.current = FALSE,
                   !.settled = @ \/ (writes[i].presented /\
                                    (r[writes[i].class.field] = writes[i].value
                                     \/ (stopped /\ writes[i].value = 1)))]]
    BY DEF Report, Kept, Awaited, ShownThen
  <1>3. TypeOK /\ StageInv /\ \A i \in DOMAIN writes : writes[i] \in Write
    BY WriteTypes DEF EntitiesInv
  <1>4. r \in [Fields -> Maybe] /\ Kept(stopped) \in [Fields -> Maybe]
    <2>1. r \in [Fields -> Maybe]
      BY <1>2 DEF Reports, Detail, NoDetail, Maybe
    <2>2. Kept(stopped) \in [Fields -> Maybe]
      BY <1>3 DEF TypeOK, Kept, Maybe
    <2> QED
      BY <2>1, <2>2
  <1>5. /\ pend' \in [Fields -> Maybe] /\ shown' \in [Fields -> Maybe]
        /\ \A c \in play :
               /\ c.field \in Fields
               /\ pend'[c.field] = IF Waits(c, r, Kept(stopped)[c.field], live[c.field])
                                   THEN Kept(stopped)[c.field] ELSE None
               /\ shown'[c.field] = Show(c, r, Kept(stopped)[c.field], live[c.field])
    BY <1>2, <1>3, <1>4, ReportShows
  <1>6. ASSUME NEW i \in DOMAIN writes
        PROVE  /\ writes'[i] \in Write /\ (writes'[i].settled <=> Settles(i, r, stopped)) /\
                      ~writes'[i].current
               /\ writes'[i].class = writes[i].class /\ writes'[i].value = writes[i].value /\
                      writes'[i].at = writes[i].at
               /\ writes'[i].version = writes[i].version /\ writes'[i].staged = writes[i].staged
               /\ writes'[i].presented = writes[i].presented /\ writes'[i].late = writes[i].late
               /\ writes'[i].before = writes[i].before /\ writes'[i].power = writes[i].power
    <2>1. writes[i].settled \in BOOLEAN /\ writes[i].presented \in BOOLEAN
      BY <1>3, <1>6, WriteTypes
    <2>2. Settles(i, r, stopped) \in BOOLEAN
      BY <2>1 DEF Settles
    <2>3. writes'[i] = [writes[i] EXCEPT !.current = FALSE,
                   !.settled = @ \/ (writes[i].presented /\
                                    (r[writes[i].class.field] = writes[i].value
                                     \/ (stopped /\ writes[i].value = 1)))]
      BY <1>2, <1>6
    <2>4. writes'[i] = [writes[i] EXCEPT !.current = FALSE, !.settled = Settles(i, r, stopped)]
      BY <2>3 DEF Settles
    <2> QED
      BY <1>3, <1>6, <2>2, <2>4, MarkReported
  <1>7. Marked
    <2>1. DOMAIN writes' = DOMAIN writes /\ writes' = [i \in DOMAIN writes |-> writes'[i]]
      BY <1>2
    <2>2. writes' \in Seq(Write) /\ DOMAIN writes' = DOMAIN writes /\ Len(writes') = Len(writes)
      BY <1>3, <1>6, <2>1, MarkSeq
    <2> QED
      BY <1>6, <2>2 DEF Marked
  <1>8. /\ StageInv' /\ LockInv' /\ OrderInv' /\ OwnerInv' /\ NumberedInv'
        /\ \A k \in DOMAIN writes : Newest(k)' <=> Newest(k)
    BY <1>1, <1>7, MarkedKeeps
  <1>9. TypeOK'
    <2>1. reports' \in 0..MaxReports
      BY <1>1, <1>3 DEF TypeOK, PresentationConstants
    <2> QED
      BY <1>1, <1>2, <1>3, <1>4, <1>5, <1>7, <2>1 DEF TypeOK, Marked
  <1>10. WaitInv'
    <2>1. SUFFICES ASSUME NEW i \in DOMAIN writes, Newest(i)', writes'[i].class.shows = "pending",
                          writes'[i].presented, writes'[i].at \in {"sent", "again", "ok"},
                          ~writes'[i].settled
                   PROVE  LET g == writes'[i].class.field IN
                          pend'[g] = writes'[i].value /\ live'[g] /\ shown'[g] = writes'[i].value
      BY <1>7 DEF WaitInv, Marked
    <2> DEFINE g == writes[i].class.field
    <2>2. Newest(i) /\ writes[i].class.shows = "pending" /\ writes[i].presented
          /\ writes[i].at \in {"sent", "again", "ok"} /\ ~Settles(i, r, stopped)
          /\ writes'[i].value = writes[i].value /\ writes'[i].class = writes[i].class
      BY <1>6, <1>8, <2>1
    <2>3. ~writes[i].settled /\ r[g] # writes[i].value /\ ~(stopped /\ writes[i].value = 1)
      BY <2>2 DEF Settles
    <2>4. pend[g] = writes[i].value /\ live[g] /\ shown[g] = writes[i].value
      BY <2>2, <2>3 DEF EntitiesInv, WaitInv
    <2>5. Kept(stopped)[g] = writes[i].value
      BY <1>3, <2>3, <2>4 DEF Kept, TypeOK
    <2>6. writes[i].class \in play /\ writes[i].value # None
      BY <1>3, WriteTypes DEF StageInv, Stage, PresentationConstants
    <2>7. Waits(writes[i].class, r, Kept(stopped)[g], live[g])
      BY <2>2, <2>3, <2>4, <2>5, <2>6 DEF Waits
    <2>8. pend'[g] = writes[i].value /\ shown'[g] = writes[i].value
      BY <1>5, <2>2, <2>5, <2>6, <2>7 DEF Show
    <2> QED
      BY <1>1, <2>2, <2>4, <2>8
  <1>11. FailedInv'
    <2>1. SUFFICES ASSUME NEW i \in DOMAIN writes, Newest(i)', writes'[i].class.shows # "wanted",
                          writes'[i].presented, writes'[i].at = "failed"
                   PROVE  LET g == writes'[i].class.field IN pend'[g] = None /\
                              shown'[g] = report'[g]
      BY <1>7 DEF FailedInv, Marked
    <2> DEFINE g == writes[i].class.field
    <2>2. Newest(i) /\ writes[i].class.shows # "wanted" /\ writes[i].presented /\
              writes[i].at = "failed"
          /\ writes'[i].class = writes[i].class
      BY <1>6, <1>8, <2>1
    <2>3. pend[g] = None /\ writes[i].class \in play
      BY <1>3, <2>2 DEF EntitiesInv, FailedInv, StageInv, Stage
    <2>4. Kept(stopped)[g] = None
      BY <1>3, <2>3 DEF Kept, TypeOK
    <2>5. ~Waits(writes[i].class, r, Kept(stopped)[g], live[g])
      BY <2>4 DEF Waits
    <2> QED
      <3>1. pend'[g] = None /\ shown'[g] = Show(writes[i].class, r, Kept(stopped)[g], live[g]) /\
                report'[g] = r[g]
        BY <1>2, <1>5, <2>3, <2>5
      <3>2. Show(writes[i].class, r, Kept(stopped)[g], live[g]) = r[g]
        BY <2>2, <2>5 DEF Show
      <3> QED
        BY <2>2, <3>1, <3>2
  <1>12. DataInv'
    BY <1>2, <1>6, <1>7 DEF DataInv, Marked
  <1>13. PowerInv'
    <2> SUFFICES ASSUME GoingWell' PROVE Chosen' /\ Left' /\ Informed'
      BY DEF PowerInv
    <2>1. ASSUME NEW i \in DOMAIN writes
          PROVE  Going(i) /\ writes[i].class = PowerNumber /\ Early(writes[i])
      <3>1. Going(i)'
        BY <1>7, <2>1 DEF GoingWell, Marked
      <3> QED
        BY <1>1, <1>6, <2>1, <3>1 DEF Going, Early
    <2>2. GoingWell
      BY <1>1, <1>6, <1>7, <2>1 DEF GoingWell, OneMode, Marked
    <2>3. Chosen /\ DOMAIN writes' = DOMAIN writes
      BY <1>7, <2>2 DEF EntitiesInv, PowerInv, Marked
    <2>4. ~SomeSent'
      BY <1>6, <2>1, <2>3 DEF SomeSent, Sent, Early
    <2>5. Chosen'
      BY <1>1, <1>6, <2>3, <2>4 DEF Chosen, Saving
    <2>6. Left'
      BY <2>4 DEF Left
    <2>7. Informed'
      BY <1>6, <2>1, <2>3, PowerClasses DEF Informed
    <2> QED
      BY <2>5, <2>6, <2>7
  <1> QED
    BY <1>8, <1>9, <1>10, <1>11, <1>12, <1>13 DEF EntitiesInv

\* A read that fails changes nothing but whether the data are fresh.
LEMMA EntitiesStays ==
  ASSUME EntitiesInv, UNCHANGED <<play, enabled, desired, report, data, pend, live, owner, shown,
         writes, version, device, reports>>,
         fresh' \in BOOLEAN
  PROVE  EntitiesInv'
  <1>1. TypeOK'
    BY DEF EntitiesInv, TypeOK
  <1>2. StageInv' /\ LockInv' /\ OrderInv'
    BY DEF EntitiesInv, StageInv, Stage, LockInv, OrderInv, Holds, Locks
  <1>3. OwnerInv' /\ WaitInv' /\ FailedInv'
    BY DEF EntitiesInv, OwnerInv, WaitInv, FailedInv, Newest
  <1>4. DataInv' /\ NumberedInv'
    BY DEF EntitiesInv, DataInv, Accepted, NumberedInv
  <1>5. PowerInv'
    BY DEF EntitiesInv, PowerInv, GoingWell, OneMode, Going, Early, Chosen, SomeSent, Sent, Saving,
       Left,
           PowerUnderWay, FastUnderWay, Informed, Knows
  <1> QED
    BY <1>1, <1>2, <1>3, <1>4, <1>5 DEF EntitiesInv

LEMMA EntitiesInit ==
  ASSUME PresentationConstants, Init
  PROVE  EntitiesInv
  <1>1. /\ writes = << >> /\ DOMAIN writes = {} /\ Len(writes) = 0 /\ version = 0 /\ reports = 0
        /\ report \in [Fields -> Values] /\ data = report /\ play \in Plays
    BY DEF Init, Detail
  <1>2. shown \in [Fields -> Maybe]
    <2>1. ASSUME NEW c \in play
          PROVE  ShownAtFirst(c) \in Maybe
      <3>1. c.field \in Fields
        BY <1>1, <2>1, PlayFacts, ClassFacts
      <3> QED
        BY <1>1, <3>1 DEF ShownAtFirst, Init, Maybe, Values
    <2>2. ASSUME NEW f \in Fields, \E c \in play : c.field = f
          PROVE  (CHOOSE c \in play : c.field = f) \in play
      BY <2>2
    <2>3. shown = [f \in Fields |-> IF \E c \in play : c.field = f
                                    THEN ShownAtFirst(CHOOSE c \in play : c.field = f) ELSE None]
      BY DEF Init
    <2>4. \A f \in Fields : shown[f] \in Maybe
      BY <2>1, <2>2, <2>3 DEF Maybe
    <2> QED
      BY <2>3, <2>4
  <1>3. TypeOK
    <2>1. writes \in Seq(Write)
      BY <1>1
    <2>2. /\ play \in Plays /\ enabled \in BOOLEAN /\ fresh \in BOOLEAN
          /\ desired \in Maybe /\ device \in Maybe
          /\ report \in [Fields -> Maybe] /\ data \in [Fields -> Maybe]
          /\ pend \in [Fields -> Maybe] /\ live \in [Fields -> BOOLEAN]
      BY <1>1 DEF Init, Maybe, Values
    <2>3. /\ owner \in [Fields -> 0..MaxCalls] /\ Len(writes) <= MaxCalls
          /\ version \in 0..MaxCalls /\ reports \in 0..MaxReports
      BY <1>1 DEF Init, PresentationConstants
    <2> QED
      BY <1>2, <2>1, <2>2, <2>3 DEF TypeOK
  <1>4. StageInv /\ LockInv /\ OrderInv /\ OwnerInv /\ WaitInv /\ FailedInv
    BY <1>1 DEF StageInv, LockInv, OrderInv, OwnerInv, WaitInv, FailedInv
  <1>5. DataInv /\ NumberedInv
    BY <1>1 DEF DataInv, NumberedInv
  <1>6. PowerInv
    BY <1>1 DEF PowerInv, Chosen, SomeSent, Left, Informed
  <1> QED
    BY <1>3, <1>4, <1>5, <1>6 DEF EntitiesInv

LEMMA EntitiesNext ==
  ASSUME PresentationConstants, EntitiesInv, [Next]_vars
  PROVE  EntitiesInv'
  <1>1. CASE Call
    BY <1>1, CallStep
  <1>2. CASE Take
    BY <1>2, TakeStep
  <1>3. CASE Saved
    BY <1>3, SavedStep
  <1>4. CASE Succeeds
    BY <1>4, SucceedsStep
  <1>5. CASE PolicySucceeds
    BY <1>5, PolicySucceedsStep
  <1>6. CASE Fails
    BY <1>6, FailsStep
  <1>7. CASE Report
    BY <1>7, ReportStep
  <1>8. CASE ReportFails
    BY <1>8, EntitiesStays DEF ReportFails
  <1>9. CASE WaitOver
    BY <1>9, WaitOverStep
  <1>10. CASE UNCHANGED vars
    BY <1>10, EntitiesStays DEF vars, EntitiesInv, TypeOK
  <1> QED
    BY <1>1, <1>2, <1>3, <1>4, <1>5, <1>6, <1>7, <1>8, <1>9, <1>10 DEF Next

-----------------------------------------------------------------------------
(* Theorems *)

\* The inductive invariant of what the entities show while their writes are under way.
THEOREM EntitiesInvariant ==
  ASSUME PresentationConstants
  PROVE  Spec => []EntitiesInv
  <1>1. Init => EntitiesInv
    BY EntitiesInit
  <1>2. EntitiesInv /\ [Next]_vars => EntitiesInv'
    BY EntitiesNext
  <1> QED
    BY <1>1, <1>2, PTL DEF Spec

\* All variables keep their types, for any number of calls and of reports.
THEOREM EntitiesTypes ==
  ASSUME PresentationConstants
  PROVE  Spec => []TypeOK
  <1>1. EntitiesInv => TypeOK
    BY DEF EntitiesInv
  <1> QED
    BY <1>1, EntitiesInvariant, PTL

\* The newest write of an entity that waits for it is what it shows, until a report
\* confirms it, the wait is over or the write fails.
THEOREM NewestIsShown ==
  ASSUME PresentationConstants
  PROVE  Spec => []NewestShown
  <1>1. EntitiesInv => NewestShown
    BY DEF EntitiesInv, WaitInv, NewestShown
  <1> QED
    BY <1>1, EntitiesInvariant, PTL

\* A write that failed is gone from the entity, and the shared data have the power of the
\* last report or one the charger accepted since.
THEOREM FailuresLeaveNothing ==
  ASSUME PresentationConstants
  PROVE  Spec => []FailureLeavesNothing
  <1>1. ASSUME EntitiesInv
        PROVE  FailureLeavesNothing
    <2>1. FailedNotShown
      BY <1>1 DEF EntitiesInv, FailedInv, FailedNotShown
    <2>2. PowerReported
      <3>1. SUFFICES ASSUME Rests PROVE data["power"] = report["power"] \/ Accepted(data["power"])
        BY DEF PowerReported, Accepted
      <3>2. \A i \in DOMAIN writes : writes[i].at # "sent"
        BY <3>1 DEF Rests, Ends
      <3> QED
        BY <1>1, <3>2 DEF EntitiesInv, DataInv
    <2> QED
      BY <2>1, <2>2 DEF FailureLeavesNothing
  <1> QED
    BY <1>1, EntitiesInvariant, PTL

\* When every call is over, the charger has the newest power that was chosen, unless a
\* report came between, one was refused or failed, or one was chosen too late to be sent
\* along.
THEOREM NewestPowerIsLeft ==
  ASSUME PresentationConstants
  PROVE  Spec => []NewestPowerStands
  <1>1. ASSUME EntitiesInv
        PROVE  NewestPowerStands
    <2>1. SUFFICES ASSUME Rests, NEW k \in DOMAIN writes, writes[k].class = PowerNumber, OneMode,
                          \A i \in DOMAIN writes :
                             writes[i].at = "ok" /\ writes[i].current /\ ~writes[i].staged /\
                                 ~writes[i].late
                   PROVE  device = desired
      BY DEF NewestPowerStands, OneMode
    <2>2. PowerNumber \in play
      BY <1>1, <2>1 DEF EntitiesInv, StageInv, Stage
    <2>3. GoingWell
      BY <2>1, <2>2 DEF GoingWell, Going, Early
    <2>4. Chosen /\ Left
      BY <1>1, <2>3 DEF EntitiesInv, PowerInv
    <2>5. SomeSent /\ \A i \in DOMAIN writes : ~Saving(i) /\ ~PowerUnderWay(i) /\ ~FastUnderWay(i)
      BY <2>1 DEF SomeSent, Sent, Saving, PowerUnderWay, FastUnderWay
    <2> QED
      BY <2>4, <2>5 DEF Chosen, Left
  <1> QED
    BY <1>1, EntitiesInvariant, PTL
=============================================================================


---------------------------- MODULE RoutingProofs ----------------------------
(***************************************************************************)
(* Theorems about NativeRouting, for any number of handovers, crashes and    *)
(* polls that overlap: its types, that the user's choice stands, that a      *)
(* shutdown leaves the wallbox with the cloud, that a request routed to the  *)
(* cloud finds it there, and, where the boundary can be saved, that what is  *)
(* shown is of now.                                                          *)
(***************************************************************************)
EXTENDS NativeRouting, TLAPS

Takes == {"prerestore", "activate", "connect"}
Moves == Takes \cup {"mark", "marking", "restore"}
Asks  == {"save", "hint"}

\* Who has the policy's lock, in which life of the entry.
ShapeInv ==
    /\ writer.at = "idle" <=> writer.who = "nobody"
    /\ writer.at = "idle" => writer = Idle
    /\ up \in {"down", "stopped"} => writer = Idle
    /\ writer.who = "boot" => up = "booting"
    /\ up = "booting" => writer.who \in {"boot", "stop"}
    /\ writer.who = "stop" => ~writer.target /\ up \in {"booting", "leaving"}
    /\ asked.who = "stop" => ~asked.target /\ up = "leaving" /\ writer.who # "stop"
    /\ asked.who # "boot"
    /\ tick.at # "idle" => up \notin {"down", "booting"}
    /\ up \in {"down", "booting"} => ~local /\ asked = NoAsk /\ choice = NoChoice
    /\ writer.at \in Takes => writer.target /\ ~local
    /\ writer.at = "save" => writer.who = "user"
    /\ writer.at \in {"choose", "failed"} => writer.who = "boot"
    /\ writer.at = "hint" => \/ writer.who = "boot" /\ ~writer.target /\ disk.journal
                             \/ writer.who = "auto" /\ writer.target /\ local
    /\ writer.at = "hint" => ~intent.manual
    /\ marking = "writer" <=> writer.at = "marking"

\* Every save of the connection intent has one who waits for it.
SavingInv ==
    /\ \A i, j \in DOMAIN saving : i # j => saving[i].who # saving[j].who
    /\ \A i \in DOMAIN saving :
          IF saving[i].who = "writer" THEN writer.at \in Asks
          ELSE poll[saving[i].who].at = "hint"

\* Between two transports nothing is shown and no poll is current.
MoveInv ==
    /\ transitioning => writer.at \in Moves /\ published = Nothing
    /\ writer.at \in Takes => transitioning
    /\ writer.who = "boot" /\ writer.recovery => ~transitioning
    /\ writer.at \in Moves => transitioning \/ up = "booting"
    /\ up \in {"down", "booting"} => published = Nothing /\ \A p \in Polls : poll[p] = NoPoll

\* A poll of this epoch is of the transport in use.
EpochInv ==
    \A p \in Polls : poll[p].at # "idle" =>
        /\ poll[p].epoch <= epoch
        /\ poll[p].kind = "tcp" => poll[p].at = "read"
        /\ poll[p].epoch = epoch => ~transitioning /\ (poll[p].kind = "tcp" <=> local)

\* What is shown is of the transport in use.
KindInv ==
    Running /\ ~transitioning => /\ published.kind = "cloud" => ~local
                                 /\ published.kind = "tcp" => local

\* What the wallbox keeps while nothing is written down to bring it back.
JournalInv == /\ socket = "host" => disk.journal
              /\ up = "stopped" => ~disk.journal
              /\ up = "booting" /\ writer.at \in {"choose", "activate"} => ~disk.journal
              /\ writer.at = "activate" => ~disk.journal

\* A selection carried out is carried out, and the fallback is paused.
ChoiceInv ==
    /\ choice.state # "none" => paused
    /\ asked.who = "user" => choice.state = "asked"
    /\ choice.state = "asked" =>
          \/ asked.who = "user" /\ (asked.target <=> choice.target)
          \/ asked.who # "user" /\ writer.who = "user" /\ (writer.target <=> choice.target)
    /\ choice.state = "done" /\ up = "up" => writer = Idle /\ (local <=> choice.target)

-----------------------------------------------------------------------------
(* What is known of the boundary in memory. *)

\* The boundary counts: the cloud is read with it, or will be before another is set.
Covered == \/ ~disk.journal
           \/ writer.at \in {"marking", "restore"}
           \/ ~local /\ writer.at \notin {"connect", "mark", "hint", "failed"}

ClockInv == /\ report.time <= clock /\ restoredAt <= clock /\ disk.marker <= clock
            /\ report.spell <= spell
            /\ \A p \in Polls : poll[p].report.time <= report.time

\* A wallbox that was left on this host has not reported to SEMS since.
ReachInv == up # "down" /\ Covered /\ socket = "host" => report.time < restoredAt

\* A poll that may withdraw the boundary has read a report that is not older.
PassedInv ==
    \A p \in Polls :
        /\ poll[p].at = "clearing" => marking = p /\ poll[p].report.time >= restoredAt
        /\ poll[p].at = "clear" /\ poll[p].epoch = epoch => poll[p].report.time >= restoredAt

-----------------------------------------------------------------------------
(* The freshness of reports, when the boundary can be saved. *)

\* A report not older than b was made since the wallbox last went where it is.
Fresh(b) == report.time >= b => report.spell = spell

BoundaryInv == ~SavesFail =>
    /\ ~disk.journal => Fresh(disk.marker)
    /\ up # "down" /\ Covered => Fresh(restoredAt)
    /\ up # "down" /\ Covered /\ writer.at # "marking" => Fresh(disk.marker)

\* Answers come one at a time, so a later one is of a newer report.
AnswerInv ==
    \A p, q \in Polls : poll[p].at = "answered" =>
        /\ poll[q].at = "answered" => p = q
        /\ poll[q].at \in {"clear", "clearing"} => poll[p].report.time >= poll[q].report.time

\* What a current poll has read, once it has passed, is of here and now.
ReportInv == ~SavesFail =>
    \A p \in Polls : poll[p].epoch = epoch =>
        /\ poll[p].at = "answered" /\ poll[p].report.time >= restoredAt =>
               poll[p].report.spell = spell
        /\ poll[p].at \in {"clear", "clearing", "last", "hint"} => poll[p].report.spell = spell

ShownInv == ~SavesFail =>
    (Running /\ ~transitioning /\ published.kind = "cloud" => published.spell = spell)

RouteInv == /\ TypeOK /\ ShapeInv /\ SavingInv /\ MoveInv /\ EpochInv /\ KindInv /\ JournalInv
            /\ ChoiceInv /\ ClockInv /\ ReachInv /\ PassedInv
            /\ BoundaryInv /\ AnswerInv /\ ReportInv /\ ShownInv

-----------------------------------------------------------------------------
(* What the parts of the handovers do. *)

Disks   == [intent : Preferences, marker : Nat, journal : BOOLEAN]
Lives   == {"down", "booting", "up", "closing", "leaving", "stopped", "stuck"}
Ticks   == [at : {"idle", "refresh", "probe", "asked", "won", "recovered"}, epoch : Nat]
Writers == [who : Callers, target : BOOLEAN, recovery : BOOLEAN, at : Places]
Askers  == [who : Callers, target : BOOLEAN, recovery : BOOLEAN]
Choices == [target : BOOLEAN, state : {"none", "asked", "done", "failed"}]
Entries == [who : Polls \cup {"writer"}, intent : Preferences]
Refreshes == [at : {"idle", "read", "answered", "clear", "clearing", "last", "hint"},
              epoch : Nat, kind : {"cloud", "tcp"}, report : Stamps]

Shows   == [kind : {"nothing", "cloud", "tcp"}, spell : Nat]

\* What a handover moves keeps its types.
Moved == writer' \in Writers /\ up' \in Lives /\ tick' \in Ticks /\ choice' \in Choices

\* The handover a has succeeded, or failed: who waits for it goes on.
Done(a) ==
    /\ Moved
    /\ a.who = "boot" /\ ~a.target =>
          writer'.who = "boot" /\ ~writer'.target /\ writer'.at = "choose" /\ up' = up
    /\ a.who = "boot" /\ a.target => writer' = Idle /\ up' = "up"
    /\ a.who # "boot" => writer' = Idle
    /\ a.who = "stop" => up' = IF up = "booting" THEN "down" ELSE "stopped"
    /\ a.who # "auto" => tick' = tick
    /\ a.who \notin {"boot", "stop"} => up' = up
    /\ choice'.target = choice.target
    /\ IF a.who = "user" /\ choice.state = "asked" /\ asked.who # "user"
       THEN choice'.state = "done" ELSE choice' = choice

Failed(a) ==
    /\ Moved
    /\ a.who = "boot" => writer'.who = "boot" /\ writer'.at = "failed" /\ up' = up
    /\ a.who # "boot" => writer' = Idle
    /\ a.who = "stop" => up' = IF up = "booting" THEN "down" ELSE "stuck"
    /\ a.who # "auto" => tick' = tick
    /\ a.who \notin {"boot", "stop"} => up' = up
    /\ choice'.target = choice.target
    /\ IF a.who = "user" /\ choice.state = "asked" /\ asked.who # "user"
       THEN choice'.state = "failed" ELSE choice' = choice

\* The handover has come to another place.
Goes(a, place) ==
    /\ Moved /\ writer'.at = place
    /\ writer'.who = a.who /\ writer'.target = a.target /\ writer'.recovery = a.recovery
    /\ UNCHANGED <<up, tick, choice>>

\* The types of the variables, by name.
Typed ==
    /\ disk \in Disks /\ saving \in Seq(Entries) /\ up \in Lives /\ intent \in Preferences
    /\ restoredAt \in Nat /\ local \in BOOLEAN /\ transitioning \in BOOLEAN /\ epoch \in Nat
    /\ paused \in BOOLEAN /\ trial \in {"none", "running", "expired"}
    /\ failures \in 0..Limit /\ localFailures \in 0..Limit
    /\ tick \in Ticks /\ asked \in Askers /\ writer \in Writers
    /\ marking \in Polls \cup {"nobody", "writer"} /\ poll \in [Polls -> Refreshes]
    /\ published \in Shows
    /\ socket \in {"cloud", "host"} /\ spell \in Nat /\ report \in Stamps /\ clock \in Nat
    /\ ops \in 0..MaxOps /\ crashes \in 0..MaxCrashes /\ choice \in Choices

LEMMA TypesNamed == (TypeOK <=> Typed) /\ (TypeOK' <=> Typed')
  BY DEF TypeOK, Typed, Disks, Writers, Ticks, Choices, Askers, Lives, Entries, Refreshes, Shows

\* What the types say of the single values.
Plain ==
    /\ local \in BOOLEAN /\ transitioning \in BOOLEAN /\ paused \in BOOLEAN /\ epoch \in Nat
    /\ restoredAt \in Nat /\ clock \in Nat /\ spell \in Nat /\ socket \in {"cloud", "host"}
    /\ up \in {"down", "booting", "up", "closing", "leaving", "stopped", "stuck"}
    /\ disk.journal \in BOOLEAN /\ disk.marker \in Nat
    /\ report.time \in Nat /\ report.spell \in Nat
    /\ asked.who \in Callers /\ asked.target \in BOOLEAN
    /\ writer.recovery \in BOOLEAN
    /\ writer.who \in Callers /\ writer.target \in BOOLEAN /\ writer.at \in Places
    /\ choice.target \in BOOLEAN /\ choice.state \in {"none", "asked", "done", "failed"}
    /\ \A p \in Polls : poll[p].epoch \in Nat /\ poll[p].report.time \in Nat

LEMMA PlainTypes == (TypeOK => Plain) /\ (TypeOK' => Plain')
<1>1. \A d \in Disks : d.journal \in BOOLEAN /\ d.marker \in Nat
  BY SMT DEF Disks
<1>2. \A a \in Askers : a.who \in Callers /\ a.target \in BOOLEAN
  BY SMT DEF Askers
<1>3. \A a \in Writers : a.who \in Callers /\ a.target \in BOOLEAN /\ a.at \in Places
                       /\ a.recovery \in BOOLEAN
  BY SMT DEF Writers
<1>4. \A c \in Choices : c.target \in BOOLEAN /\ c.state \in {"none", "asked", "done", "failed"}
  BY SMT DEF Choices
<1>5. \A r \in Stamps : r.time \in Nat /\ r.spell \in Nat
  BY SMT DEF Stamps
<1>6. \A f \in [Polls -> Refreshes] : \A p \in Polls : f[p].epoch \in Nat /\ f[p].report.time \in Nat
  <2>1. \A x \in Refreshes : x.epoch \in Nat /\ x.report.time \in Nat
    BY SMT DEF Refreshes, Stamps
  <2> QED BY <2>1, SMT
<1>7. Typed => Plain
  BY <1>1, <1>2, <1>3, <1>4, <1>5, <1>6, SMT DEF Typed, Plain, Lives
<1>8. ASSUME Typed' PROVE Plain'
  <2>1. \A p \in Polls : poll'[p].epoch \in Nat /\ poll'[p].report.time \in Nat
    BY <1>6, <1>8 DEF Typed
  <2>2. disk'.journal \in BOOLEAN /\ disk'.marker \in Nat
    BY <1>1, <1>8 DEF Typed
  <2>3. asked'.who \in Callers /\ asked'.target \in BOOLEAN
    BY <1>2, <1>8 DEF Typed
  <2>4. /\ writer'.who \in Callers /\ writer'.target \in BOOLEAN /\ writer'.at \in Places
        /\ writer'.recovery \in BOOLEAN
    BY <1>3, <1>8 DEF Typed
  <2>5. choice'.target \in BOOLEAN /\ choice'.state \in {"none", "asked", "done", "failed"}
    BY <1>4, <1>8 DEF Typed
  <2>6. report'.time \in Nat /\ report'.spell \in Nat
    BY <1>5, <1>8 DEF Typed
  <2> QED BY <1>8, <2>1, <2>2, <2>3, <2>4, <2>5, <2>6 DEF Typed, Plain, Lives
<1> QED BY <1>7, <1>8, TypesNamed

\* A change of one part of what is durable leaves the others.
Kept == disk' \in Disks /\ disk'.journal = disk.journal /\ disk'.marker = disk.marker

LEMMA JournalWritten ==
  ASSUME TypeOK, NEW j \in BOOLEAN, disk' = [disk EXCEPT !.journal = j]
  PROVE  disk' \in Disks /\ (disk'.journal <=> j) /\ disk'.marker = disk.marker
<1>1. disk \in Disks
  BY TypesNamed DEF Typed
<1> QED BY <1>1, SMT DEF Disks

LEMMA MarkerWritten ==
  ASSUME TypeOK, NEW m \in Nat, disk' = [disk EXCEPT !.marker = m]
  PROVE  disk' \in Disks /\ disk'.journal = disk.journal /\ disk'.marker = m
<1>1. disk \in Disks
  BY TypesNamed DEF Typed
<1> QED BY <1>1, SMT DEF Disks

LEMMA IntentWritten ==
  ASSUME TypeOK, NEW i \in Preferences, disk' = [disk EXCEPT !.intent = i]
  PROVE  Kept
<1>1. disk \in Disks
  BY TypesNamed DEF Typed
<1> QED BY <1>1, SMT DEF Disks, Kept

LEMMA DiskSame == TypeOK /\ disk' = disk => Kept
  BY TypesNamed DEF Typed, Kept

LEMMA EndDoes ==
  ASSUME TypeOK, NEW a, a.who \in Callers, a.target \in BOOLEAN, a.recovery \in BOOLEAN
  PROVE  (End(a, TRUE) => Done(a)) /\ (End(a, FALSE) => Failed(a))
<1>1. \A at \in Places : /\ At(a, at) \in Writers /\ At(a, at).who = a.who
                         /\ At(a, at).target = a.target /\ At(a, at).at = at
  BY SMT DEF At, Writers
<1>2. {"choose", "failed"} \subseteq Places /\ Idle \in Writers
  BY SMT DEF Places, Idle, NoAsk, Ask, At, Writers, Callers
<1>3. \A x \in {"won", "recovered", "idle"} : [tick EXCEPT !.at = x] \in Ticks
  <2>1. tick \in Ticks
    BY TypesNamed DEF Typed
  <2> QED BY <2>1, SMT DEF Ticks
<1>4. /\ tick \in Ticks /\ choice \in Choices /\ up \in Lives
      /\ {"up", "down", "stopped", "stuck"} \subseteq Lives
  BY TypesNamed DEF Typed, Lives
<1>5. \A x \in {"done", "failed"} : LET c == [choice EXCEPT !.state = x] IN
        c \in Choices /\ c.target = choice.target /\ c.state = x
  BY <1>4, SMT DEF Choices
<1>6. ASSUME End(a, TRUE) PROVE Done(a)
  <2>1. Moved
    BY <1>1, <1>2, <1>3, <1>4, <1>5, <1>6, SMT DEF End, Moved
  <2>2. /\ a.who = "boot" /\ ~a.target =>
              writer'.who = "boot" /\ ~writer'.target /\ writer'.at = "choose" /\ up' = up
        /\ a.who = "boot" /\ a.target => writer' = Idle /\ up' = "up"
        /\ a.who # "boot" => writer' = Idle
    BY <1>1, <1>2, <1>6, SMT DEF End
  <2>3. /\ a.who = "stop" => up' = IF up = "booting" THEN "down" ELSE "stopped"
        /\ a.who # "auto" => tick' = tick
        /\ a.who \notin {"boot", "stop"} => up' = up
    BY <1>6, SMT DEF End
  <2>4. /\ choice'.target = choice.target
        /\ IF a.who = "user" /\ choice.state = "asked" /\ asked.who # "user"
           THEN choice'.state = "done" ELSE choice' = choice
    BY <1>5, <1>6, SMT DEF End
  <2> QED BY <2>1, <2>2, <2>3, <2>4 DEF Done
<1>7. ASSUME End(a, FALSE) PROVE Failed(a)
  <2>1. Moved
    BY <1>1, <1>2, <1>3, <1>4, <1>5, <1>7, SMT DEF End, Moved
  <2>2. /\ a.who = "boot" => writer'.who = "boot" /\ writer'.at = "failed" /\ up' = up
        /\ a.who # "boot" => writer' = Idle
    BY <1>1, <1>2, <1>7, SMT DEF End
  <2>3. /\ a.who = "stop" => up' = IF up = "booting" THEN "down" ELSE "stuck"
        /\ a.who # "auto" => tick' = tick
        /\ a.who \notin {"boot", "stop"} => up' = up
    BY <1>7, SMT DEF End
  <2>4. /\ choice'.target = choice.target
        /\ IF a.who = "user" /\ choice.state = "asked" /\ asked.who # "user"
           THEN choice'.state = "failed" ELSE choice' = choice
    BY <1>5, <1>7, SMT DEF End
  <2> QED BY <2>1, <2>2, <2>3, <2>4 DEF Failed
<1> QED BY <1>6, <1>7

LEMMA FinishDoes ==
  ASSUME TypeOK
  PROVE  /\ Finish(TRUE) => Done(writer) /\ ~transitioning' /\ transitioning' \in BOOLEAN
         /\ Finish(FALSE) => Failed(writer) /\ ~transitioning' /\ transitioning' \in BOOLEAN
<1>1. writer.who \in Callers /\ writer.target \in BOOLEAN /\ writer.recovery \in BOOLEAN
  BY PlainTypes DEF Plain
<1>2. \A ok : Finish(ok) => transitioning' \in BOOLEAN /\ ~transitioning'
  BY Zenon DEF Finish
<1> QED BY <1>1, <1>2, EndDoes DEF Finish

LEMMA WriterGoes ==
  ASSUME TypeOK, NEW place \in Places, writer' = [writer EXCEPT !.at = place],
         UNCHANGED <<up, tick, choice>>
  PROVE  Goes(writer, place)
<1>1. writer \in Writers /\ up \in Lives /\ tick \in Ticks /\ choice \in Choices
  BY TypesNamed DEF Typed
<1>2. /\ writer' \in Writers /\ writer'.at = place /\ writer'.who = writer.who
      /\ writer'.target = writer.target /\ writer'.recovery = writer.recovery
  BY <1>1, SMT DEF Writers
<1> QED BY <1>1, <1>2 DEF Goes, Moved

LEMMA ProceedDoes ==
  ASSUME TypeOK, NEW place \in Places, Proceed(place)
  PROVE  Goes(writer, place) /\ UNCHANGED transitioning
  BY WriterGoes DEF Proceed

\* The first part of a handover: it is over at once, or the wallbox is on its way.
Leaves(a) ==
    /\ transitioning' \in BOOLEAN
    /\ \/ /\ (a.target <=> local) /\ ~disk.journal /\ Done(a)
          /\ UNCHANGED <<transitioning, epoch, published>>
       \/ /\ epoch' = epoch + 1 /\ published' = Nothing /\ ((a.target <=> local) => disk.journal)
          /\ \/ a.target /\ local /\ ~transitioning' /\ Done(a)
             \/ /\ ~(a.target /\ local) /\ transitioning'
                /\ \/ ~a.target /\ Goes(a, "mark")
                   \/ a.target /\ disk.journal /\ Goes(a, "prerestore")
                   \/ a.target /\ ~disk.journal /\ Goes(a, "activate")

LEMMA RouteDoes ==
  ASSUME TypeOK, NEW a \in Askers, Route(a)
  PROVE  Leaves(a)
<1>1. a.who \in Callers /\ a.target \in BOOLEAN /\ a.recovery \in BOOLEAN
  BY SMT DEF Askers
<1>2. ASSUME NEW place \in Places, writer' = At(a, place), UNCHANGED <<up, tick, choice>>
      PROVE  Goes(a, place)
  <2>1. up \in Lives /\ tick \in Ticks /\ choice \in Choices
    BY TypesNamed DEF Typed
  <2>2. /\ writer' \in Writers /\ writer'.at = place
        /\ writer'.who = a.who /\ writer'.target = a.target /\ writer'.recovery = a.recovery
    BY <1>1, <1>2, SMT DEF Writers, At
  <2> QED BY <1>2, <2>1, <2>2 DEF Goes, Moved
<1>3. {"mark", "prerestore", "activate"} \subseteq Places
  BY DEF Places
<1>4. End(a, TRUE) => Done(a)
  BY <1>1, EndDoes
<1>5. transitioning \in BOOLEAN
  BY TypesNamed DEF Typed
<1>6. CASE a.target = local /\ ~disk.journal
  BY <1>4, <1>5, <1>6, Zenon DEF Route, Leaves
<1>7. CASE ~(a.target = local /\ ~disk.journal) /\ a.target /\ local
  <2>1. transitioning' = FALSE /\ End(a, TRUE) /\ epoch' = epoch + 1 /\ published' = Nothing
    BY <1>7, Zenon DEF Route
  <2>2. transitioning' \in BOOLEAN /\ ~transitioning'
    BY <2>1, Zenon
  <2> QED BY <1>4, <1>7, <2>1, <2>2, Zenon DEF Leaves
<1>8. CASE ~(a.target = local /\ ~disk.journal) /\ ~(a.target /\ local)
  <2>1. epoch' = epoch + 1 /\ published' = Nothing /\ transitioning' = TRUE
    BY <1>8 DEF Route
  <2>2. UNCHANGED <<up, tick, choice>>
    BY <1>8 DEF Route
  <2>3. writer' = At(a, IF ~a.target THEN "mark" ELSE IF disk.journal THEN "prerestore" ELSE "activate")
    BY <1>8 DEF Route
  <2>4. transitioning' \in BOOLEAN /\ transitioning'
    BY <2>1, Zenon
  <2>5. (a.target <=> local) => disk.journal
    BY <1>1, <1>8, PlainTypes, Zenon DEF Plain
  <2>6. CASE ~a.target
    BY <1>2, <1>3, <1>8, <2>1, <2>2, <2>3, <2>4, <2>5, <2>6 DEF Leaves
  <2>7. CASE a.target /\ disk.journal
    BY <1>2, <1>3, <1>8, <2>1, <2>2, <2>3, <2>4, <2>5, <2>7 DEF Leaves
  <2>8. CASE a.target /\ ~disk.journal
    BY <1>2, <1>3, <1>8, <2>1, <2>2, <2>3, <2>4, <2>5, <2>8 DEF Leaves
  <2> QED BY <2>6, <2>7, <2>8, <1>1
<1> QED BY <1>6, <1>7, <1>8

LEMMA MovedTypes ==
  ASSUME TypeOK, NEW a
  PROVE  /\ Done(a) \/ Failed(a) => Moved
         /\ \A place : Goes(a, place) => Moved
         /\ Leaves(a) => /\ Moved /\ transitioning' \in BOOLEAN /\ epoch' \in Nat
                         /\ published' \in Shows
<1>1. Done(a) \/ Failed(a) => Moved
  BY DEF Done, Failed
<1>2. \A place : Goes(a, place) => Moved
  BY DEF Goes
<1>3. epoch \in Nat /\ published \in Shows /\ Nothing \in Shows
  BY TypesNamed, SMT DEF Typed, Shows, Nothing
<1>4. epoch + 1 \in Nat
  BY <1>3, SMT
<1>5. Leaves(a) => /\ Moved /\ transitioning' \in BOOLEAN /\ epoch' \in Nat
                   /\ published' \in Shows
  BY <1>1, <1>2, <1>3, <1>4 DEF Leaves
<1> QED BY <1>1, <1>2, <1>5

\* The handover that waits is dropped, and with it the user's selection.
ChoiceDrops == /\ choice' \in Choices /\ choice'.target = choice.target
               /\ choice'.state = IF asked.who = "user" THEN "failed" ELSE choice.state
               /\ asked.who # "user" => choice' = choice

LEMMA ChoiceFailsDoes == ASSUME TypeOK, choice' = ChoiceFails PROVE ChoiceDrops
<1>1. choice \in Choices
  BY TypesNamed DEF Typed
<1>2. LET c == [choice EXCEPT !.state = "failed"] IN
        c \in Choices /\ c.target = choice.target /\ c.state = "failed"
  BY <1>1, SMT DEF Choices
<1> QED BY <1>1, <1>2 DEF ChoiceFails, ChoiceDrops

\* The poll p is where it is and x is what it was.
Polled(p, at, x) ==
    /\ poll' \in [Polls -> Refreshes] /\ \A q \in Polls \ {p} : poll'[q] = poll[q]
    /\ poll'[p].at = at /\ poll'[p].epoch = x.epoch /\ poll'[p].kind = x.kind
    /\ poll'[p].report = x.report

LEMMA PlaceDoes ==
  ASSUME TypeOK, NEW p \in Polls, NEW at, Place(p, at),
         at \in {"idle", "read", "answered", "clear", "clearing", "last", "hint"}
  PROVE  Polled(p, at, poll[p])
<1>1. poll \in [Polls -> Refreshes]
  BY TypesNamed DEF Typed
<1>2. LET x == [poll[p] EXCEPT !.at = at] IN
        /\ x \in Refreshes /\ x.at = at /\ x.epoch = poll[p].epoch /\ x.kind = poll[p].kind
        /\ x.report = poll[p].report
  BY <1>1, SMT DEF Refreshes
<1> QED BY <1>1, <1>2 DEF Place, Polled

LEMMA EndedDoes ==
  ASSUME TypeOK, NEW p \in Polls, Ended(p)
  PROVE  /\ poll' \in [Polls -> Refreshes] /\ \A q \in Polls \ {p} : poll'[q] = poll[q]
         /\ poll'[p] = NoPoll
<1>1. poll \in [Polls -> Refreshes]
  BY TypesNamed DEF Typed
<1>2. NoPoll \in Refreshes
  BY SMT DEF NoPoll, Never, Refreshes, Stamps
<1> QED BY <1>1, <1>2 DEF Ended

\* A save that is over leaves the others, one for each who waits.
LEMMA TailSaves ==
  ASSUME saving \in Seq(Entries), saving # <<>>, saving' = Tail(saving),
         \A i, j \in DOMAIN saving : i # j => saving[i].who # saving[j].who
  PROVE  /\ saving' \in Seq(Entries)
         /\ \A i, j \in DOMAIN saving' : i # j => saving'[i].who # saving'[j].who
         /\ \A i \in DOMAIN saving' : /\ saving'[i].who # Head(saving).who
                                      /\ \E j \in DOMAIN saving : saving'[i] = saving[j]
<1>1. saving' \in Seq(Entries) /\ Len(saving') = Len(saving) - 1
  BY SMT
<1>2. \A i \in DOMAIN saving' : i + 1 \in DOMAIN saving /\ saving'[i] = saving[i + 1] /\ i + 1 # 1
  BY SMT
<1>3. 1 \in DOMAIN saving /\ Head(saving) = saving[1]
  BY SMT
<1>4. \A i, j \in DOMAIN saving' : i # j => i + 1 # j + 1
  BY <1>1, SMT
<1> QED BY <1>1, <1>2, <1>3, <1>4

LEMMA AppendSaves ==
  ASSUME saving \in Seq(Entries), NEW e \in Entries, saving' = Append(saving, e),
         \A i \in DOMAIN saving : saving[i].who # e.who,
         \A i, j \in DOMAIN saving : i # j => saving[i].who # saving[j].who
  PROVE  /\ saving' \in Seq(Entries)
         /\ \A i, j \in DOMAIN saving' : i # j => saving'[i].who # saving'[j].who
         /\ \A i \in DOMAIN saving' : saving'[i] = e \/ \E j \in DOMAIN saving : saving'[i] = saving[j]
<1>1. saving' \in Seq(Entries) /\ Len(saving') = Len(saving) + 1
  BY SMT
<1>2. \A i \in DOMAIN saving' : IF i = Len(saving) + 1 THEN saving'[i] = e
                                ELSE i \in DOMAIN saving /\ saving'[i] = saving[i]
  BY SMT
<1> QED BY <1>1, <1>2

\* The saves of an outage hint and of a selection.
Hint(who, automatic) == [who |-> who, intent |-> [manual |-> FALSE, automatic |-> automatic]]
Chosen(target) == [who |-> "writer", intent |-> [manual |-> target, automatic |-> FALSE]]

\* The constants of the model are of the types they stand for.
LEMMA Constants ==
    /\ Idle \in Writers /\ NoAsk \in Askers /\ TickIdle \in Ticks /\ NoChoice \in Choices
    /\ NoPoll \in Refreshes /\ Nothing \in Shows
<1>1. Idle \in Writers /\ NoAsk \in Askers
  BY SMT DEF Idle, NoAsk, Ask, At, Writers, Askers, Callers, Places
<1>2. TickIdle \in Ticks /\ NoChoice \in Choices
  BY SMT DEF TickIdle, Ticks, NoChoice, Choices
<1>3. NoPoll \in Refreshes /\ Nothing \in Shows
  BY SMT DEF NoPoll, Never, Refreshes, Stamps, Nothing, Shows
<1> QED BY <1>1, <1>2, <1>3

LEMMA Asked ==
  ASSUME NEW who \in Callers, NEW target \in BOOLEAN, NEW recovery \in BOOLEAN
  PROVE  LET a == Ask(who, target, recovery) IN
           a \in Askers /\ a.who = who /\ a.target = target /\ a.recovery = recovery
  BY SMT DEF Ask, Askers

LEMMA HintSaved ==
  ASSUME NEW who \in Polls \cup {"writer"}, NEW automatic \in BOOLEAN
  PROVE  Hint(who, automatic) \in Entries /\ Hint(who, automatic).who = who
  BY SMT DEF Hint, Entries, Preferences

LEMMA ChosenSaved ==
  ASSUME NEW target \in BOOLEAN
  PROVE  Chosen(target) \in Entries /\ Chosen(target).who = "writer"
  BY SMT DEF Chosen, Entries, Preferences

\* The save whose turn it is.
LEMMA HeadSaved ==
  ASSUME TypeOK, saving # <<>>
  PROVE  /\ 1 \in DOMAIN saving /\ Head(saving) = saving[1]
         /\ Head(saving) \in Entries /\ Head(saving).intent \in Preferences
<1>1. saving \in Seq(Entries)
  BY TypesNamed DEF Typed
<1>2. 1 \in DOMAIN saving /\ Head(saving) = saving[1] /\ Head(saving) \in Entries
  BY <1>1, SMT
<1>3. \A e \in Entries : e.intent \in Preferences
  BY SMT DEF Entries
<1> QED BY <1>2, <1>3

LEMMA Automatic ==
  ASSUME TypeOK, NEW automatic \in BOOLEAN, automatic => ~intent.manual
  PROVE  LET i == [intent EXCEPT !.automatic = automatic] IN
           i \in Preferences /\ i.manual = intent.manual
<1>1. /\ intent \in [manual : BOOLEAN, automatic : BOOLEAN]
      /\ ~(intent.manual /\ intent.automatic)
  BY TypesNamed, SMT DEF Typed, Preferences
<1> QED BY <1>1, SMT DEF Preferences

\* Who waits for a save, when one is over and when another is begun.
LEMMA TailSaving ==
  ASSUME TypeOK, SavingInv, saving # <<>>, saving' = Tail(saving),
         \A q \in Polls : q # Head(saving).who => poll'[q] = poll[q],
         Head(saving).who # "writer" => writer'.at = writer.at
  PROVE  saving' \in Seq(Entries) /\ SavingInv'
<1>1. saving \in Seq(Entries) /\ \A i, j \in DOMAIN saving : i # j => saving[i].who # saving[j].who
  BY TypesNamed DEF Typed, SavingInv
<1>2. /\ saving' \in Seq(Entries)
      /\ \A i, j \in DOMAIN saving' : i # j => saving'[i].who # saving'[j].who
      /\ \A i \in DOMAIN saving' : /\ saving'[i].who # Head(saving).who
                                   /\ \E j \in DOMAIN saving : saving'[i] = saving[j]
  BY <1>1, TailSaves
<1>3. \A e \in Entries : e.who \in Polls \cup {"writer"}
  BY SMT DEF Entries
<1>4. ASSUME NEW i \in DOMAIN saving'
      PROVE  IF saving'[i].who = "writer" THEN writer'.at \in Asks
             ELSE poll'[saving'[i].who].at = "hint"
  <2>1. PICK j \in DOMAIN saving : saving'[i] = saving[j]
    BY <1>2
  <2>2. IF saving[j].who = "writer" THEN writer.at \in Asks ELSE poll[saving[j].who].at = "hint"
    BY DEF SavingInv
  <2>3. saving[j] \in Entries
    BY <1>1, SMT
  <2> QED BY <1>2, <1>3, <2>1, <2>2, <2>3
<1> QED BY <1>2, <1>4 DEF SavingInv

LEMMA AppendSaving ==
  ASSUME TypeOK, SavingInv, NEW e \in Entries, saving' = Append(saving, e),
         IF e.who = "writer"
         THEN writer.at \notin Asks /\ writer'.at \in Asks /\ UNCHANGED poll
         ELSE /\ poll[e.who].at # "hint" /\ poll'[e.who].at = "hint" /\ UNCHANGED writer
              /\ \A q \in Polls \ {e.who} : poll'[q] = poll[q]
  PROVE  saving' \in Seq(Entries) /\ SavingInv'
<1>1. saving \in Seq(Entries) /\ \A i, j \in DOMAIN saving : i # j => saving[i].who # saving[j].who
  BY TypesNamed DEF Typed, SavingInv
<1>2. \A i \in DOMAIN saving : saving[i].who # e.who
  BY DEF SavingInv
<1>3. /\ saving' \in Seq(Entries)
      /\ \A i, j \in DOMAIN saving' : i # j => saving'[i].who # saving'[j].who
      /\ \A i \in DOMAIN saving' : saving'[i] = e \/ \E j \in DOMAIN saving : saving'[i] = saving[j]
  BY <1>1, <1>2, AppendSaves
<1>4. \A x \in Entries : x.who \in Polls \cup {"writer"}
  BY SMT DEF Entries
<1>5. ASSUME NEW i \in DOMAIN saving'
      PROVE  IF saving'[i].who = "writer" THEN writer'.at \in Asks
             ELSE poll'[saving'[i].who].at = "hint"
  <2>1. CASE saving'[i] = e
    BY <2>1
  <2>2. CASE saving'[i] # e
    <3>1. PICK j \in DOMAIN saving : saving'[i] = saving[j]
      BY <1>3, <2>2
    <3>2. IF saving[j].who = "writer" THEN writer.at \in Asks ELSE poll[saving[j].who].at = "hint"
      BY DEF SavingInv
    <3>3. saving[j] \in Entries /\ saving[j].who # e.who
      BY <1>1, <1>2, SMT
    <3> QED BY <1>4, <3>1, <3>2, <3>3
  <2> QED BY <2>1, <2>2
<1> QED BY <1>3, <1>5 DEF SavingInv

LEMMA Fields ==
    /\ Idle.who = "nobody" /\ Idle.at = "idle" /\ ~Idle.target
    /\ NoAsk.who = "nobody" /\ ~NoAsk.target
    /\ TickIdle.at = "idle" /\ NoChoice.state = "none" /\ Nothing.kind = "nothing"
    /\ NoPoll.at = "idle" /\ NoPoll.epoch = 0 /\ NoPoll.report.time = 0
  BY SMT DEF Idle, NoAsk, Ask, At, TickIdle, NoChoice, Nothing, NoPoll, Never

\* A poll that waits for no save may go on.
LEMMA OtherSaving ==
  ASSUME TypeOK, SavingInv, UNCHANGED <<saving, writer>>, NEW p \in Polls, poll[p].at # "hint",
         \A q \in Polls \ {p} : poll'[q] = poll[q]
  PROVE  SavingInv'
<1>1. \A e \in Entries : e.who \in Polls \cup {"writer"}
  BY SMT DEF Entries
<1>2. ASSUME NEW i \in DOMAIN saving PROVE saving[i].who \in Polls \cup {"writer"}
  <2>1. saving \in Seq(Entries)
    BY TypesNamed DEF Typed
  <2>2. saving[i] \in Entries
    BY <2>1, SMT
  <2> QED BY <1>1, <2>2
<1> QED BY <1>2 DEF SavingInv

-----------------------------------------------------------------------------
(* Takeovers: the wallbox is brought to this host, or found there. *)

LEMMA RestoreFirstStep == ASSUME RouteInv, RestoreFirst PROVE RouteInv'
<1>1. writer.at = "prerestore"
  BY DEF RestoreFirst
<1>2. \/ /\ ~disk'.journal /\ disk' \in Disks /\ disk'.marker = disk.marker /\ socket' = "cloud"
         /\ Goes(writer, "activate") /\ UNCHANGED transitioning
      \/ /\ Kept /\ socket' \in {socket, "cloud"} /\ Failed(writer) /\ ~transitioning'
         /\ transitioning' \in BOOLEAN
  <2>1. CASE disk' = [disk EXCEPT !.journal = FALSE] /\ socket' = "cloud" /\ Proceed("activate")
    BY <2>1, JournalWritten, ProceedDoes DEF RouteInv, Places
  <2>2. CASE disk' = disk /\ socket' \in {socket, "cloud"} /\ Finish(FALSE)
    BY <2>2, DiskSame, FinishDoes DEF RouteInv
  <2> QED BY <2>1, <2>2 DEF RestoreFirst
<1>3. writer.target /\ ~local
  BY <1>1 DEF RouteInv, ShapeInv, Takes
<1>4. disk' \in Disks /\ socket' \in {"cloud", "host"} /\ transitioning' \in BOOLEAN
  BY <1>2, PlainTypes, TypesNamed DEF RouteInv, Plain, Typed, Kept
<1>5. UNCHANGED <<saving, intent, restoredAt, local, epoch, paused, trial, failures, localFailures,
      asked, marking, poll, published, spell, report, clock, ops, crashes>>
  BY DEF RestoreFirst, KeepsRest, memory, timers, bounds
<1> HIDE DEF RestoreFirst
<1>6. /\ Moved
      /\ disk' \in Disks
      /\ transitioning' \in BOOLEAN
      /\ socket' \in {"cloud", "host"}
  BY <1>1, <1>2, <1>3, <1>4, <1>5, TypesNamed, Zenon DEF RouteInv, Typed, Done, Failed, Goes
<1>7. Typed'
  BY <1>5, <1>6, TypesNamed DEF RouteInv, Typed, Moved
<1>8. ShapeInv'
<2>1. CASE /\ ~disk'.journal /\ disk' \in Disks /\ disk'.marker = disk.marker /\ socket' = "cloud"
           /\ Goes(writer, "activate") /\ UNCHANGED transitioning
    BY <2>1, <1>1, <1>5, Fields DEF RouteInv, Goes, Takes, ShapeInv
<2>2. CASE /\ Kept /\ socket' \in {socket, "cloud"} /\ Failed(writer) /\ ~transitioning'
           /\ transitioning' \in BOOLEAN
    BY <2>2, <1>1, <1>5, Fields DEF RouteInv, Failed, Takes, ShapeInv
  <2> QED BY <1>1, <1>2, <1>3, <1>4, <1>5, <2>1, <2>2
<1>9. SavingInv'
  BY <1>1, <1>5 DEF RouteInv, Asks, SavingInv
<1>10. MoveInv'
<2>1. CASE /\ ~disk'.journal /\ disk' \in Disks /\ disk'.marker = disk.marker /\ socket' = "cloud"
           /\ Goes(writer, "activate") /\ UNCHANGED transitioning
    BY <2>1, <1>1, <1>5 DEF RouteInv, Goes, Takes, Moves, MoveInv
<2>2. CASE /\ Kept /\ socket' \in {socket, "cloud"} /\ Failed(writer) /\ ~transitioning'
           /\ transitioning' \in BOOLEAN
    BY <2>2, <1>5, Fields DEF RouteInv, Failed, Takes, Moves, MoveInv
  <2> QED BY <1>1, <1>2, <1>3, <1>4, <1>5, <2>1, <2>2
<1>11. EpochInv'
  BY <1>1, <1>5 DEF RouteInv, Takes, EpochInv, MoveInv
<1>12. KindInv'
  BY <1>3, <1>5, PlainTypes, Fields DEF RouteInv, Plain, Running, KindInv, ShapeInv, MoveInv
<1>13. JournalInv'
<2>1. CASE /\ ~disk'.journal /\ disk' \in Disks /\ disk'.marker = disk.marker /\ socket' = "cloud"
           /\ Goes(writer, "activate") /\ UNCHANGED transitioning
    BY <2>1 DEF RouteInv, JournalInv
<2>2. CASE /\ Kept /\ socket' \in {socket, "cloud"} /\ Failed(writer) /\ ~transitioning'
           /\ transitioning' \in BOOLEAN
    BY <2>2, Fields DEF RouteInv, Failed, Kept, JournalInv
  <2> QED BY <1>1, <1>2, <1>3, <1>4, <1>5, <2>1, <2>2
<1>14. ChoiceInv'
<2>1. CASE /\ ~disk'.journal /\ disk' \in Disks /\ disk'.marker = disk.marker /\ socket' = "cloud"
           /\ Goes(writer, "activate") /\ UNCHANGED transitioning
    BY <2>1, <1>3, <1>5, Fields DEF RouteInv, Goes, ChoiceInv
<2>2. CASE /\ Kept /\ socket' \in {socket, "cloud"} /\ Failed(writer) /\ ~transitioning'
           /\ transitioning' \in BOOLEAN
    BY <2>2, <1>5 DEF RouteInv, Failed, ChoiceInv, ShapeInv
  <2> QED BY <1>1, <1>2, <1>3, <1>4, <1>5, <2>1, <2>2
<1>15. ClockInv'
<2>1. CASE /\ ~disk'.journal /\ disk' \in Disks /\ disk'.marker = disk.marker /\ socket' = "cloud"
           /\ Goes(writer, "activate") /\ UNCHANGED transitioning
    BY <2>1, <1>5 DEF RouteInv, ClockInv
<2>2. CASE /\ Kept /\ socket' \in {socket, "cloud"} /\ Failed(writer) /\ ~transitioning'
           /\ transitioning' \in BOOLEAN
    BY <2>2, <1>5 DEF RouteInv, Kept, ClockInv
  <2> QED BY <1>1, <1>2, <1>3, <1>4, <1>5, <2>1, <2>2
<1>16. ReachInv'
<2>1. CASE /\ ~disk'.journal /\ disk' \in Disks /\ disk'.marker = disk.marker /\ socket' = "cloud"
           /\ Goes(writer, "activate") /\ UNCHANGED transitioning
    BY <2>1 DEF RouteInv, ReachInv
<2>2. CASE /\ Kept /\ socket' \in {socket, "cloud"} /\ Failed(writer) /\ ~transitioning'
           /\ transitioning' \in BOOLEAN
    BY <2>2, <1>1, <1>5 DEF RouteInv, Failed, Takes, ReachInv, Covered, ShapeInv
  <2> QED BY <1>1, <1>2, <1>3, <1>4, <1>5, <2>1, <2>2
<1>17. BoundaryInv'
<2>1. CASE /\ ~disk'.journal /\ disk' \in Disks /\ disk'.marker = disk.marker /\ socket' = "cloud"
           /\ Goes(writer, "activate") /\ UNCHANGED transitioning
    BY <2>1, <1>1, <1>5, Fields DEF RouteInv, Takes, BoundaryInv, Fresh, Covered, ShapeInv
<2>2. CASE /\ Kept /\ socket' \in {socket, "cloud"} /\ Failed(writer) /\ ~transitioning'
           /\ transitioning' \in BOOLEAN
    BY <2>2, <1>1, <1>5 DEF RouteInv, Failed, Kept, Takes, BoundaryInv, Fresh, Covered, ShapeInv
  <2> QED BY <1>1, <1>2, <1>3, <1>4, <1>5, <2>1, <2>2
<1>18. ShownInv'
  BY <1>3, <1>5, PlainTypes, Fields DEF RouteInv, Plain, Running, ShownInv, ShapeInv, MoveInv
<1>19. PassedInv' /\ AnswerInv' /\ ReportInv'
  BY <1>5 DEF RouteInv, PassedInv, AnswerInv, ReportInv
<1> QED BY TypesNamed, <1>7, <1>8, <1>9, <1>10, <1>11, <1>12, <1>13, <1>14, <1>15, <1>16, <1>17,
    <1>18, <1>19 DEF RouteInv

LEMMA ActivateStep == ASSUME RouteInv, Activate PROVE RouteInv'
<1>1. writer.at = "activate"
  BY DEF Activate
<1>2. disk' \in Disks /\ disk'.marker = disk.marker /\ disk'.journal
  BY JournalWritten DEF RouteInv, Activate
<1>3. socket' = "host" /\ spell' = IF socket = "host" THEN spell ELSE spell + 1
  BY SMT DEF Activate, ToHost
<1>4. Goes(writer, "connect") /\ UNCHANGED transitioning
  BY ProceedDoes DEF RouteInv, Activate, Places
<1>5. UNCHANGED <<saving, intent, restoredAt, local, epoch, paused, trial, failures, localFailures,
      asked, marking, poll, published, report, clock, ops, crashes>>
  BY DEF Activate, KeepsRest, memory, timers, bounds
<1> HIDE DEF Activate
<1>6. /\ Moved
      /\ disk' \in Disks
      /\ transitioning' \in BOOLEAN
      /\ socket' \in {"cloud", "host"}
      /\ spell' \in Nat
  BY <1>2, <1>3, <1>4, PlainTypes DEF RouteInv, Plain, Goes
<1>7. Typed'
  BY <1>5, <1>6, TypesNamed DEF RouteInv, Typed, Moved
<1>8. ShapeInv'
  BY <1>1, <1>4, <1>5, Fields DEF RouteInv, Goes, Takes, ShapeInv
<1>9. SavingInv'
  BY <1>1, <1>5 DEF RouteInv, Asks, SavingInv
<1>10. MoveInv'
  BY <1>1, <1>4, <1>5 DEF RouteInv, Goes, Takes, Moves, MoveInv
<1>11. EpochInv'
  BY <1>4, <1>5 DEF RouteInv, EpochInv
<1>12. KindInv'
  BY <1>4, <1>5 DEF RouteInv, Goes, Running, KindInv
<1>13. JournalInv'
  BY <1>1, <1>2, <1>4, Fields DEF RouteInv, Goes, JournalInv, ShapeInv
<1>14. ChoiceInv'
  BY <1>1, <1>4, <1>5, Fields DEF RouteInv, Goes, ChoiceInv
<1>15. ClockInv'
  BY <1>2, <1>3, <1>5, PlainTypes DEF RouteInv, Plain, ClockInv
<1>16. ReachInv'
  BY <1>2, <1>4 DEF RouteInv, Goes, ReachInv, Covered
<1>17. BoundaryInv'
  BY <1>2, <1>4 DEF RouteInv, Goes, BoundaryInv, Covered
<1>18. ReportInv'
  BY <1>1, <1>5 DEF RouteInv, Takes, ReportInv, MoveInv, EpochInv
<1>19. ShownInv'
  BY <1>1, <1>5, Fields DEF RouteInv, Takes, ShownInv, MoveInv
<1>20. PassedInv' /\ AnswerInv'
  BY <1>5 DEF RouteInv, PassedInv, AnswerInv
<1> QED BY TypesNamed, <1>7, <1>8, <1>9, <1>10, <1>11, <1>12, <1>13, <1>14, <1>15, <1>16, <1>17,
    <1>18, <1>19, <1>20 DEF RouteInv

LEMMA ActivateFailsStep == ASSUME RouteInv, ActivateFails PROVE RouteInv'
<1>1. writer.at = "activate"
  BY DEF ActivateFails
<1>2. disk' \in Disks /\ disk'.marker = disk.marker
  BY JournalWritten, SMT DEF RouteInv, ActivateFails
<1>3. socket' \in {socket, "host"} /\ (socket' = "host" => disk'.journal)
  BY JournalWritten, SMT DEF RouteInv, ActivateFails, ToHost
<1>4. spell' = IF socket = "cloud" /\ socket' = "host" THEN spell + 1 ELSE spell
  BY PlainTypes, SMT DEF RouteInv, Plain, ActivateFails, ToHost
<1>5. Goes(writer, "mark") /\ UNCHANGED transitioning
  BY ProceedDoes DEF RouteInv, ActivateFails, Places
<1>6. UNCHANGED <<saving, intent, restoredAt, local, epoch, paused, trial, failures, localFailures,
      asked, marking, poll, published, report, clock, ops, crashes>>
  BY DEF ActivateFails, KeepsRest, memory, timers, bounds
<1> HIDE DEF ActivateFails
<1>7. /\ Moved
      /\ disk' \in Disks
      /\ transitioning' \in BOOLEAN
      /\ socket' \in {"cloud", "host"}
      /\ spell' \in Nat
  BY <1>2, <1>3, <1>4, <1>5, PlainTypes DEF RouteInv, Plain, Goes
<1>8. Typed'
  BY <1>6, <1>7, TypesNamed DEF RouteInv, Typed, Moved
<1>9. ShapeInv'
  BY <1>1, <1>5, <1>6, Fields DEF RouteInv, Goes, Takes, ShapeInv
<1>10. SavingInv'
  BY <1>1, <1>6 DEF RouteInv, Asks, SavingInv
<1>11. MoveInv'
  BY <1>1, <1>5, <1>6 DEF RouteInv, Goes, Takes, Moves, MoveInv
<1>12. EpochInv'
  BY <1>5, <1>6 DEF RouteInv, EpochInv
<1>13. KindInv'
  BY <1>5, <1>6 DEF RouteInv, Goes, Running, KindInv
<1>14. JournalInv'
  BY <1>1, <1>3, <1>5, Fields DEF RouteInv, Goes, JournalInv, ShapeInv
<1>15. ChoiceInv'
  BY <1>1, <1>5, <1>6, Fields DEF RouteInv, Goes, ChoiceInv
<1>16. ClockInv'
  BY <1>2, <1>4, <1>6, PlainTypes DEF RouteInv, Plain, ClockInv
<1>17. ReachInv'
  BY <1>3, <1>5 DEF RouteInv, Goes, ReachInv, Covered
<1>18. BoundaryInv'
  BY <1>1, <1>2, <1>3, <1>4, <1>5, <1>6 DEF RouteInv, Goes, BoundaryInv, Fresh, Covered, JournalInv
<1>19. ReportInv'
  BY <1>1, <1>6 DEF RouteInv, Takes, ReportInv, MoveInv, EpochInv
<1>20. ShownInv'
  BY <1>1, <1>6, Fields DEF RouteInv, Takes, ShownInv, MoveInv
<1>21. PassedInv' /\ AnswerInv'
  BY <1>6 DEF RouteInv, PassedInv, AnswerInv
<1> QED BY TypesNamed, <1>8, <1>9, <1>10, <1>11, <1>12, <1>13, <1>14, <1>15, <1>16, <1>17, <1>18,
    <1>19, <1>20, <1>21 DEF RouteInv

LEMMA ConnectStep == ASSUME RouteInv, Connect PROVE RouteInv'
<1>1. writer.at = "connect" /\ socket = "host" /\ local' /\ local' \in BOOLEAN
  BY DEF Connect
<1>2. \/ /\ writer.who = "auto" /\ ~intent.manual /\ Goes(writer, "hint")
         /\ /\ saving' = Append(saving, Hint("writer", TRUE)) /\ ~transitioning'
            /\ transitioning' \in BOOLEAN
      \/ UNCHANGED saving /\ Done(writer) /\ ~transitioning' /\ transitioning' \in BOOLEAN
  <2>1. CASE writer.who = "auto" /\ Hints(TRUE)
    BY <2>1, WriterGoes DEF RouteInv, Connect, Hints, SaveHint, Hint, Places
  <2>2. CASE ~(writer.who = "auto" /\ Hints(TRUE))
    BY <2>2, FinishDoes DEF RouteInv, Connect
  <2> QED BY <2>1, <2>2
<1>3. writer.target /\ ~local
  BY <1>1 DEF RouteInv, ShapeInv, Takes
<1>4. UNCHANGED <<disk, intent, restoredAt, epoch, paused, trial, failures, localFailures, asked,
      marking, poll, published, socket, spell, report, clock, ops, crashes>>
  BY DEF Connect, KeepsRest, memory, timers, bounds, world
<1> HIDE DEF Connect
<1>5. saving' \in Seq(Entries) /\ SavingInv'
<2>1. CASE UNCHANGED saving
    BY <2>1, <1>1, <1>2, <1>3, <1>4, TypesNamed, SMT DEF RouteInv, Typed, SavingInv, Asks
  <2>2. CASE Goes(writer, "hint") /\ saving' = Append(saving, Hint("writer", TRUE))
    <3>1. Hint("writer", TRUE) \in Entries /\ Hint("writer", TRUE).who = "writer"
      BY HintSaved
    <3>2. writer.at \notin Asks /\ writer'.at \in Asks /\ UNCHANGED poll
      BY <2>2, <1>1, <1>2, <1>3, <1>4 DEF Goes, Asks
    <3> QED BY <2>2, <3>1, <3>2, AppendSaving DEF RouteInv
  <2> QED BY <1>1, <1>2, <1>3, <1>4, <2>1, <2>2
<1>6. /\ Moved
      /\ local' \in BOOLEAN
      /\ transitioning' \in BOOLEAN
  BY <1>1, <1>2, <1>3, <1>4, <1>5, TypesNamed, Zenon DEF RouteInv, Typed, Done, Failed, Goes
<1>7. Typed'
  BY <1>4, <1>5, <1>6, TypesNamed DEF RouteInv, Typed, Moved
<1>8. ShapeInv'
<2>1. CASE /\ writer.who = "auto" /\ ~intent.manual /\ Goes(writer, "hint")
           /\ saving' = Append(saving, Hint("writer", TRUE)) /\ ~transitioning'
           /\ transitioning' \in BOOLEAN
    BY <2>1, <1>1, <1>4, Fields DEF RouteInv, Goes, Takes, ShapeInv
<2>2. CASE UNCHANGED saving /\ Done(writer) /\ ~transitioning' /\ transitioning' \in BOOLEAN
    BY <2>2, <1>1, <1>4, Fields DEF RouteInv, Done, Takes, ShapeInv
  <2> QED BY <1>1, <1>2, <1>3, <1>4, <1>5, <2>1, <2>2
<1>9. SavingInv'
<2>1. CASE UNCHANGED saving
    BY <2>1, <1>1, <1>2, <1>3, <1>4, <1>5, TypesNamed, SMT DEF RouteInv, Typed, SavingInv, Asks
  <2>2. CASE Goes(writer, "hint") /\ saving' = Append(saving, Hint("writer", TRUE))
    <3>1. Hint("writer", TRUE) \in Entries /\ Hint("writer", TRUE).who = "writer"
      BY HintSaved
    <3>2. writer.at \notin Asks /\ writer'.at \in Asks /\ UNCHANGED poll
      BY <2>2, <1>1, <1>2, <1>3, <1>4, <1>5 DEF Goes, Asks
    <3> QED BY <2>2, <3>1, <3>2, AppendSaving DEF RouteInv
  <2> QED BY <1>1, <1>2, <1>3, <1>4, <1>5, <2>1, <2>2
<1>10. MoveInv'
<2>1. CASE /\ writer.who = "auto" /\ ~intent.manual /\ Goes(writer, "hint")
           /\ saving' = Append(saving, Hint("writer", TRUE)) /\ ~transitioning'
           /\ transitioning' \in BOOLEAN
    BY <2>1, Fields DEF RouteInv, Goes, Takes, Moves, MoveInv, ShapeInv
<2>2. CASE UNCHANGED saving /\ Done(writer) /\ ~transitioning' /\ transitioning' \in BOOLEAN
    BY <2>2, <1>4, Fields DEF RouteInv, Done, Takes, Moves, MoveInv
  <2> QED BY <1>1, <1>2, <1>3, <1>4, <1>5, <2>1, <2>2
<1>11. EpochInv'
  BY <1>1, <1>4 DEF RouteInv, Takes, EpochInv, MoveInv
<1>12. KindInv'
  BY <1>1, <1>4, Fields DEF RouteInv, Takes, KindInv, MoveInv
<1>13. JournalInv'
<2>1. CASE /\ writer.who = "auto" /\ ~intent.manual /\ Goes(writer, "hint")
           /\ saving' = Append(saving, Hint("writer", TRUE)) /\ ~transitioning'
           /\ transitioning' \in BOOLEAN
    BY <2>1, <1>4 DEF RouteInv, Goes, JournalInv
<2>2. CASE UNCHANGED saving /\ Done(writer) /\ ~transitioning' /\ transitioning' \in BOOLEAN
    BY <2>2, <1>3, <1>4, Fields DEF RouteInv, Done, JournalInv, ShapeInv
  <2> QED BY <1>1, <1>2, <1>3, <1>4, <1>5, <2>1, <2>2
<1>14. ChoiceInv'
<2>1. CASE /\ writer.who = "auto" /\ ~intent.manual /\ Goes(writer, "hint")
           /\ saving' = Append(saving, Hint("writer", TRUE)) /\ ~transitioning'
           /\ transitioning' \in BOOLEAN
    BY <2>1, <1>4, Fields DEF RouteInv, Goes, ChoiceInv
<2>2. CASE UNCHANGED saving /\ Done(writer) /\ ~transitioning' /\ transitioning' \in BOOLEAN
    BY <2>2, <1>1, <1>4, Fields DEF RouteInv, Done, Takes, ChoiceInv, ShapeInv
  <2> QED BY <1>1, <1>2, <1>3, <1>4, <1>5, <2>1, <2>2
<1>15. ReachInv'
<2>1. CASE /\ writer.who = "auto" /\ ~intent.manual /\ Goes(writer, "hint")
           /\ saving' = Append(saving, Hint("writer", TRUE)) /\ ~transitioning'
           /\ transitioning' \in BOOLEAN
    BY <2>1, <1>4 DEF RouteInv, Goes, ReachInv, Covered
<2>2. CASE UNCHANGED saving /\ Done(writer) /\ ~transitioning' /\ transitioning' \in BOOLEAN
    BY <2>2, <1>1, <1>4, Fields DEF RouteInv, Done, ReachInv, Covered, JournalInv
  <2> QED BY <1>1, <1>2, <1>3, <1>4, <1>5, <2>1, <2>2
<1>16. BoundaryInv'
<2>1. CASE /\ writer.who = "auto" /\ ~intent.manual /\ Goes(writer, "hint")
           /\ saving' = Append(saving, Hint("writer", TRUE)) /\ ~transitioning'
           /\ transitioning' \in BOOLEAN
    BY <2>1, <1>4 DEF RouteInv, Goes, BoundaryInv, Fresh, Covered
<2>2. CASE UNCHANGED saving /\ Done(writer) /\ ~transitioning' /\ transitioning' \in BOOLEAN
    BY <2>2, <1>1, <1>4, Fields DEF RouteInv, Done, BoundaryInv, Covered, JournalInv
  <2> QED BY <1>1, <1>2, <1>3, <1>4, <1>5, <2>1, <2>2
<1>17. ShownInv'
  BY <1>3, <1>4, PlainTypes, Fields DEF RouteInv, Plain, Running, ShownInv, ShapeInv, MoveInv
<1>18. ClockInv' /\ PassedInv' /\ AnswerInv' /\ ReportInv'
  BY <1>4 DEF RouteInv, ClockInv, PassedInv, AnswerInv, ReportInv
<1> QED BY TypesNamed, <1>7, <1>8, <1>9, <1>10, <1>11, <1>12, <1>13, <1>14, <1>15, <1>16, <1>17,
    <1>18 DEF RouteInv

LEMMA ConnectFailsStep == ASSUME RouteInv, ConnectFails PROVE RouteInv'
<1>1. writer.at = "connect"
  BY DEF ConnectFails
<1>2. Goes(writer, "mark") /\ UNCHANGED transitioning
  BY ProceedDoes DEF RouteInv, ConnectFails, Places
<1>3. UNCHANGED <<disk, saving, intent, restoredAt, local, epoch, paused, trial, failures,
      localFailures, asked, marking, poll, published, socket, spell, report, clock, ops, crashes>>
  BY DEF ConnectFails, KeepsRest, memory, timers, bounds, durable, world
<1> HIDE DEF ConnectFails
<1>4. /\ Moved
      /\ transitioning' \in BOOLEAN
  BY <1>2, PlainTypes DEF RouteInv, Plain, Goes
<1>5. Typed'
  BY <1>3, <1>4, TypesNamed DEF RouteInv, Typed, Moved
<1>6. ShapeInv'
  BY <1>1, <1>2, <1>3, Fields DEF RouteInv, Goes, Takes, ShapeInv
<1>7. SavingInv'
  BY <1>1, <1>3 DEF RouteInv, Asks, SavingInv
<1>8. MoveInv'
  BY <1>1, <1>2, <1>3 DEF RouteInv, Goes, Takes, Moves, MoveInv
<1>9. EpochInv'
  BY <1>2, <1>3 DEF RouteInv, EpochInv
<1>10. KindInv'
  BY <1>2, <1>3 DEF RouteInv, Goes, Running, KindInv
<1>11. JournalInv'
  BY <1>2, <1>3 DEF RouteInv, Goes, JournalInv
<1>12. ChoiceInv'
  BY <1>1, <1>2, <1>3, Fields DEF RouteInv, Goes, ChoiceInv
<1>13. ReachInv'
  BY <1>2, <1>3 DEF RouteInv, Goes, ReachInv, Covered
<1>14. BoundaryInv'
  BY <1>2, <1>3 DEF RouteInv, Goes, BoundaryInv, Fresh, Covered
<1>15. ShownInv'
  BY <1>2, <1>3 DEF RouteInv, Goes, Running, ShownInv
<1>16. ClockInv' /\ PassedInv' /\ AnswerInv' /\ ReportInv'
  BY <1>3 DEF RouteInv, ClockInv, PassedInv, AnswerInv, ReportInv
<1> QED BY TypesNamed, <1>5, <1>6, <1>7, <1>8, <1>9, <1>10, <1>11, <1>12, <1>13, <1>14, <1>15,
    <1>16 DEF RouteInv

-----------------------------------------------------------------------------
(* Hand-backs: the boundary is set and saved, then the wallbox goes to the cloud. *)

LEMMA MarkStep == ASSUME RouteInv, Mark PROVE RouteInv'
<1>1. writer.at = "mark" /\ marking = "nobody" /\ marking' = "writer"
  BY DEF Mark
<1>2. clock' = clock + 1 /\ restoredAt' = clock + 1
  BY DEF Mark
<1>3. Goes(writer, "marking") /\ UNCHANGED transitioning
  BY ProceedDoes DEF RouteInv, Mark, Places
<1>4. UNCHANGED <<disk, saving, intent, local, epoch, paused, trial, failures, localFailures, asked,
      poll, published, socket, spell, report, ops, crashes>>
  BY DEF Mark, durable, timers, world, bounds
<1> HIDE DEF Mark
<1>5. /\ Moved
      /\ restoredAt' \in Nat
      /\ transitioning' \in BOOLEAN
      /\ marking' \in Polls \cup {"nobody", "writer"}
      /\ clock' \in Nat
  BY <1>1, <1>2, <1>3, PlainTypes DEF RouteInv, Plain, Goes
<1>6. Typed'
  BY <1>4, <1>5, TypesNamed DEF RouteInv, Typed, Moved
<1>7. ShapeInv'
  BY <1>1, <1>3, <1>4, Fields DEF RouteInv, Goes, Takes, ShapeInv
<1>8. SavingInv'
  BY <1>1, <1>4 DEF RouteInv, Asks, SavingInv
<1>9. MoveInv'
  BY <1>1, <1>3, <1>4 DEF RouteInv, Goes, Takes, Moves, MoveInv
<1>10. EpochInv'
  BY <1>3, <1>4 DEF RouteInv, EpochInv
<1>11. KindInv'
  BY <1>3, <1>4 DEF RouteInv, Goes, Running, KindInv
<1>12. JournalInv'
  BY <1>3, <1>4 DEF RouteInv, Goes, JournalInv
<1>13. ChoiceInv'
  BY <1>1, <1>3, <1>4, Fields DEF RouteInv, Goes, ChoiceInv
<1>14. ClockInv'
  BY <1>2, <1>4, PlainTypes DEF RouteInv, Plain, ClockInv
<1>15. ReachInv'
  BY <1>2, <1>4, PlainTypes DEF RouteInv, Plain, ReachInv, ClockInv
<1>16. PassedInv'
  BY <1>1, <1>4, RoutingAssumption, Fields DEF RouteInv, Moves, PassedInv, MoveInv, EpochInv
<1>17. BoundaryInv'
  BY <1>2, <1>3, <1>4, PlainTypes DEF RouteInv, Plain, Goes, BoundaryInv, Fresh, ClockInv
<1>18. ReportInv'
  BY <1>2, <1>4, PlainTypes DEF RouteInv, Plain, ReportInv, ClockInv
<1>19. ShownInv'
  BY <1>3, <1>4 DEF RouteInv, Goes, Running, ShownInv
<1>20. AnswerInv'
  BY <1>4 DEF RouteInv, AnswerInv
<1> QED BY TypesNamed, <1>6, <1>7, <1>8, <1>9, <1>10, <1>11, <1>12, <1>13, <1>14, <1>15, <1>16,
    <1>17, <1>18, <1>19, <1>20 DEF RouteInv

LEMMA MarkedStep == ASSUME RouteInv, Marked PROVE RouteInv'
<1>1. writer.at = "marking" /\ marking' = "nobody"
  BY DEF Marked
<1>2. disk' \in Disks /\ disk'.marker = restoredAt /\ disk'.journal = disk.journal
  BY MarkerWritten, PlainTypes DEF RouteInv, Marked, Plain
<1>3. \/ /\ /\ writer.who = "boot" /\ writer.recovery /\ writer' = Idle /\ up' = "up"
            /\ trial' = "running"
         /\ UNCHANGED <<tick, choice, transitioning>>
      \/ UNCHANGED trial /\ Goes(writer, "restore") /\ UNCHANGED transitioning
  <2>1. CASE BeforeTrial
    BY <2>1 DEF Marked, BeforeTrial
  <2>2. CASE ~BeforeTrial
    BY <2>2, ProceedDoes DEF RouteInv, Marked, Places
  <2> QED BY <2>1, <2>2
<1>4. UNCHANGED <<saving, intent, restoredAt, local, epoch, paused, failures, localFailures, asked,
      poll, published, socket, spell, report, clock, ops, crashes>>
  BY DEF Marked, memory, world, bounds
<1> HIDE DEF Marked
<1>5. /\ Moved
      /\ disk' \in Disks
      /\ transitioning' \in BOOLEAN
      /\ trial' \in {"none", "running", "expired"}
      /\ marking' \in Polls \cup {"nobody", "writer"}
  BY <1>1, <1>2, <1>3, TypesNamed, Constants DEF RouteInv, Typed, Moved, Goes, Lives
<1>6. Typed'
  BY <1>4, <1>5, TypesNamed DEF RouteInv, Typed, Moved
<1>7. ShapeInv'
<2>1. CASE /\ writer.who = "boot" /\ writer.recovery /\ writer' = Idle /\ up' = "up"
           /\ trial' = "running" /\ UNCHANGED <<tick, choice, transitioning>>
    BY <2>1, <1>1, <1>4, Fields DEF RouteInv, Takes, ShapeInv
<2>2. CASE UNCHANGED trial /\ Goes(writer, "restore") /\ UNCHANGED transitioning
    BY <2>2, <1>1, <1>4, Fields DEF RouteInv, Goes, Takes, ShapeInv
  <2> QED BY <1>1, <1>2, <1>3, <1>4, <2>1, <2>2
<1>8. SavingInv'
  BY <1>1, <1>4 DEF RouteInv, Asks, SavingInv
<1>9. MoveInv'
<2>1. CASE /\ writer.who = "boot" /\ writer.recovery /\ writer' = Idle /\ up' = "up"
           /\ trial' = "running" /\ UNCHANGED <<tick, choice, transitioning>>
    BY <2>1, Fields DEF RouteInv, Takes, Moves, MoveInv
<2>2. CASE UNCHANGED trial /\ Goes(writer, "restore") /\ UNCHANGED transitioning
    BY <2>2, <1>1, <1>4 DEF RouteInv, Goes, Takes, Moves, MoveInv
  <2> QED BY <1>1, <1>2, <1>3, <1>4, <2>1, <2>2
<1>10. EpochInv'
  BY <1>3, <1>4 DEF RouteInv, EpochInv
<1>11. KindInv'
  BY <1>3, <1>4, Fields DEF RouteInv, Goes, Running, KindInv, ShapeInv, MoveInv
<1>12. JournalInv'
<2>1. CASE /\ writer.who = "boot" /\ writer.recovery /\ writer' = Idle /\ up' = "up"
           /\ trial' = "running" /\ UNCHANGED <<tick, choice, transitioning>>
    BY <2>1, <1>2, <1>4, Fields DEF RouteInv, JournalInv
<2>2. CASE UNCHANGED trial /\ Goes(writer, "restore") /\ UNCHANGED transitioning
    BY <2>2, <1>2, <1>4 DEF RouteInv, Goes, JournalInv
  <2> QED BY <1>1, <1>2, <1>3, <1>4, <2>1, <2>2
<1>13. ChoiceInv'
<2>1. CASE /\ writer.who = "boot" /\ writer.recovery /\ writer' = Idle /\ up' = "up"
           /\ trial' = "running" /\ UNCHANGED <<tick, choice, transitioning>>
    BY <2>1, <1>4, Fields DEF RouteInv, ChoiceInv, ShapeInv
<2>2. CASE UNCHANGED trial /\ Goes(writer, "restore") /\ UNCHANGED transitioning
    BY <2>2, <1>1, <1>4, Fields DEF RouteInv, Goes, ChoiceInv
  <2> QED BY <1>1, <1>2, <1>3, <1>4, <2>1, <2>2
<1>14. ClockInv'
<2>1. CASE /\ writer.who = "boot" /\ writer.recovery /\ writer' = Idle /\ up' = "up"
           /\ trial' = "running" /\ UNCHANGED <<tick, choice, transitioning>>
    BY <1>2, <1>4 DEF RouteInv, ClockInv
<2>2. CASE UNCHANGED trial /\ Goes(writer, "restore") /\ UNCHANGED transitioning
    BY <1>2, <1>4 DEF RouteInv, ClockInv
  <2> QED BY <1>1, <1>2, <1>3, <1>4, <2>1, <2>2
<1>15. ReachInv'
<2>1. CASE /\ writer.who = "boot" /\ writer.recovery /\ writer' = Idle /\ up' = "up"
           /\ trial' = "running" /\ UNCHANGED <<tick, choice, transitioning>>
    BY <1>1, <1>4, Fields DEF RouteInv, ReachInv, Covered, ShapeInv
<2>2. CASE UNCHANGED trial /\ Goes(writer, "restore") /\ UNCHANGED transitioning
    BY <1>1, <1>4, Fields DEF RouteInv, ReachInv, Covered, ShapeInv
  <2> QED BY <1>1, <1>2, <1>3, <1>4, <2>1, <2>2
<1>16. PassedInv'
  BY <1>1, <1>4, RoutingAssumption DEF RouteInv, PassedInv, ShapeInv
<1>17. BoundaryInv'
<2>1. CASE /\ writer.who = "boot" /\ writer.recovery /\ writer' = Idle /\ up' = "up"
           /\ trial' = "running" /\ UNCHANGED <<tick, choice, transitioning>>
    BY <1>1, <1>2, <1>4, Fields DEF RouteInv, BoundaryInv, Fresh, Covered, ShapeInv
<2>2. CASE UNCHANGED trial /\ Goes(writer, "restore") /\ UNCHANGED transitioning
    BY <1>1, <1>2, <1>4, Fields DEF RouteInv, BoundaryInv, Fresh, Covered, ShapeInv
  <2> QED BY <1>1, <1>2, <1>3, <1>4, <2>1, <2>2
<1>18. ShownInv'
  BY <1>3, <1>4, Fields DEF RouteInv, Goes, Running, ShownInv, ShapeInv, MoveInv
<1>19. AnswerInv' /\ ReportInv'
  BY <1>4 DEF RouteInv, AnswerInv, ReportInv
<1> QED BY TypesNamed, <1>6, <1>7, <1>8, <1>9, <1>10, <1>11, <1>12, <1>13, <1>14, <1>15, <1>16,
    <1>17, <1>18, <1>19 DEF RouteInv

LEMMA MarkFailsStep == ASSUME RouteInv, MarkFails PROVE RouteInv'
<1>1. SavesFail /\ writer.at = "marking" /\ marking' = "nobody"
  BY DEF MarkFails
<1>2. disk' \in Disks /\ disk'.marker \in {disk.marker, restoredAt} /\ disk'.journal = disk.journal
  BY MarkerWritten, DiskSame, PlainTypes, SMT DEF RouteInv, MarkFails, Plain, Kept
<1>3. Failed(writer) /\ ~transitioning' /\ transitioning' \in BOOLEAN
  BY FinishDoes DEF RouteInv, MarkFails
<1>4. UNCHANGED <<saving, intent, restoredAt, local, epoch, paused, trial, failures, localFailures,
      asked, poll, published, socket, spell, report, clock, ops, crashes>>
  BY DEF MarkFails, KeepsRest, memory, timers, bounds, world
<1> HIDE DEF MarkFails
<1>5. /\ Moved
      /\ disk' \in Disks
      /\ transitioning' \in BOOLEAN
      /\ marking' \in Polls \cup {"nobody", "writer"}
  BY <1>1, <1>2, <1>3 DEF RouteInv, Failed
<1>6. Typed'
  BY <1>4, <1>5, TypesNamed DEF RouteInv, Typed, Moved
<1>7. ShapeInv'
  BY <1>1, <1>3, <1>4, Fields DEF RouteInv, Failed, Takes, ShapeInv
<1>8. SavingInv'
  BY <1>1, <1>4 DEF RouteInv, Asks, SavingInv
<1>9. MoveInv'
  BY <1>3, <1>4, Fields DEF RouteInv, Failed, Takes, Moves, MoveInv
<1>10. EpochInv'
  BY <1>3, <1>4 DEF RouteInv, EpochInv
<1>11. KindInv'
  BY <1>3, <1>4, Fields DEF RouteInv, Failed, Running, KindInv, ShapeInv, MoveInv
<1>12. JournalInv'
  BY <1>2, <1>3, <1>4, Fields DEF RouteInv, Failed, JournalInv
<1>13. ChoiceInv'
  BY <1>3, <1>4 DEF RouteInv, Failed, ChoiceInv, ShapeInv
<1>14. ClockInv'
  BY <1>2, <1>4 DEF RouteInv, ClockInv
<1>15. ReachInv'
  BY <1>1, <1>4, Fields DEF RouteInv, ReachInv, Covered, ShapeInv
<1>16. PassedInv'
  BY <1>1, <1>4, RoutingAssumption DEF RouteInv, PassedInv, ShapeInv
<1>17. BoundaryInv'
  BY <1>1 DEF RouteInv, BoundaryInv
<1>18. ShownInv'
  BY <1>3, <1>4, Fields DEF RouteInv, Failed, Running, ShownInv, ShapeInv, MoveInv
<1>19. AnswerInv' /\ ReportInv'
  BY <1>4 DEF RouteInv, AnswerInv, ReportInv
<1> QED BY TypesNamed, <1>6, <1>7, <1>8, <1>9, <1>10, <1>11, <1>12, <1>13, <1>14, <1>15, <1>16,
    <1>17, <1>18, <1>19 DEF RouteInv

LEMMA RestoreStep == ASSUME RouteInv, Restore PROVE RouteInv'
<1>1. writer.at = "restore" /\ ~local' /\ local' \in BOOLEAN /\ socket' = "cloud"
  BY DEF Restore
<1>2. disk' \in Disks /\ disk'.marker = disk.marker /\ ~disk'.journal
  BY JournalWritten DEF RouteInv, Restore
<1>3. \/ writer.target /\ Failed(writer) /\ ~transitioning' /\ transitioning' \in BOOLEAN
      \/ ~writer.target /\ Done(writer) /\ ~transitioning' /\ transitioning' \in BOOLEAN
  <2>1. CASE writer.target
    BY <2>1, FinishDoes DEF RouteInv, Restore
  <2>2. CASE ~writer.target
    BY <2>2, FinishDoes DEF RouteInv, Restore
  <2> QED BY <2>1, <2>2
<1>4. UNCHANGED <<saving, intent, restoredAt, epoch, paused, trial, failures, localFailures, asked,
      marking, poll, published, spell, report, clock, ops, crashes>>
  BY DEF Restore, KeepsRest, memory, timers, bounds
<1> HIDE DEF Restore
<1>5. /\ Moved
      /\ disk' \in Disks
      /\ local' \in BOOLEAN
      /\ transitioning' \in BOOLEAN
      /\ socket' \in {"cloud", "host"}
  BY <1>1, <1>2, <1>3 DEF RouteInv, Done, Failed
<1>6. Typed'
  BY <1>4, <1>5, TypesNamed DEF RouteInv, Typed, Moved
<1>7. ShapeInv'
<2>1. CASE writer.target /\ Failed(writer) /\ ~transitioning' /\ transitioning' \in BOOLEAN
    BY <2>1, <1>1, <1>4, Fields DEF RouteInv, Failed, Takes, ShapeInv
<2>2. CASE ~writer.target /\ Done(writer) /\ ~transitioning' /\ transitioning' \in BOOLEAN
    BY <2>2, <1>1, <1>4, Fields DEF RouteInv, Done, Takes, ShapeInv
  <2> QED BY <1>1, <1>2, <1>3, <1>4, <2>1, <2>2
<1>8. SavingInv'
  BY <1>1, <1>4 DEF RouteInv, Asks, SavingInv
<1>9. MoveInv'
<2>1. CASE writer.target /\ Failed(writer) /\ ~transitioning' /\ transitioning' \in BOOLEAN
    BY <2>1, <1>4, Fields DEF RouteInv, Failed, Takes, Moves, MoveInv
<2>2. CASE ~writer.target /\ Done(writer) /\ ~transitioning' /\ transitioning' \in BOOLEAN
    BY <2>2, <1>4, Fields DEF RouteInv, Done, Takes, Moves, MoveInv
  <2> QED BY <1>1, <1>2, <1>3, <1>4, <2>1, <2>2
<1>10. EpochInv'
  BY <1>1, <1>4, Fields DEF RouteInv, Moves, EpochInv, MoveInv
<1>11. KindInv'
  BY <1>1, <1>4, Fields DEF RouteInv, Moves, KindInv, MoveInv
<1>12. JournalInv'
<2>1. CASE writer.target /\ Failed(writer) /\ ~transitioning' /\ transitioning' \in BOOLEAN
    BY <1>1, <1>2 DEF RouteInv, JournalInv
<2>2. CASE ~writer.target /\ Done(writer) /\ ~transitioning' /\ transitioning' \in BOOLEAN
    BY <1>1, <1>2 DEF RouteInv, JournalInv
  <2> QED BY <1>1, <1>2, <1>3, <1>4, <2>1, <2>2
<1>13. ChoiceInv'
<2>1. CASE writer.target /\ Failed(writer) /\ ~transitioning' /\ transitioning' \in BOOLEAN
    BY <2>1, <1>4, Fields DEF RouteInv, Failed, ChoiceInv
<2>2. CASE ~writer.target /\ Done(writer) /\ ~transitioning' /\ transitioning' \in BOOLEAN
    BY <2>2, <1>1, <1>4, Fields DEF RouteInv, Done, ChoiceInv
  <2> QED BY <1>1, <1>2, <1>3, <1>4, <2>1, <2>2
<1>14. ClockInv'
<2>1. CASE writer.target /\ Failed(writer) /\ ~transitioning' /\ transitioning' \in BOOLEAN
    BY <1>2, <1>4 DEF RouteInv, ClockInv
<2>2. CASE ~writer.target /\ Done(writer) /\ ~transitioning' /\ transitioning' \in BOOLEAN
    BY <1>2, <1>4 DEF RouteInv, ClockInv
  <2> QED BY <1>1, <1>2, <1>3, <1>4, <2>1, <2>2
<1>15. ReachInv'
<2>1. CASE writer.target /\ Failed(writer) /\ ~transitioning' /\ transitioning' \in BOOLEAN
    BY <1>1 DEF RouteInv, ReachInv
<2>2. CASE ~writer.target /\ Done(writer) /\ ~transitioning' /\ transitioning' \in BOOLEAN
    BY <1>1 DEF RouteInv, ReachInv
  <2> QED BY <1>1, <1>2, <1>3, <1>4, <2>1, <2>2
<1>16. BoundaryInv'
<2>1. CASE writer.target /\ Failed(writer) /\ ~transitioning' /\ transitioning' \in BOOLEAN
    BY <1>1, <1>2, <1>4, Fields DEF RouteInv, BoundaryInv, Fresh, Covered, ShapeInv
<2>2. CASE ~writer.target /\ Done(writer) /\ ~transitioning' /\ transitioning' \in BOOLEAN
    BY <1>1, <1>2, <1>4, Fields DEF RouteInv, BoundaryInv, Fresh, Covered, ShapeInv
  <2> QED BY <1>1, <1>2, <1>3, <1>4, <2>1, <2>2
<1>17. ShownInv'
  BY <1>3, <1>4, Fields DEF RouteInv, Done, Failed, Running, ShownInv, ShapeInv, MoveInv
<1>18. PassedInv' /\ AnswerInv' /\ ReportInv'
  BY <1>4 DEF RouteInv, PassedInv, AnswerInv, ReportInv
<1> QED BY TypesNamed, <1>6, <1>7, <1>8, <1>9, <1>10, <1>11, <1>12, <1>13, <1>14, <1>15, <1>16,
    <1>17, <1>18 DEF RouteInv

LEMMA RestoreFailsStep == ASSUME RouteInv, RestoreFails PROVE RouteInv'
<1>1. writer.at = "restore"
  BY DEF RestoreFails
<1>2. disk' \in Disks /\ disk'.marker = disk.marker
  BY JournalWritten, SMT DEF RouteInv, RestoreFails
<1>3. socket' \in {socket, "cloud"} /\ (disk'.journal \/ socket' = "cloud")
  BY JournalWritten, SMT DEF RouteInv, RestoreFails
<1>4. Failed(writer) /\ ~transitioning' /\ transitioning' \in BOOLEAN
  BY FinishDoes DEF RouteInv, RestoreFails
<1>5. UNCHANGED <<saving, intent, restoredAt, local, epoch, paused, trial, failures, localFailures,
      asked, marking, poll, published, spell, report, clock, ops, crashes>>
  BY DEF RestoreFails, KeepsRest, memory, timers, bounds
<1> HIDE DEF RestoreFails
<1>6. /\ Moved
      /\ disk' \in Disks
      /\ transitioning' \in BOOLEAN
      /\ socket' \in {"cloud", "host"}
  BY <1>2, <1>3, <1>4, PlainTypes DEF RouteInv, Plain, Failed
<1>7. Typed'
  BY <1>5, <1>6, TypesNamed DEF RouteInv, Typed, Moved
<1>8. ShapeInv'
  BY <1>1, <1>4, <1>5, Fields DEF RouteInv, Failed, Takes, ShapeInv
<1>9. SavingInv'
  BY <1>1, <1>5 DEF RouteInv, Asks, SavingInv
<1>10. MoveInv'
  BY <1>4, <1>5, Fields DEF RouteInv, Failed, Takes, Moves, MoveInv
<1>11. EpochInv'
  BY <1>4, <1>5 DEF RouteInv, EpochInv
<1>12. KindInv'
  BY <1>4, <1>5, Fields DEF RouteInv, Failed, Running, KindInv, ShapeInv, MoveInv
<1>13. JournalInv'
  BY <1>1, <1>3, <1>4, Fields DEF RouteInv, Failed, JournalInv, ShapeInv
<1>14. ChoiceInv'
  BY <1>4, <1>5 DEF RouteInv, Failed, ChoiceInv, ShapeInv
<1>15. ClockInv'
  BY <1>2, <1>5 DEF RouteInv, ClockInv
<1>16. ReachInv'
  BY <1>1, <1>3, <1>5, Fields DEF RouteInv, ReachInv, Covered, ShapeInv
<1>17. BoundaryInv'
  BY <1>1, <1>2, <1>5, Fields DEF RouteInv, BoundaryInv, Fresh, Covered, ShapeInv
<1>18. ShownInv'
  BY <1>4, <1>5, Fields DEF RouteInv, Failed, Running, ShownInv, ShapeInv, MoveInv
<1>19. PassedInv' /\ AnswerInv' /\ ReportInv'
  BY <1>5 DEF RouteInv, PassedInv, AnswerInv, ReportInv
<1> QED BY TypesNamed, <1>7, <1>8, <1>9, <1>10, <1>11, <1>12, <1>13, <1>14, <1>15, <1>16, <1>17,
    <1>18, <1>19 DEF RouteInv

-----------------------------------------------------------------------------
(* The life of an entry: it starts, makes its first choice, is torn down, crashes. *)

LEMMA StartStep ==
  ASSUME RouteInv, Start
  PROVE  RouteInv'
<1>1. ops' = ops + 1 /\ ops < MaxOps /\ up' = "booting"
  BY DEF Start
<1>2. /\ /\ ~local' /\ local' \in BOOLEAN /\ ~transitioning' /\ transitioning' \in BOOLEAN
         /\ epoch' = 0
      /\ ~paused' /\ paused' \in BOOLEAN /\ trial' = "none" /\ failures' = 0 /\ localFailures' = 0
      /\ tick' = TickIdle /\ asked' = NoAsk /\ marking' = "nobody" /\ published' = Nothing
      /\ choice' = NoChoice
  BY Zenon DEF Start, Forget
<1>3. /\ poll' \in [Polls -> Refreshes] /\ \A p \in Polls : poll'[p] = NoPoll
      /\ restoredAt' = disk.marker /\ intent' \in Preferences
  <2>1. disk.intent \in Preferences
    BY TypesNamed, SMT DEF RouteInv, Typed, Disks
  <2> QED BY <2>1, Constants DEF Start, Forget
<1>4. /\ writer' \in Writers /\ writer'.who = "boot" /\ ~writer'.target /\ ~writer'.recovery
      /\ writer'.at \in {"choose", "hint", "mark"}
      /\ writer'.at = "choose" <=> ~disk.journal
  BY SMT DEF Start, At, Ask, Writers, Callers, Places
<1>5. \/ saving' = <<>> /\ writer'.at # "hint"
      \/ saving' = <<Hint("writer", TRUE)>> /\ writer'.at = "hint" /\ intent' = NoPreference
  <2> DEFINE R == disk.journal /\ Enabled /\ disk.intent = NoPreference
  <2>1. CASE R
    <3>1. saving' = <<Hint("writer", TRUE)>> /\ intent' = NoPreference
      BY <2>1, Zenon DEF Start, Forget, Hint
    <3>2. writer' = At(Ask("boot", FALSE, FALSE), "hint")
      BY <2>1, Zenon DEF Start
    <3> QED BY <3>1, <3>2, SMT DEF At
  <2>2. CASE ~R
    <3>1. saving' = <<>>
      BY <2>2, Zenon DEF Start
    <3>2. writer' = At(Ask("boot", FALSE, FALSE), IF ~disk.journal THEN "choose" ELSE "mark")
      BY <2>2, Zenon DEF Start
    <3> QED BY <3>1, <3>2, SMT DEF At
  <2> QED BY <2>1, <2>2
<1>6. writer'.at = "hint" => ~intent'.manual
  BY <1>5, SMT DEF NoPreference
<1>7. UNCHANGED <<disk, socket, spell, report, clock, crashes>>
  BY DEF Start, world
<1> HIDE DEF Start
<1>8. saving' \in Seq(Entries) /\ SavingInv'
<2>1. CASE saving' = <<>>
    BY <2>1, SMT DEF SavingInv
  <2>2. CASE saving' = <<Hint("writer", TRUE)>> /\ writer'.at = "hint"
    <3>1. Hint("writer", TRUE) \in Entries /\ Hint("writer", TRUE).who = "writer"
      BY HintSaved
    <3> DEFINE h == Hint("writer", TRUE)
    <3>2. saving' = <<h>> /\ h \in Entries /\ h.who = "writer" /\ writer'.at = "hint"
      BY <2>2, <3>1
    <3> HIDE DEF h
    <3>3. saving' \in Seq(Entries) /\ DOMAIN saving' = {1} /\ saving'[1] = h
      BY <3>2, SMT
    <3> QED BY <3>2, <3>3, Zenon DEF SavingInv, Asks
  <2> QED BY <1>1, <1>2, <1>3, <1>4, <1>5, <1>6, <1>7, <2>1, <2>2
<1>9. /\ intent' \in Preferences
      /\ restoredAt' \in Nat
      /\ local' \in BOOLEAN
      /\ transitioning' \in BOOLEAN
      /\ epoch' \in Nat
      /\ paused' \in BOOLEAN
      /\ trial' \in {"none", "running", "expired"}
      /\ asked' \in Askers
      /\ marking' \in Polls \cup {"nobody", "writer"}
      /\ published' \in Shows
      /\ failures' \in 0..Limit
      /\ localFailures' \in 0..Limit
      /\ poll' \in [Polls -> Refreshes]
      /\ ops' \in 0..MaxOps
      /\ up' \in Lives
      /\ tick' \in Ticks
      /\ choice' \in Choices
      /\ writer' \in Writers
  BY <1>1, <1>2, <1>3, <1>4, RoutingAssumption, PlainTypes, TypesNamed, Constants, SMTT(20)
    DEF RouteInv, Typed, Plain, Lives
<1>10. Typed'
  BY <1>7, <1>8, <1>9, TypesNamed DEF RouteInv, Typed
<1>11. ShapeInv'
  BY <1>1, <1>2, <1>4, <1>6, <1>7, Fields DEF RouteInv, Takes, ShapeInv
<1>12. SavingInv'
<2>1. CASE saving' = <<>>
    BY <2>1, SMT DEF SavingInv
  <2>2. CASE saving' = <<Hint("writer", TRUE)>> /\ writer'.at = "hint"
    <3>1. Hint("writer", TRUE) \in Entries /\ Hint("writer", TRUE).who = "writer"
      BY HintSaved
    <3> DEFINE h == Hint("writer", TRUE)
    <3>2. saving' = <<h>> /\ h \in Entries /\ h.who = "writer" /\ writer'.at = "hint"
      BY <2>2, <3>1
    <3> HIDE DEF h
    <3>3. saving' \in Seq(Entries) /\ DOMAIN saving' = {1} /\ saving'[1] = h
      BY <3>2, SMT
    <3> QED BY <3>2, <3>3, Zenon DEF SavingInv, Asks
  <2> QED BY <1>1, <1>2, <1>3, <1>4, <1>5, <1>6, <1>7, <1>8, <2>1, <2>2
<1>13. MoveInv'
  BY <1>1, <1>2, <1>3, <1>4 DEF RouteInv, Takes, MoveInv
<1>14. EpochInv'
  BY <1>3, Fields DEF RouteInv, EpochInv
<1>15. KindInv'
  BY <1>2, Fields DEF RouteInv, KindInv
<1>16. JournalInv'
  BY <1>1, <1>4, <1>7 DEF RouteInv, JournalInv
<1>17. ChoiceInv'
  BY <1>2, Fields DEF RouteInv, ChoiceInv
<1>18. ClockInv'
  BY <1>3, <1>7, PlainTypes, Fields DEF RouteInv, Plain, ClockInv
<1>19. ReachInv'
  BY <1>4, <1>7 DEF RouteInv, ReachInv, Covered, JournalInv
<1>20. PassedInv'
  BY <1>3, Fields DEF RouteInv, PassedInv
<1>21. BoundaryInv'
  BY <1>3, <1>4, <1>7 DEF RouteInv, BoundaryInv, Fresh, Covered
<1>22. AnswerInv'
  BY <1>3, Fields DEF RouteInv, AnswerInv
<1>23. ReportInv'
  BY <1>3, Fields DEF RouteInv, ReportInv
<1>24. ShownInv'
  BY <1>2, Fields DEF RouteInv, ShownInv
<1> QED BY TypesNamed, <1>10, <1>11, <1>12, <1>13, <1>14, <1>15, <1>16, <1>17, <1>18, <1>19, <1>20,
    <1>21, <1>22, <1>23, <1>24 DEF RouteInv

LEMMA ChooseTcpStep == ASSUME RouteInv, ChooseTcp PROVE RouteInv'
<1>1. writer.at = "choose" /\ paused' /\ paused' \in BOOLEAN
  BY DEF ChooseTcp
<1>2. ~disk.journal /\ ~local
  <2>1. writer.who = "boot"
    BY <1>1, SMT DEF RouteInv, ShapeInv
  <2>2. up = "booting" /\ ~local
    BY <2>1 DEF RouteInv, ShapeInv
  <2> QED BY <1>1, <2>2 DEF RouteInv, JournalInv
<1>3. Leaves(Ask("boot", TRUE, FALSE))
  BY RouteDoes, Asked DEF RouteInv, ChooseTcp, Callers
<1>4. /\ epoch' = epoch + 1 /\ published' = Nothing /\ transitioning' /\ transitioning' \in BOOLEAN
      /\ Moved /\ writer'.at = "activate" /\ writer'.who = "boot" /\ writer'.target
      /\ ~writer'.recovery
      /\ UNCHANGED <<up, tick, choice>>
  <2>1. LET a == Ask("boot", TRUE, FALSE) IN a.who = "boot" /\ a.target /\ ~a.recovery
    BY SMT DEF Ask
  <2>2. PICK a : a.who = "boot" /\ a.target /\ ~a.recovery /\ Leaves(a)
    BY <1>3, <2>1
  <2>3. /\ /\ epoch' = epoch + 1 /\ published' = Nothing /\ transitioning'
           /\ transitioning' \in BOOLEAN
        /\ Goes(a, "activate")
    BY <1>2, <2>2, Zenon DEF Leaves
  <2> QED BY <2>2, <2>3 DEF Goes
<1>5. UNCHANGED <<disk, saving, intent, restoredAt, local, trial, failures, localFailures, asked,
      marking, poll, socket, spell, report, clock, ops, crashes>>
  BY DEF ChooseTcp, durable, memory, world, bounds
<1> HIDE DEF ChooseTcp
<1>6. /\ Moved
      /\ transitioning' \in BOOLEAN
      /\ epoch' \in Nat
      /\ paused' \in BOOLEAN
      /\ published' \in Shows
  BY <1>1, <1>4, PlainTypes, Constants DEF RouteInv, Plain
<1>7. Typed'
  BY <1>5, <1>6, TypesNamed DEF RouteInv, Typed, Moved
<1>8. ShapeInv'
  BY <1>1, <1>4, <1>5 DEF RouteInv, ShapeInv
<1>9. SavingInv'
  BY <1>1, <1>5 DEF RouteInv, Asks, SavingInv
<1>10. MoveInv'
  BY <1>4, <1>5 DEF RouteInv, Takes, Moves, MoveInv
<1>11. EpochInv'
  BY <1>4, <1>5, PlainTypes DEF RouteInv, Plain, EpochInv
<1>12. KindInv'
  BY <1>4 DEF RouteInv, KindInv
<1>13. JournalInv'
  BY <1>2, <1>5 DEF RouteInv, JournalInv
<1>14. ChoiceInv'
  BY <1>1, <1>4, <1>5 DEF RouteInv, ChoiceInv, ShapeInv
<1>15. ReachInv'
  BY <1>2, <1>5 DEF RouteInv, ReachInv, JournalInv
<1>16. PassedInv'
  BY <1>4, <1>5, PlainTypes DEF RouteInv, Plain, PassedInv, EpochInv
<1>17. BoundaryInv'
  BY <1>2, <1>4, <1>5 DEF RouteInv, BoundaryInv, Fresh, Covered
<1>18. ReportInv'
  BY <1>4, <1>5, PlainTypes DEF RouteInv, Plain, ReportInv, EpochInv
<1>19. ShownInv'
  BY <1>4 DEF RouteInv, ShownInv
<1>20. ClockInv' /\ AnswerInv'
  BY <1>5 DEF RouteInv, ClockInv, AnswerInv
<1> QED BY TypesNamed, <1>7, <1>8, <1>9, <1>10, <1>11, <1>12, <1>13, <1>14, <1>15, <1>16, <1>17,
    <1>18, <1>19, <1>20 DEF RouteInv

LEMMA ChooseTrialStep == ASSUME RouteInv, ChooseTrial PROVE RouteInv'
<1>1. writer.at = "choose" /\ ~intent.manual
  BY DEF ChooseTrial
<1>2. \/ /\ /\ UNCHANGED <<trial, up>> /\ writer'.at = "mark" /\ writer'.who = "boot"
            /\ ~writer'.target
      \/ writer' = Idle /\ trial' = "running" /\ up' = "up"
  BY SMT DEF ChooseTrial, Ask, At
<1>3. writer' \in Writers
  <2>1. At(Ask("boot", FALSE, TRUE), "mark") \in Writers
    BY SMT DEF Ask, At, Writers, Callers, Places
  <2> QED BY <2>1, Constants DEF ChooseTrial
<1>4. UNCHANGED <<disk, saving, intent, restoredAt, local, transitioning, epoch, paused, failures,
      localFailures, tick, asked, marking, poll, published, socket, spell, report, clock, ops,
      crashes, choice>>
  BY DEF ChooseTrial, durable, memory, route, world, bounds
<1> HIDE DEF ChooseTrial
<1>5. /\ Moved
      /\ trial' \in {"none", "running", "expired"}
  BY <1>2, <1>3, <1>4, TypesNamed DEF RouteInv, Typed, Moved, Lives
<1>6. Typed'
  BY <1>4, <1>5, TypesNamed DEF RouteInv, Typed, Moved
<1>7. ShapeInv'
  BY <1>1, <1>2, <1>4, Fields DEF RouteInv, Takes, ShapeInv
<1>8. SavingInv'
  BY <1>1, <1>4 DEF RouteInv, Asks, SavingInv
<1>9. MoveInv'
  BY <1>1, <1>2, <1>4, Fields DEF RouteInv, Takes, Moves, MoveInv, ShapeInv
<1>10. KindInv'
  BY <1>1, <1>4, Fields DEF RouteInv, KindInv, ShapeInv, MoveInv
<1>11. JournalInv'
  BY <1>2, <1>4, Fields DEF RouteInv, JournalInv
<1>12. ChoiceInv'
  BY <1>1, <1>4, Fields DEF RouteInv, ChoiceInv, ShapeInv
<1>13. ReachInv'
  BY <1>1, <1>4 DEF RouteInv, ReachInv, ShapeInv, JournalInv
<1>14. BoundaryInv'
  BY <1>1, <1>4 DEF RouteInv, BoundaryInv, Fresh, Covered, ShapeInv
<1>15. ShownInv'
  BY <1>1, <1>4, Fields DEF RouteInv, ShownInv, ShapeInv, MoveInv
<1>16. EpochInv' /\ ClockInv' /\ PassedInv' /\ AnswerInv' /\ ReportInv'
  BY <1>4 DEF RouteInv, EpochInv, ClockInv, PassedInv, AnswerInv, ReportInv
<1> QED BY TypesNamed, <1>6, <1>7, <1>8, <1>9, <1>10, <1>11, <1>12, <1>13, <1>14, <1>15, <1>16
        DEF RouteInv

LEMMA ChooseCloudStep ==
  ASSUME RouteInv, ChooseCloud
  PROVE  RouteInv'
<1>1. writer.at = "choose" /\ writer' = Idle /\ up' = "up"
  BY DEF ChooseCloud
<1>2. UNCHANGED <<disk, saving, intent, restoredAt, local, transitioning, epoch, paused, trial,
      failures, localFailures, tick, asked, marking, poll, published, socket, spell, report, clock,
      ops, crashes, choice>>
  BY DEF ChooseCloud, durable, memory, route, timers, world, bounds
<1> HIDE DEF ChooseCloud
<1>3. /\ up' \in Lives
      /\ writer' \in Writers
  BY <1>1, Constants DEF RouteInv, Lives
<1>4. Typed'
  BY <1>2, <1>3, TypesNamed DEF RouteInv, Typed
<1>5. ShapeInv'
  BY <1>1, <1>2, Fields DEF RouteInv, Takes, ShapeInv
<1>6. SavingInv'
  BY <1>1, <1>2 DEF RouteInv, Asks, SavingInv
<1>7. MoveInv'
  BY <1>1, <1>2, Fields DEF RouteInv, Takes, Moves, MoveInv
<1>8. KindInv'
  BY <1>1, <1>2, Fields DEF RouteInv, KindInv, ShapeInv, MoveInv
<1>9. JournalInv'
  BY <1>1, <1>2 DEF RouteInv, JournalInv, ShapeInv
<1>10. ChoiceInv'
  BY <1>1, <1>2, Fields DEF RouteInv, ChoiceInv, ShapeInv
<1>11. ReachInv'
  BY <1>1, <1>2 DEF RouteInv, ReachInv, ShapeInv, JournalInv
<1>12. BoundaryInv'
  BY <1>1, <1>2 DEF RouteInv, BoundaryInv, Fresh, Covered, ShapeInv
<1>13. ShownInv'
  BY <1>1, <1>2, Fields DEF RouteInv, ShownInv, ShapeInv, MoveInv
<1>14. EpochInv' /\ ClockInv' /\ PassedInv' /\ AnswerInv' /\ ReportInv'
  BY <1>2 DEF RouteInv, EpochInv, ClockInv, PassedInv, AnswerInv, ReportInv
<1> QED BY TypesNamed, <1>4, <1>5, <1>6, <1>7, <1>8, <1>9, <1>10, <1>11, <1>12, <1>13, <1>14
        DEF RouteInv

LEMMA StartFailsStep == ASSUME RouteInv, StartFails PROVE RouteInv'
<1>1. writer.at = "choose"
  BY DEF StartFails
<1>2. Goes(writer, "failed") /\ UNCHANGED transitioning
  BY ProceedDoes DEF RouteInv, StartFails, Places
<1>3. UNCHANGED <<disk, saving, intent, restoredAt, local, epoch, paused, trial, failures,
      localFailures, asked, marking, poll, published, socket, spell, report, clock, ops, crashes>>
  BY DEF StartFails, durable, memory, timers, world, bounds
<1> HIDE DEF StartFails
<1>4. /\ Moved
      /\ transitioning' \in BOOLEAN
  BY <1>2, PlainTypes DEF RouteInv, Plain, Goes
<1>5. Typed'
  BY <1>3, <1>4, TypesNamed DEF RouteInv, Typed, Moved
<1>6. ShapeInv'
  BY <1>1, <1>2, <1>3 DEF RouteInv, Goes, Takes, ShapeInv
<1>7. SavingInv'
  BY <1>1, <1>3 DEF RouteInv, Asks, SavingInv
<1>8. MoveInv'
  BY <1>1, <1>2, <1>3 DEF RouteInv, Goes, Takes, Moves, MoveInv
<1>9. EpochInv'
  BY <1>2, <1>3 DEF RouteInv, EpochInv
<1>10. KindInv'
  BY <1>2, <1>3 DEF RouteInv, Goes, Running, KindInv
<1>11. JournalInv'
  BY <1>2, <1>3 DEF RouteInv, Goes, JournalInv
<1>12. ChoiceInv'
  BY <1>1, <1>2, <1>3 DEF RouteInv, Goes, ChoiceInv, ShapeInv
<1>13. ReachInv'
  BY <1>2, <1>3 DEF RouteInv, Goes, ReachInv, Covered
<1>14. BoundaryInv'
  BY <1>2, <1>3 DEF RouteInv, Goes, BoundaryInv, Fresh, Covered
<1>15. ShownInv'
  BY <1>2, <1>3 DEF RouteInv, Goes, Running, ShownInv
<1>16. ClockInv' /\ PassedInv' /\ AnswerInv' /\ ReportInv'
  BY <1>3 DEF RouteInv, ClockInv, PassedInv, AnswerInv, ReportInv
<1> QED BY TypesNamed, <1>5, <1>6, <1>7, <1>8, <1>9, <1>10, <1>11, <1>12, <1>13, <1>14, <1>15,
    <1>16 DEF RouteInv

LEMMA TearDownStep == ASSUME RouteInv, TearDown PROVE RouteInv'
<1>1. writer.at = "failed"
  BY DEF TearDown
<1>2. up = "booting" /\ ~local
  <2>1. writer.who = "boot"
    BY <1>1, SMT DEF RouteInv, ShapeInv
  <2> QED BY <2>1 DEF RouteInv, ShapeInv
<1>3. Leaves(Ask("stop", FALSE, FALSE))
  BY RouteDoes, Asked DEF RouteInv, TearDown, Callers, Routed
<1>4. \/ /\ ~disk.journal /\ Moved /\ writer' = Idle /\ up' = "down"
         /\ UNCHANGED <<transitioning, epoch, published, tick, choice>>
      \/ /\ /\ disk.journal /\ epoch' = epoch + 1 /\ published' = Nothing /\ transitioning'
            /\ transitioning' \in BOOLEAN
         /\ Moved /\ writer'.at = "mark" /\ writer'.who = "stop" /\ ~writer'.target
         /\ UNCHANGED <<up, tick, choice>>
  <2>1. LET a == Ask("stop", FALSE, FALSE) IN a.who = "stop" /\ ~a.target
    BY SMT DEF Ask
  <2>2. PICK a : a.who = "stop" /\ ~a.target /\ Leaves(a)
    BY <1>3, <2>1
  <2>3. \/ ~disk.journal /\ Done(a) /\ UNCHANGED <<transitioning, epoch, published>>
        \/ /\ disk.journal /\ epoch' = epoch + 1 /\ published' = Nothing
           /\ transitioning' /\ transitioning' \in BOOLEAN /\ Goes(a, "mark")
    BY <1>2, <2>2, Zenon DEF Leaves
  <2>4. Done(a) => Moved /\ writer' = Idle /\ up' = "down" /\ UNCHANGED <<tick, choice>>
    BY <1>2, <2>2, SMT DEF Done
  <2>5. Goes(a, "mark") => /\ Moved /\ writer'.at = "mark" /\ writer'.who = "stop" /\ ~writer'.target
                           /\ UNCHANGED <<up, tick, choice>>
    BY <2>2 DEF Goes
  <2> QED BY <2>3, <2>4, <2>5
<1>5. UNCHANGED <<disk, saving, intent, restoredAt, local, paused, trial, failures, localFailures,
      asked, marking, poll, socket, spell, report, clock, ops, crashes>>
  BY DEF TearDown, Routed, durable, memory, timers, world, bounds
<1> HIDE DEF TearDown
<1>6. /\ Moved
      /\ transitioning' \in BOOLEAN
      /\ epoch' \in Nat
      /\ published' \in Shows
  BY <1>4, TypesNamed, Constants DEF RouteInv, Typed
<1>7. Typed'
  BY <1>5, <1>6, TypesNamed DEF RouteInv, Typed, Moved
<1>8. ShapeInv'
  BY <1>1, <1>4, <1>5, Fields DEF RouteInv, Takes, ShapeInv
<1>9. SavingInv'
  BY <1>1, <1>5 DEF RouteInv, Asks, SavingInv
<1>10. MoveInv'
  BY <1>1, <1>4, <1>5, Fields DEF RouteInv, Takes, Moves, MoveInv, ShapeInv
<1>11. EpochInv'
  BY <1>4, <1>5, PlainTypes DEF RouteInv, Plain, EpochInv
<1>12. KindInv'
  BY <1>4 DEF RouteInv, Running, KindInv
<1>13. JournalInv'
  BY <1>4, <1>5 DEF RouteInv, JournalInv
<1>14. ChoiceInv'
  BY <1>2, <1>4, <1>5 DEF RouteInv, ChoiceInv, ShapeInv
<1>15. ReachInv'
  BY <1>4, <1>5 DEF RouteInv, ReachInv, Covered
<1>16. PassedInv'
  BY <1>4, <1>5, PlainTypes DEF RouteInv, Plain, PassedInv, EpochInv
<1>17. BoundaryInv'
  BY <1>4, <1>5 DEF RouteInv, BoundaryInv, Fresh, Covered
<1>18. ReportInv'
  BY <1>4, <1>5, PlainTypes DEF RouteInv, Plain, ReportInv, EpochInv
<1>19. ShownInv'
  BY <1>4 DEF RouteInv, Running, ShownInv
<1>20. ClockInv' /\ AnswerInv'
  BY <1>5 DEF RouteInv, ClockInv, AnswerInv
<1> QED BY TypesNamed, <1>7, <1>8, <1>9, <1>10, <1>11, <1>12, <1>13, <1>14, <1>15, <1>16, <1>17,
    <1>18, <1>19, <1>20 DEF RouteInv

LEMMA ShutdownStep ==
  ASSUME RouteInv, Shutdown
  PROVE  RouteInv'
<1>1. up \in {"up", "stuck"} /\ up' = "closing"
  BY DEF Shutdown
<1>2. ops' = ops + 1 /\ ops < MaxOps
  BY DEF Shutdown
<1>3. tick' \in {tick, TickIdle}
  BY SMT DEF Shutdown
<1>4. asked' = IF asked.who = "auto" THEN NoAsk ELSE asked
  BY DEF Shutdown
<1>5. UNCHANGED <<disk, saving, intent, restoredAt, local, transitioning, epoch, paused, trial,
      failures, localFailures, writer, marking, poll, published, socket, spell, report, clock,
      crashes, choice>>
  BY DEF Shutdown, durable, memory, route, timers, world
<1> HIDE DEF Shutdown
<1>6. /\ asked' \in Askers
      /\ ops' \in 0..MaxOps
      /\ up' \in Lives
      /\ tick' \in Ticks
  BY <1>1, <1>2, <1>3, <1>4, RoutingAssumption, TypesNamed, Constants, SMTT(20)
    DEF RouteInv, Typed, Lives
<1>7. Typed'
  BY <1>5, <1>6, TypesNamed DEF RouteInv, Typed
<1>8. ShapeInv'
  BY <1>1, <1>4, <1>5, Fields DEF RouteInv, ShapeInv
<1>9. MoveInv'
  BY <1>1, <1>5 DEF RouteInv, MoveInv
<1>10. KindInv'
  BY <1>1, <1>5 DEF RouteInv, Running, KindInv
<1>11. JournalInv'
  BY <1>1, <1>5 DEF RouteInv, JournalInv
<1>12. ChoiceInv'
  BY <1>1, <1>4, <1>5, Fields DEF RouteInv, ChoiceInv
<1>13. ReachInv'
  BY <1>1, <1>5 DEF RouteInv, ReachInv, Covered
<1>14. BoundaryInv'
  BY <1>1, <1>5 DEF RouteInv, BoundaryInv, Fresh, Covered
<1>15. ShownInv'
  BY <1>1, <1>5 DEF RouteInv, Running, ShownInv
<1>16. SavingInv' /\ EpochInv' /\ ClockInv' /\ PassedInv' /\ AnswerInv' /\ ReportInv'
  BY <1>5 DEF RouteInv, SavingInv, Asks, EpochInv, ClockInv, PassedInv, AnswerInv, ReportInv
<1> QED BY TypesNamed, <1>7, <1>8, <1>9, <1>10, <1>11, <1>12, <1>13, <1>14, <1>15, <1>16
        DEF RouteInv

LEMMA StopAsksStep ==
  ASSUME RouteInv, StopAsks
  PROVE  RouteInv'
<1>1. up = "closing" /\ up' = "leaving" /\ tick' = TickIdle
  BY DEF StopAsks
<1>2. asked' \in Askers /\ asked'.who = "stop" /\ ~asked'.target
  BY Asked, SMT DEF StopAsks, Ask, Askers, Callers
<1>3. ChoiceDrops
  BY ChoiceFailsDoes DEF RouteInv, StopAsks
<1>4. UNCHANGED <<disk, saving, intent, restoredAt, local, transitioning, epoch, paused, trial,
      failures, localFailures, writer, marking, poll, published, socket, spell, report, clock, ops,
      crashes>>
  BY DEF StopAsks, durable, memory, route, timers, world, bounds
<1> HIDE DEF StopAsks
<1>5. /\ asked' \in Askers
      /\ up' \in Lives
      /\ tick' \in Ticks
      /\ choice' \in Choices
  BY <1>1, <1>2, <1>3, Constants DEF RouteInv, Lives, ChoiceDrops
<1>6. Typed'
  BY <1>4, <1>5, TypesNamed DEF RouteInv, Typed
<1>7. ShapeInv'
  BY <1>1, <1>2, <1>4 DEF RouteInv, ShapeInv
<1>8. MoveInv'
  BY <1>1, <1>4 DEF RouteInv, MoveInv
<1>9. KindInv'
  BY <1>1, <1>4 DEF RouteInv, Running, KindInv
<1>10. JournalInv'
  BY <1>1, <1>4 DEF RouteInv, JournalInv
<1>11. ChoiceInv'
  BY <1>1, <1>2, <1>3, <1>4 DEF RouteInv, ChoiceDrops, ChoiceInv
<1>12. ReachInv'
  BY <1>1, <1>4 DEF RouteInv, ReachInv, Covered
<1>13. BoundaryInv'
  BY <1>1, <1>4 DEF RouteInv, BoundaryInv, Fresh, Covered
<1>14. ShownInv'
  BY <1>1, <1>4 DEF RouteInv, Running, ShownInv
<1>15. SavingInv' /\ EpochInv' /\ ClockInv' /\ PassedInv' /\ AnswerInv' /\ ReportInv'
  BY <1>4 DEF RouteInv, SavingInv, Asks, EpochInv, ClockInv, PassedInv, AnswerInv, ReportInv
<1> QED BY TypesNamed, <1>6, <1>7, <1>8, <1>9, <1>10, <1>11, <1>12, <1>13, <1>14, <1>15 DEF RouteInv

LEMMA CrashStep ==
  ASSUME RouteInv, Crash
  PROVE  RouteInv'
<1>1. writer' = Idle /\ saving' = <<>> /\ up' = "down"
  BY DEF Crash
<1>2. crashes' = crashes + 1 /\ crashes < MaxCrashes
  BY DEF Crash
<1>3. /\ /\ ~local' /\ local' \in BOOLEAN /\ ~transitioning' /\ transitioning' \in BOOLEAN
         /\ epoch' = 0
      /\ ~paused' /\ paused' \in BOOLEAN /\ trial' = "none" /\ failures' = 0 /\ localFailures' = 0
      /\ tick' = TickIdle /\ asked' = NoAsk /\ marking' = "nobody" /\ published' = Nothing
      /\ choice' = NoChoice
  BY Zenon DEF Crash, Forget
<1>4. /\ poll' \in [Polls -> Refreshes] /\ \A p \in Polls : poll'[p] = NoPoll
      /\ restoredAt' = disk.marker /\ intent' \in Preferences
  <2>1. disk.intent \in Preferences
    BY TypesNamed, SMT DEF RouteInv, Typed, Disks
  <2> QED BY <2>1, Constants DEF Crash, Forget
<1>5. UNCHANGED <<disk, socket, spell, report, clock, ops>>
  BY DEF Crash, world
<1> HIDE DEF Crash
<1>6. saving' \in Seq(Entries) /\ SavingInv'
  BY <1>1, <1>2, <1>3, <1>4, <1>5, SMT DEF SavingInv
<1>7. /\ intent' \in Preferences
      /\ restoredAt' \in Nat
      /\ local' \in BOOLEAN
      /\ transitioning' \in BOOLEAN
      /\ epoch' \in Nat
      /\ paused' \in BOOLEAN
      /\ trial' \in {"none", "running", "expired"}
      /\ asked' \in Askers
      /\ marking' \in Polls \cup {"nobody", "writer"}
      /\ published' \in Shows
      /\ failures' \in 0..Limit
      /\ localFailures' \in 0..Limit
      /\ poll' \in [Polls -> Refreshes]
      /\ crashes' \in 0..MaxCrashes
      /\ up' \in Lives
      /\ tick' \in Ticks
      /\ choice' \in Choices
      /\ writer' \in Writers
  BY <1>1, <1>2, <1>3, <1>4, RoutingAssumption, PlainTypes, TypesNamed, Constants, SMTT(20)
    DEF RouteInv, Typed, Plain, Lives
<1>8. Typed'
  BY <1>5, <1>6, <1>7, TypesNamed DEF RouteInv, Typed
<1>9. ShapeInv'
  BY <1>1, <1>3, Fields DEF RouteInv, Takes, ShapeInv
<1>10. SavingInv'
  BY <1>1, <1>2, <1>3, <1>4, <1>5, <1>6, SMT DEF SavingInv
<1>11. MoveInv'
  BY <1>1, <1>3, <1>4, Fields DEF RouteInv, Takes, Moves, MoveInv
<1>12. EpochInv'
  BY <1>4, Fields DEF RouteInv, EpochInv
<1>13. KindInv'
  BY <1>3, Fields DEF RouteInv, KindInv
<1>14. JournalInv'
  BY <1>1, <1>5, Fields DEF RouteInv, JournalInv
<1>15. ChoiceInv'
  BY <1>3, Fields DEF RouteInv, ChoiceInv
<1>16. ClockInv'
  BY <1>4, <1>5, PlainTypes, Fields DEF RouteInv, Plain, ClockInv
<1>17. ReachInv'
  BY <1>1 DEF RouteInv, ReachInv
<1>18. PassedInv'
  BY <1>4, Fields DEF RouteInv, PassedInv
<1>19. BoundaryInv'
  BY <1>1, <1>5 DEF RouteInv, BoundaryInv, Fresh
<1>20. AnswerInv'
  BY <1>4, Fields DEF RouteInv, AnswerInv
<1>21. ReportInv'
  BY <1>4, Fields DEF RouteInv, ReportInv
<1>22. ShownInv'
  BY <1>3, Fields DEF RouteInv, ShownInv
<1> QED BY TypesNamed, <1>8, <1>9, <1>10, <1>11, <1>12, <1>13, <1>14, <1>15, <1>16, <1>17, <1>18,
    <1>19, <1>20, <1>21, <1>22 DEF RouteInv

-----------------------------------------------------------------------------
(* Who asks for a handover: the user, the shutdown, the supervisor. *)

LEMMA UserAsksStep ==
  ASSUME RouteInv, NEW target \in BOOLEAN, UserAsks(target)
  PROVE  RouteInv'
<1>1. Running /\ paused' /\ paused' \in BOOLEAN
  BY DEF UserAsks
<1>2. ops' = ops + 1 /\ ops < MaxOps
  BY DEF UserAsks
<1>3. asked' \in Askers /\ asked'.who = "user" /\ asked'.target = target
  BY SMT DEF UserAsks, Ask, Askers, Callers
<1>4. choice' \in Choices /\ choice'.target = target /\ choice'.state = "asked"
  BY SMT DEF UserAsks, Choices
<1>5. up' = IF asked.who = "stop" THEN "stuck" ELSE up
  BY DEF UserAsks, Dropped
<1>6. tick' \in {tick, TickIdle}
  BY SMT DEF UserAsks, Dropped
<1>7. UNCHANGED <<disk, saving, intent, restoredAt, local, transitioning, epoch, trial, failures,
      localFailures, writer, marking, poll, published, socket, spell, report, clock, crashes>>
  BY DEF UserAsks, durable, memory, route, world
<1> HIDE DEF UserAsks
<1>8. /\ paused' \in BOOLEAN
      /\ asked' \in Askers
      /\ ops' \in 0..MaxOps
      /\ up' \in Lives
      /\ tick' \in Ticks
      /\ choice' \in Choices
  BY <1>1, <1>2, <1>3, <1>4, <1>5, <1>6, RoutingAssumption, TypesNamed, Constants, SMTT(20)
    DEF RouteInv, Typed, Lives
<1>9. Typed'
  BY <1>7, <1>8, TypesNamed DEF RouteInv, Typed
<1>10. ShapeInv'
  BY <1>1, <1>3, <1>5, <1>7 DEF RouteInv, Running, ShapeInv
<1>11. MoveInv'
  BY <1>5, <1>7 DEF RouteInv, MoveInv, ShapeInv
<1>12. KindInv'
  BY <1>5, <1>7 DEF RouteInv, Running, KindInv, ShapeInv
<1>13. JournalInv'
  BY <1>5, <1>7 DEF RouteInv, JournalInv
<1>14. ChoiceInv'
  BY <1>1, <1>3, <1>4 DEF RouteInv, ChoiceInv
<1>15. ReachInv'
  BY <1>5, <1>7 DEF RouteInv, ReachInv, Covered, ShapeInv
<1>16. BoundaryInv'
  BY <1>5, <1>7 DEF RouteInv, BoundaryInv, Fresh, Covered, ShapeInv
<1>17. ShownInv'
  BY <1>5, <1>7 DEF RouteInv, Running, ShownInv, ShapeInv
<1>18. SavingInv' /\ EpochInv' /\ ClockInv' /\ PassedInv' /\ AnswerInv' /\ ReportInv'
  BY <1>7 DEF RouteInv, SavingInv, Asks, EpochInv, ClockInv, PassedInv, AnswerInv, ReportInv
<1> QED BY TypesNamed, <1>9, <1>10, <1>11, <1>12, <1>13, <1>14, <1>15, <1>16, <1>17, <1>18
        DEF RouteInv

LEMMA OtherRequestStep ==
  ASSUME RouteInv, OtherRequest
  PROVE  RouteInv'
<1>1. asked # NoAsk /\ asked' = NoAsk
  BY DEF OtherRequest
<1>2. ChoiceDrops
  BY ChoiceFailsDoes DEF RouteInv, OtherRequest
<1>3. up' = IF asked.who = "stop" THEN "stuck" ELSE up
  BY DEF OtherRequest, Dropped
<1>4. tick' \in {tick, TickIdle}
  BY SMT DEF OtherRequest, Dropped
<1>5. UNCHANGED <<disk, saving, intent, restoredAt, local, transitioning, epoch, paused, trial,
      failures, localFailures, writer, marking, poll, published, socket, spell, report, clock, ops,
      crashes>>
  BY DEF OtherRequest, durable, memory, route, timers, world, bounds
<1> HIDE DEF OtherRequest
<1>6. /\ asked' \in Askers
      /\ up' \in Lives
      /\ tick' \in Ticks
      /\ choice' \in Choices
  BY <1>1, <1>2, <1>3, <1>4, <1>5, TypesNamed, Constants DEF RouteInv, Typed, Lives, ChoiceDrops
<1>7. Typed'
  BY <1>5, <1>6, TypesNamed DEF RouteInv, Typed
<1>8. ShapeInv'
  BY <1>1, <1>3, <1>5, Fields DEF RouteInv, ShapeInv
<1>9. MoveInv'
  BY <1>3, <1>5 DEF RouteInv, MoveInv, ShapeInv
<1>10. KindInv'
  BY <1>3, <1>5 DEF RouteInv, Running, KindInv, ShapeInv
<1>11. JournalInv'
  BY <1>3, <1>5 DEF RouteInv, JournalInv
<1>12. ChoiceInv'
  BY <1>1, <1>2, <1>3, <1>5, Fields DEF RouteInv, ChoiceDrops, ChoiceInv
<1>13. ReachInv'
  BY <1>3, <1>5 DEF RouteInv, ReachInv, Covered, ShapeInv
<1>14. BoundaryInv'
  BY <1>3, <1>5 DEF RouteInv, BoundaryInv, Fresh, Covered, ShapeInv
<1>15. ShownInv'
  BY <1>3, <1>5 DEF RouteInv, Running, ShownInv, ShapeInv
<1>16. SavingInv' /\ EpochInv' /\ ClockInv' /\ PassedInv' /\ AnswerInv' /\ ReportInv'
  BY <1>5 DEF RouteInv, SavingInv, Asks, EpochInv, ClockInv, PassedInv, AnswerInv, ReportInv
<1> QED BY TypesNamed, <1>7, <1>8, <1>9, <1>10, <1>11, <1>12, <1>13, <1>14, <1>15, <1>16
        DEF RouteInv

LEMMA BeginUserStep == ASSUME RouteInv, BeginUser PROVE RouteInv'
<1>1. writer = Idle /\ Running /\ asked.who = "user" /\ asked' = NoAsk
  BY DEF BeginUser
<1>2. saving' = Append(saving, Chosen(asked.target))
  BY DEF BeginUser, Chosen
<1>3. /\ writer' \in Writers /\ writer'.at = "save" /\ writer'.who = "user"
      /\ writer'.target = asked.target
  BY TypesNamed, SMT DEF RouteInv, BeginUser, Typed, Askers, At, Writers, Places
<1>4. UNCHANGED <<disk, up, intent, restoredAt, local, transitioning, epoch, paused, trial,
      failures, localFailures, tick, marking, poll, published, socket, spell, report, clock, ops,
      crashes, choice>>
  BY DEF BeginUser, memory, route, timers, world, bounds
<1> HIDE DEF BeginUser
<1>5. saving' \in Seq(Entries) /\ SavingInv'
<2>1. Chosen(asked.target) \in Entries /\ Chosen(asked.target).who = "writer"
    BY ChosenSaved, PlainTypes DEF RouteInv, Plain
  <2>2. writer.at \notin Asks /\ writer'.at \in Asks /\ UNCHANGED poll
    BY <1>1, <1>2, <1>3, <1>4, Fields, SMT DEF Asks
  <2> QED BY <1>1, <1>2, <1>3, <1>4, <2>1, <2>2, AppendSaving DEF RouteInv
<1>6. /\ Moved
      /\ asked' \in Askers
  BY <1>1, <1>3, <1>4, TypesNamed, Constants DEF RouteInv, Typed, Moved
<1>7. Typed'
  BY <1>4, <1>5, <1>6, TypesNamed DEF RouteInv, Typed, Moved
<1>8. ShapeInv'
  BY <1>1, <1>3, <1>4, Fields DEF RouteInv, Takes, Running, ShapeInv
<1>9. SavingInv'
<2>1. Chosen(asked.target) \in Entries /\ Chosen(asked.target).who = "writer"
    BY ChosenSaved, PlainTypes DEF RouteInv, Plain
  <2>2. writer.at \notin Asks /\ writer'.at \in Asks /\ UNCHANGED poll
    BY <1>1, <1>2, <1>3, <1>4, <1>5, Fields, SMT DEF Asks
  <2> QED BY <1>1, <1>2, <1>3, <1>4, <1>5, <2>1, <2>2, AppendSaving DEF RouteInv
<1>10. MoveInv'
  BY <1>1, <1>3, <1>4, Fields DEF RouteInv, Takes, Moves, MoveInv
<1>11. JournalInv'
  BY <1>3, <1>4 DEF RouteInv, JournalInv
<1>12. ChoiceInv'
  BY <1>1, <1>3, <1>4, Fields DEF RouteInv, ChoiceInv
<1>13. ReachInv'
  BY <1>1, <1>3, <1>4, Fields DEF RouteInv, ReachInv, Covered
<1>14. BoundaryInv'
  BY <1>1, <1>3, <1>4, Fields DEF RouteInv, BoundaryInv, Fresh, Covered
<1>15. EpochInv' /\ KindInv' /\ ClockInv' /\ PassedInv' /\ AnswerInv' /\ ReportInv' /\ ShownInv'
  BY <1>4 DEF RouteInv, EpochInv, KindInv, Running, ClockInv, PassedInv, AnswerInv, ReportInv,
     ShownInv
<1> QED BY TypesNamed, <1>7, <1>8, <1>9, <1>10, <1>11, <1>12, <1>13, <1>14, <1>15 DEF RouteInv

LEMMA BeginStopStep == ASSUME RouteInv, BeginStop PROVE RouteInv'
<1>1. writer = Idle /\ Running /\ asked.who = "stop" /\ asked' = NoAsk
  BY DEF BeginStop
<1>2. Leaves(asked)
  BY RouteDoes, TypesNamed DEF RouteInv, Typed, BeginStop, Routed
<1>3. UNCHANGED <<disk, saving, intent, restoredAt, local, paused, trial, failures, localFailures,
      marking, poll, socket, spell, report, clock, ops, crashes>>
  BY DEF BeginStop, Routed, durable, memory, timers, world, bounds
<1> HIDE DEF BeginStop
<1>4. /\ Moved
      /\ transitioning' \in BOOLEAN
      /\ epoch' \in Nat
      /\ asked' \in Askers
      /\ published' \in Shows
  BY <1>1, <1>2, MovedTypes, Constants DEF RouteInv
<1>5. Typed'
  BY <1>3, <1>4, TypesNamed DEF RouteInv, Typed, Moved
<1>6. ShapeInv'
  BY <1>1, <1>2, <1>3, Fields DEF RouteInv, Done, Goes, Leaves, Takes, ShapeInv
<1>7. SavingInv'
  BY <1>1, <1>3, Fields DEF RouteInv, Asks, SavingInv
<1>8. MoveInv'
  BY <1>1, <1>2 DEF RouteInv, Done, Goes, Leaves, Moves, MoveInv, ShapeInv
<1>9. EpochInv'
  BY <1>2, <1>3, PlainTypes DEF RouteInv, Plain, Leaves, EpochInv
<1>10. KindInv'
  BY <1>2, <1>3, Fields DEF RouteInv, Done, Leaves, Running, KindInv, ShapeInv
<1>11. JournalInv'
  BY <1>2, <1>3, Fields DEF RouteInv, Done, Goes, Leaves, JournalInv, ShapeInv
<1>12. ChoiceInv'
  BY <1>1, <1>2, <1>3, Fields DEF RouteInv, Done, Goes, Leaves, ChoiceInv, ShapeInv
<1>13. ReachInv'
  BY <1>1, <1>2, <1>3 DEF RouteInv, Goes, Leaves, ReachInv, Covered, ShapeInv
<1>14. PassedInv'
  BY <1>2, <1>3, PlainTypes DEF RouteInv, Plain, Leaves, PassedInv, EpochInv
<1>15. BoundaryInv'
  BY <1>1, <1>2, <1>3 DEF RouteInv, Goes, Leaves, BoundaryInv, Fresh, Covered, ShapeInv
<1>16. ReportInv'
  BY <1>2, <1>3, PlainTypes DEF RouteInv, Plain, Leaves, ReportInv, EpochInv
<1>17. ShownInv'
  BY <1>2, <1>3, Fields DEF RouteInv, Done, Leaves, Running, ShownInv, ShapeInv
<1>18. ClockInv' /\ AnswerInv'
  BY <1>3 DEF RouteInv, ClockInv, AnswerInv
<1> QED BY TypesNamed, <1>5, <1>6, <1>7, <1>8, <1>9, <1>10, <1>11, <1>12, <1>13, <1>14, <1>15,
    <1>16, <1>17, <1>18 DEF RouteInv

LEMMA BeginAutoStep == ASSUME RouteInv, BeginAuto PROVE RouteInv'
<1>1. writer = Idle /\ Running /\ asked.who = "auto" /\ asked' = NoAsk /\ ~paused
  BY DEF BeginAuto
<1>2. Leaves(asked)
  BY RouteDoes, TypesNamed DEF RouteInv, Typed, BeginAuto, Routed
<1>3. UNCHANGED <<disk, saving, intent, restoredAt, local, paused, trial, failures, localFailures,
      marking, poll, socket, spell, report, clock, ops, crashes>>
  BY DEF BeginAuto, Routed, durable, memory, timers, world, bounds
<1> HIDE DEF BeginAuto
<1>4. /\ Moved
      /\ transitioning' \in BOOLEAN
      /\ epoch' \in Nat
      /\ asked' \in Askers
      /\ published' \in Shows
  BY <1>1, <1>2, MovedTypes, Constants DEF RouteInv
<1>5. Typed'
  BY <1>3, <1>4, TypesNamed DEF RouteInv, Typed, Moved
<1>6. ShapeInv'
  BY <1>1, <1>2, <1>3, Fields DEF RouteInv, Done, Goes, Leaves, Takes, Running, ShapeInv
<1>7. SavingInv'
  BY <1>1, <1>3, Fields DEF RouteInv, Asks, SavingInv
<1>8. MoveInv'
  BY <1>1, <1>2, Fields DEF RouteInv, Done, Goes, Leaves, Takes, Moves, MoveInv, ShapeInv
<1>9. EpochInv'
  BY <1>2, <1>3, PlainTypes DEF RouteInv, Plain, Leaves, EpochInv
<1>10. KindInv'
  BY <1>2, <1>3, Fields DEF RouteInv, Done, Leaves, Running, KindInv, ShapeInv
<1>11. JournalInv'
  BY <1>2, <1>3, Fields DEF RouteInv, Done, Goes, Leaves, JournalInv, ShapeInv
<1>12. ChoiceInv'
  BY <1>1, <1>2, Fields DEF RouteInv, Done, Goes, Leaves, ChoiceInv
<1>13. ReachInv'
  BY <1>1, <1>2, <1>3, Fields DEF RouteInv, Done, Goes, Leaves, ReachInv, Covered
<1>14. PassedInv'
  BY <1>2, <1>3, PlainTypes DEF RouteInv, Plain, Leaves, PassedInv, EpochInv
<1>15. BoundaryInv'
  BY <1>1, <1>2, <1>3, Fields DEF RouteInv, Done, Goes, Leaves, BoundaryInv, Fresh, Covered
<1>16. ReportInv'
  BY <1>2, <1>3, PlainTypes DEF RouteInv, Plain, Leaves, ReportInv, EpochInv
<1>17. ShownInv'
  BY <1>2, <1>3, Fields DEF RouteInv, Done, Leaves, Running, ShownInv, ShapeInv
<1>18. ClockInv' /\ AnswerInv'
  BY <1>3 DEF RouteInv, ClockInv, AnswerInv
<1> QED BY TypesNamed, <1>5, <1>6, <1>7, <1>8, <1>9, <1>10, <1>11, <1>12, <1>13, <1>14, <1>15,
    <1>16, <1>17, <1>18 DEF RouteInv

LEMMA AutoDeclinesStep == ASSUME RouteInv, AutoDeclines PROVE RouteInv'
<1>1. writer = Idle /\ Running /\ asked.who = "auto" /\ asked' = NoAsk /\ trial' \in {trial, "none"}
  BY DEF AutoDeclines
<1>2. Failed(asked)
  <2>1. asked.who \in Callers /\ asked.target \in BOOLEAN /\ asked.recovery \in BOOLEAN
    BY TypesNamed, SMT DEF RouteInv, Typed, Askers
  <2> QED BY <2>1, EndDoes DEF RouteInv, AutoDeclines
<1>3. UNCHANGED <<disk, saving, intent, restoredAt, local, transitioning, epoch, paused, failures,
      localFailures, marking, poll, published, socket, spell, report, clock, ops, crashes>>
  BY DEF AutoDeclines, durable, memory, route, world, bounds
<1> HIDE DEF AutoDeclines
<1>4. /\ Moved
      /\ trial' \in {"none", "running", "expired"}
      /\ asked' \in Askers
  BY <1>1, <1>2, TypesNamed, Constants DEF RouteInv, Typed, Failed
<1>5. Typed'
  BY <1>3, <1>4, TypesNamed DEF RouteInv, Typed, Moved
<1>6. ShapeInv'
  BY <1>1, <1>2, <1>3, Fields DEF RouteInv, Failed, ShapeInv
<1>7. SavingInv'
  BY <1>1, <1>3, Fields DEF RouteInv, Asks, SavingInv
<1>8. MoveInv'
  BY <1>1, <1>2, <1>3 DEF RouteInv, Failed, MoveInv
<1>9. KindInv'
  BY <1>2, <1>3 DEF RouteInv, Failed, Running, KindInv, ShapeInv
<1>10. JournalInv'
  BY <1>2, <1>3, Fields DEF RouteInv, Failed, JournalInv
<1>11. ChoiceInv'
  BY <1>1, <1>2, <1>3, Fields DEF RouteInv, Failed, ChoiceInv
<1>12. ReachInv'
  BY <1>1, <1>2, <1>3 DEF RouteInv, Failed, ReachInv, Covered
<1>13. BoundaryInv'
  BY <1>1, <1>2, <1>3 DEF RouteInv, Failed, BoundaryInv, Fresh, Covered
<1>14. ShownInv'
  BY <1>2, <1>3 DEF RouteInv, Failed, Running, ShownInv, ShapeInv
<1>15. EpochInv' /\ ClockInv' /\ PassedInv' /\ AnswerInv' /\ ReportInv'
  BY <1>3 DEF RouteInv, EpochInv, ClockInv, PassedInv, AnswerInv, ReportInv
<1> QED BY TypesNamed, <1>5, <1>6, <1>7, <1>8, <1>9, <1>10, <1>11, <1>12, <1>13, <1>14, <1>15
        DEF RouteInv

-----------------------------------------------------------------------------
(* The round of the supervisor. *)

LEMMA TickRefreshStep ==
  ASSUME RouteInv, TickRefresh
  PROVE  RouteInv'
<1>1. tick' \in Ticks /\ up = "up"
  BY PlainTypes, SMT DEF RouteInv, Plain, TickRefresh, MayTick, Ticks
<1>2. UNCHANGED <<disk, saving, up, intent, restoredAt, local, transitioning, epoch, paused, trial,
      failures, localFailures, asked, writer, marking, poll, published, socket, spell, report,
      clock, ops, crashes, choice>>
  BY DEF TickRefresh, TickKeeps, durable, memory, route, world
<1> HIDE DEF TickRefresh
<1>3. /\ tick' \in Ticks
  BY <1>1 DEF RouteInv
<1>4. Typed'
  BY <1>2, <1>3, TypesNamed DEF RouteInv, Typed
<1>5. ShapeInv'
  BY <1>1, <1>2 DEF RouteInv, ShapeInv
<1>6. /\ SavingInv' /\ MoveInv' /\ EpochInv' /\ KindInv' /\ JournalInv' /\ ChoiceInv' /\ ClockInv'
      /\ ReachInv' /\ PassedInv' /\ BoundaryInv' /\ AnswerInv' /\ ReportInv' /\ ShownInv'
  BY <1>2 DEF RouteInv, SavingInv, MoveInv, EpochInv, KindInv, Running, JournalInv, ChoiceInv,
     ClockInv, ReachInv, Covered, PassedInv, BoundaryInv, Fresh, AnswerInv, ReportInv, ShownInv
<1> QED BY TypesNamed, <1>4, <1>5, <1>6 DEF RouteInv

LEMMA AskRecoveryStep ==
  ASSUME RouteInv, AskRecovery
  PROVE  RouteInv'
<1>1. up \notin {"down", "booting"}
  BY SMT DEF RouteInv, ShapeInv, AskRecovery, Due, MayTick
<1>2. asked' \in Askers /\ asked'.who = "auto"
  BY SMT DEF AskRecovery, TickAsks, Ask, Askers, Callers
<1>3. tick' \in Ticks
  BY PlainTypes, SMT DEF RouteInv, Plain, AskRecovery, TickAsks, Ticks
<1>4. up' = IF asked.who = "stop" THEN "stuck" ELSE up
  BY DEF AskRecovery, TickAsks
<1>5. ChoiceDrops
  BY ChoiceFailsDoes DEF RouteInv, AskRecovery, TickAsks
<1>6. trial' \in {trial, "running"} /\ ops' = ops + 1 /\ ops < MaxOps
  BY SMT DEF AskRecovery, TickAsks
<1>7. UNCHANGED <<disk, saving, intent, restoredAt, local, transitioning, epoch, paused, failures,
      localFailures, writer, marking, poll, published, socket, spell, report, clock, crashes>>
  BY DEF AskRecovery, TickAsks, TickKeeps, durable, memory, route, world
<1> HIDE DEF AskRecovery
<1>8. /\ trial' \in {"none", "running", "expired"}
      /\ asked' \in Askers
      /\ ops' \in 0..MaxOps
      /\ up' \in Lives
      /\ tick' \in Ticks
      /\ choice' \in Choices
  BY <1>2, <1>3, <1>4, <1>5, <1>6, RoutingAssumption, TypesNamed, SMTT(20)
    DEF RouteInv, Typed, Lives, ChoiceDrops
<1>9. Typed'
  BY <1>7, <1>8, TypesNamed DEF RouteInv, Typed
<1>10. ShapeInv'
  BY <1>1, <1>2, <1>4, <1>7 DEF RouteInv, ShapeInv
<1>11. MoveInv'
  BY <1>4, <1>7 DEF RouteInv, MoveInv, ShapeInv
<1>12. KindInv'
  BY <1>4, <1>7 DEF RouteInv, Running, KindInv, ShapeInv
<1>13. JournalInv'
  BY <1>4, <1>7 DEF RouteInv, JournalInv
<1>14. ChoiceInv'
  BY <1>2, <1>4, <1>5, <1>7 DEF RouteInv, ChoiceDrops, ChoiceInv
<1>15. ReachInv'
  BY <1>4, <1>7 DEF RouteInv, ReachInv, Covered, ShapeInv
<1>16. BoundaryInv'
  BY <1>4, <1>7 DEF RouteInv, BoundaryInv, Fresh, Covered, ShapeInv
<1>17. ShownInv'
  BY <1>4, <1>7 DEF RouteInv, Running, ShownInv, ShapeInv
<1>18. SavingInv' /\ EpochInv' /\ ClockInv' /\ PassedInv' /\ AnswerInv' /\ ReportInv'
  BY <1>7 DEF RouteInv, SavingInv, Asks, EpochInv, ClockInv, PassedInv, AnswerInv, ReportInv
<1> QED BY TypesNamed, <1>9, <1>10, <1>11, <1>12, <1>13, <1>14, <1>15, <1>16, <1>17, <1>18
        DEF RouteInv

LEMMA AskTakeoverStep ==
  ASSUME RouteInv, AskTakeover
  PROVE  RouteInv'
<1>1. up \notin {"down", "booting"}
  BY SMT DEF RouteInv, ShapeInv, AskTakeover, Due, MayTick
<1>2. asked' \in Askers /\ asked'.who = "auto"
  BY SMT DEF AskTakeover, TickAsks, Ask, Askers, Callers
<1>3. tick' \in Ticks
  BY PlainTypes, SMT DEF RouteInv, Plain, AskTakeover, TickAsks, Ticks
<1>4. up' = IF asked.who = "stop" THEN "stuck" ELSE up
  BY DEF AskTakeover, TickAsks
<1>5. ChoiceDrops
  BY ChoiceFailsDoes DEF RouteInv, AskTakeover, TickAsks
<1>6. trial' \in {trial, "running"} /\ ops' = ops + 1 /\ ops < MaxOps
  BY SMT DEF AskTakeover, TickAsks
<1>7. UNCHANGED <<disk, saving, intent, restoredAt, local, transitioning, epoch, paused, trial,
      failures, localFailures, writer, marking, poll, published, socket, spell, report, clock,
      crashes>>
  BY DEF AskTakeover, TickAsks, TickKeeps, durable, memory, route, world
<1> HIDE DEF AskTakeover
<1>8. /\ asked' \in Askers
      /\ ops' \in 0..MaxOps
      /\ up' \in Lives
      /\ tick' \in Ticks
      /\ choice' \in Choices
  BY <1>2, <1>3, <1>4, <1>5, <1>6, RoutingAssumption, TypesNamed, SMTT(20)
    DEF RouteInv, Typed, Lives, ChoiceDrops
<1>9. Typed'
  BY <1>7, <1>8, TypesNamed DEF RouteInv, Typed
<1>10. ShapeInv'
  BY <1>1, <1>2, <1>4, <1>7 DEF RouteInv, ShapeInv
<1>11. MoveInv'
  BY <1>4, <1>7 DEF RouteInv, MoveInv, ShapeInv
<1>12. KindInv'
  BY <1>4, <1>7 DEF RouteInv, Running, KindInv, ShapeInv
<1>13. JournalInv'
  BY <1>4, <1>7 DEF RouteInv, JournalInv
<1>14. ChoiceInv'
  BY <1>2, <1>4, <1>5, <1>7 DEF RouteInv, ChoiceDrops, ChoiceInv
<1>15. ReachInv'
  BY <1>4, <1>7 DEF RouteInv, ReachInv, Covered, ShapeInv
<1>16. BoundaryInv'
  BY <1>4, <1>7 DEF RouteInv, BoundaryInv, Fresh, Covered, ShapeInv
<1>17. ShownInv'
  BY <1>4, <1>7 DEF RouteInv, Running, ShownInv, ShapeInv
<1>18. SavingInv' /\ EpochInv' /\ ClockInv' /\ PassedInv' /\ AnswerInv' /\ ReportInv'
  BY <1>7 DEF RouteInv, SavingInv, Asks, EpochInv, ClockInv, PassedInv, AnswerInv, ReportInv
<1> QED BY TypesNamed, <1>9, <1>10, <1>11, <1>12, <1>13, <1>14, <1>15, <1>16, <1>17, <1>18
        DEF RouteInv

LEMMA ProbeStep ==
  ASSUME RouteInv, Probe
  PROVE  RouteInv'
<1>1. tick' \in Ticks /\ up \notin {"down", "booting"}
  BY PlainTypes, SMT DEF RouteInv, ShapeInv, Plain, Probe, Due, MayTick, Ticks
<1>2. UNCHANGED <<disk, saving, up, intent, restoredAt, local, transitioning, epoch, paused, trial,
      failures, localFailures, asked, writer, marking, poll, published, socket, spell, report,
      clock, ops, crashes, choice>>
  BY DEF Probe, TickKeeps, durable, memory, route, world
<1> HIDE DEF Probe
<1>3. /\ tick' \in Ticks
  BY <1>1 DEF RouteInv
<1>4. Typed'
  BY <1>2, <1>3, TypesNamed DEF RouteInv, Typed
<1>5. ShapeInv'
  BY <1>1, <1>2 DEF RouteInv, ShapeInv
<1>6. /\ SavingInv' /\ MoveInv' /\ EpochInv' /\ KindInv' /\ JournalInv' /\ ChoiceInv' /\ ClockInv'
      /\ ReachInv' /\ PassedInv' /\ BoundaryInv' /\ AnswerInv' /\ ReportInv' /\ ShownInv'
  BY <1>2 DEF RouteInv, SavingInv, MoveInv, EpochInv, KindInv, Running, JournalInv, ChoiceInv,
     ClockInv, ReachInv, Covered, PassedInv, BoundaryInv, Fresh, AnswerInv, ReportInv, ShownInv
<1> QED BY TypesNamed, <1>4, <1>5, <1>6 DEF RouteInv

LEMMA ReachableStep ==
  ASSUME RouteInv, Reachable
  PROVE  RouteInv'
<1>1. up \notin {"down", "booting"}
  BY SMT DEF RouteInv, ShapeInv, Reachable
<1>2. asked' \in Askers /\ asked'.who = "auto"
  BY SMT DEF Reachable, TickAsks, Ask, Askers, Callers
<1>3. tick' \in Ticks
  BY PlainTypes, SMT DEF RouteInv, Plain, Reachable, TickAsks, Ticks
<1>4. up' = IF asked.who = "stop" THEN "stuck" ELSE up
  BY DEF Reachable, TickAsks
<1>5. ChoiceDrops
  BY ChoiceFailsDoes DEF RouteInv, Reachable, TickAsks
<1>6. trial' \in {trial, "running"} /\ ops' = ops + 1 /\ ops < MaxOps
  BY SMT DEF Reachable, TickAsks
<1>7. UNCHANGED <<disk, saving, intent, restoredAt, local, transitioning, epoch, paused, failures,
      localFailures, writer, marking, poll, published, socket, spell, report, clock, crashes>>
  BY DEF Reachable, TickAsks, TickKeeps, durable, memory, route, world
<1> HIDE DEF Reachable
<1>8. /\ trial' \in {"none", "running", "expired"}
      /\ asked' \in Askers
      /\ ops' \in 0..MaxOps
      /\ up' \in Lives
      /\ tick' \in Ticks
      /\ choice' \in Choices
  BY <1>2, <1>3, <1>4, <1>5, <1>6, RoutingAssumption, TypesNamed, SMTT(20)
    DEF RouteInv, Typed, Lives, ChoiceDrops
<1>9. Typed'
  BY <1>7, <1>8, TypesNamed DEF RouteInv, Typed
<1>10. ShapeInv'
  BY <1>1, <1>2, <1>4, <1>7 DEF RouteInv, ShapeInv
<1>11. MoveInv'
  BY <1>4, <1>7 DEF RouteInv, MoveInv, ShapeInv
<1>12. KindInv'
  BY <1>4, <1>7 DEF RouteInv, Running, KindInv, ShapeInv
<1>13. JournalInv'
  BY <1>4, <1>7 DEF RouteInv, JournalInv
<1>14. ChoiceInv'
  BY <1>2, <1>4, <1>5, <1>7 DEF RouteInv, ChoiceDrops, ChoiceInv
<1>15. ReachInv'
  BY <1>4, <1>7 DEF RouteInv, ReachInv, Covered, ShapeInv
<1>16. BoundaryInv'
  BY <1>4, <1>7 DEF RouteInv, BoundaryInv, Fresh, Covered, ShapeInv
<1>17. ShownInv'
  BY <1>4, <1>7 DEF RouteInv, Running, ShownInv, ShapeInv
<1>18. SavingInv' /\ EpochInv' /\ ClockInv' /\ PassedInv' /\ AnswerInv' /\ ReportInv'
  BY <1>7 DEF RouteInv, SavingInv, Asks, EpochInv, ClockInv, PassedInv, AnswerInv, ReportInv
<1> QED BY TypesNamed, <1>9, <1>10, <1>11, <1>12, <1>13, <1>14, <1>15, <1>16, <1>17, <1>18
        DEF RouteInv

LEMMA TickReturnsStep ==
  ASSUME RouteInv, TickReturns
  PROVE  RouteInv'
<1>1. tick' = TickIdle
  BY DEF TickReturns
<1>2. UNCHANGED <<disk, saving, up, intent, restoredAt, local, transitioning, epoch, paused, trial,
      failures, localFailures, asked, writer, marking, poll, published, socket, spell, report,
      clock, ops, crashes, choice>>
  BY DEF TickReturns, TickKeeps, durable, memory, route, world
<1> HIDE DEF TickReturns
<1>3. /\ tick' \in Ticks
  BY <1>1, Constants DEF RouteInv
<1>4. Typed'
  BY <1>2, <1>3, TypesNamed DEF RouteInv, Typed
<1>5. ShapeInv'
  BY <1>1, <1>2, Fields DEF RouteInv, ShapeInv
<1>6. /\ SavingInv' /\ MoveInv' /\ EpochInv' /\ KindInv' /\ JournalInv' /\ ChoiceInv' /\ ClockInv'
      /\ ReachInv' /\ PassedInv' /\ BoundaryInv' /\ AnswerInv' /\ ReportInv' /\ ShownInv'
  BY <1>2 DEF RouteInv, SavingInv, MoveInv, EpochInv, KindInv, Running, JournalInv, ChoiceInv,
     ClockInv, ReachInv, Covered, PassedInv, BoundaryInv, Fresh, AnswerInv, ReportInv, ShownInv
<1> QED BY TypesNamed, <1>4, <1>5, <1>6 DEF RouteInv

LEMMA TickAfterStep ==
  ASSUME RouteInv, TickAfter
  PROVE  RouteInv'
<1>1. tick' = TickIdle /\ trial' \in {"none", trial} /\ localFailures' \in {0, localFailures}
  BY SMT DEF TickAfter
<1>2. UNCHANGED <<disk, saving, up, intent, restoredAt, local, transitioning, epoch, paused,
      failures, asked, writer, marking, poll, published, socket, spell, report, clock, ops, crashes,
      choice>>
  BY DEF TickAfter, TickKeeps, durable, memory, route, world
<1> HIDE DEF TickAfter
<1>3. /\ trial' \in {"none", "running", "expired"}
      /\ localFailures' \in 0..Limit
      /\ tick' \in Ticks
  BY <1>1, RoutingAssumption, TypesNamed, Constants, SMTT(20) DEF RouteInv, Typed
<1>4. Typed'
  BY <1>2, <1>3, TypesNamed DEF RouteInv, Typed
<1>5. ShapeInv'
  BY <1>1, <1>2, Fields DEF RouteInv, ShapeInv
<1>6. /\ SavingInv' /\ MoveInv' /\ EpochInv' /\ KindInv' /\ JournalInv' /\ ChoiceInv' /\ ClockInv'
      /\ ReachInv' /\ PassedInv' /\ BoundaryInv' /\ AnswerInv' /\ ReportInv' /\ ShownInv'
  BY <1>2 DEF RouteInv, SavingInv, MoveInv, EpochInv, KindInv, Running, JournalInv, ChoiceInv,
     ClockInv, ReachInv, Covered, PassedInv, BoundaryInv, Fresh, AnswerInv, ReportInv, ShownInv
<1> QED BY TypesNamed, <1>4, <1>5, <1>6 DEF RouteInv

LEMMA ExpireStep ==
  ASSUME RouteInv, Expire
  PROVE  RouteInv'
<1>1. trial' = "expired"
  BY DEF Expire
<1>2. UNCHANGED <<disk, saving, up, intent, restoredAt, local, transitioning, epoch, paused,
      failures, localFailures, tick, asked, writer, marking, poll, published, socket, spell, report,
      clock, ops, crashes, choice>>
  BY DEF Expire, durable, memory, route, world, bounds
<1> HIDE DEF Expire
<1>3. /\ trial' \in {"none", "running", "expired"}
  BY <1>1 DEF RouteInv
<1>4. Typed'
  BY <1>2, <1>3, TypesNamed DEF RouteInv, Typed
<1>5. /\ ShapeInv' /\ SavingInv' /\ MoveInv' /\ EpochInv' /\ KindInv' /\ JournalInv' /\ ChoiceInv'
      /\ ClockInv' /\ ReachInv' /\ PassedInv' /\ BoundaryInv' /\ AnswerInv' /\ ReportInv'
      /\ ShownInv'
  BY <1>2 DEF RouteInv, ShapeInv, SavingInv, MoveInv, EpochInv, KindInv, Running, JournalInv,
     ChoiceInv, ClockInv, ReachInv, Covered, PassedInv, BoundaryInv, Fresh, AnswerInv, ReportInv,
     ShownInv
<1> QED BY TypesNamed, <1>4, <1>5 DEF RouteInv

-----------------------------------------------------------------------------
(* Polls, from their start to what they publish. *)

LEMMA PollStartStep ==
  ASSUME RouteInv, NEW p \in Polls, PollStart(p)
  PROVE  RouteInv'
<1>1. Running /\ ~transitioning /\ poll[p].at = "idle"
  BY DEF PollStart
<1>2. /\ poll' \in [Polls -> Refreshes] /\ \A q \in Polls \ {p} : poll'[q] = poll[q]
      /\ poll'[p].at = "read" /\ poll'[p].epoch = epoch /\ poll'[p].report.time = 0
      /\ poll'[p].kind = "tcp" <=> local
  <2> DEFINE x == [at |-> "read", epoch |-> epoch, kind |-> IF local THEN "tcp" ELSE "cloud",
                   report |-> Never]
  <2>1. /\ x \in Refreshes /\ x.at = "read" /\ x.epoch = epoch /\ x.report.time = 0
        /\ x.kind = "tcp" <=> local
    BY PlainTypes, SMT DEF RouteInv, Plain, Refreshes, Never, Stamps
  <2>2. poll \in [Polls -> Refreshes] /\ poll' = [poll EXCEPT ![p] = x]
    BY TypesNamed DEF RouteInv, Typed, PollStart
  <2> HIDE DEF x
  <2> QED BY <2>1, <2>2
<1>3. UNCHANGED <<disk, saving, up, intent, restoredAt, local, transitioning, epoch, paused, trial,
      failures, localFailures, tick, asked, writer, marking, published, socket, spell, report,
      clock, ops, crashes, choice>>
  BY DEF PollStart, PollKeeps, route, world, bounds, durable, memory
<1> HIDE DEF PollStart
<1>4. /\ poll' \in [Polls -> Refreshes]
  BY <1>2 DEF RouteInv
<1>5. Typed'
  BY <1>3, <1>4, TypesNamed DEF RouteInv, Typed
<1>6. SavingInv'
  BY <1>1, <1>2, <1>3, OtherSaving, SMT DEF RouteInv, Polled
<1>7. MoveInv'
  BY <1>1, <1>3 DEF RouteInv, Running, MoveInv
<1>8. EpochInv'
  BY <1>1, <1>2, <1>3, PlainTypes DEF RouteInv, Plain, EpochInv
<1>9. ClockInv'
  BY <1>2, <1>3, PlainTypes DEF RouteInv, Plain, ClockInv
<1>10. PassedInv'
  BY <1>2, <1>3 DEF RouteInv, PassedInv
<1>11. AnswerInv'
  BY <1>2 DEF RouteInv, AnswerInv
<1>12. ReportInv'
  BY <1>2, <1>3 DEF RouteInv, ReportInv
<1>13. ShapeInv' /\ KindInv' /\ JournalInv' /\ ChoiceInv' /\ ReachInv' /\ BoundaryInv' /\ ShownInv'
  BY <1>3 DEF RouteInv, ShapeInv, KindInv, Running, JournalInv, ChoiceInv, ReachInv, Covered,
     BoundaryInv, Fresh, ShownInv
<1> QED BY TypesNamed, <1>5, <1>6, <1>7, <1>8, <1>9, <1>10, <1>11, <1>12, <1>13 DEF RouteInv

LEMMA PollLateStep ==
  ASSUME RouteInv, NEW p \in Polls, PollLate(p)
  PROVE  RouteInv'
<1>1. published' = Nothing
  BY DEF PollLate
<1>2. failures' \in 0..Limit /\ localFailures' \in 0..Limit
  BY RoutingAssumption, TypesNamed, SMT DEF RoutingAssumption, RouteInv, Typed, PollLate, Count
<1>3. UNCHANGED <<disk, saving, up, intent, restoredAt, local, transitioning, epoch, paused, trial,
      tick, asked, writer, marking, poll, socket, spell, report, clock, ops, crashes, choice>>
  BY DEF PollLate, PollKeeps, route, world, bounds, durable, memory
<1> HIDE DEF PollLate
<1>4. /\ published' \in Shows
      /\ failures' \in 0..Limit
      /\ localFailures' \in 0..Limit
  BY <1>1, <1>2, Constants DEF RouteInv
<1>5. Typed'
  BY <1>3, <1>4, TypesNamed DEF RouteInv, Typed
<1>6. MoveInv'
  BY <1>1, <1>3 DEF RouteInv, MoveInv
<1>7. KindInv'
  BY <1>1, Fields DEF RouteInv, KindInv
<1>8. ShownInv'
  BY <1>1, Fields DEF RouteInv, ShownInv
<1>9. /\ ShapeInv' /\ SavingInv' /\ EpochInv' /\ JournalInv' /\ ChoiceInv' /\ ClockInv' /\ ReachInv'
      /\ PassedInv' /\ BoundaryInv' /\ AnswerInv' /\ ReportInv'
  BY <1>3 DEF RouteInv, ShapeInv, SavingInv, EpochInv, JournalInv, ChoiceInv, ClockInv, ReachInv,
     Covered, PassedInv, BoundaryInv, Fresh, AnswerInv, ReportInv
<1> QED BY TypesNamed, <1>5, <1>6, <1>7, <1>8, <1>9 DEF RouteInv

LEMMA PollAnswersStep ==
  ASSUME RouteInv, NEW p \in Polls, PollAnswers(p)
  PROVE  RouteInv'
<1>1. poll[p].at = "read" /\ poll[p].kind = "cloud" /\ \A q \in Polls : poll[q].at # "answered"
  BY DEF PollAnswers
<1>2. /\ poll' \in [Polls -> Refreshes] /\ \A q \in Polls \ {p} : poll'[q] = poll[q]
      /\ poll'[p].at = "answered" /\ poll'[p].epoch = poll[p].epoch /\ poll'[p].kind = poll[p].kind
      /\ poll'[p].report = report
  <2> DEFINE x == [poll[p] EXCEPT !.at = "answered", !.report = report]
  <2>1. poll \in [Polls -> Refreshes] /\ report \in Stamps
    BY TypesNamed DEF RouteInv, Typed
  <2>2. poll[p] \in Refreshes
    BY <2>1
  <2>4. x.at = "answered" /\ x.epoch = poll[p].epoch /\ x.kind = poll[p].kind /\ x.report = report
    BY <2>2, SMT DEF Refreshes
  <2>5. x \in Refreshes
    <3> DEFINE y == [poll[p] EXCEPT !.at = "answered"]
    <3>1. y \in Refreshes
      BY <2>2, SMT DEF Refreshes
    <3>2. \A z \in Refreshes : [z EXCEPT !.report = report] \in Refreshes
      BY <2>1, SMT DEF Refreshes
    <3> QED BY <3>1, <3>2
  <2>3. poll' = [poll EXCEPT ![p] = x]
    BY DEF PollAnswers
  <2> HIDE DEF x
  <2> QED BY <2>1, <2>3, <2>4, <2>5
<1>3. UNCHANGED <<disk, saving, up, intent, restoredAt, local, transitioning, epoch, paused, trial,
      failures, localFailures, tick, asked, writer, marking, published, socket, spell, report,
      clock, ops, crashes, choice>>
  BY DEF PollAnswers, PollKeeps, route, world, bounds, durable, memory
<1> HIDE DEF PollAnswers
<1>4. /\ poll' \in [Polls -> Refreshes]
  BY <1>2 DEF RouteInv
<1>5. Typed'
  BY <1>3, <1>4, TypesNamed DEF RouteInv, Typed
<1>6. SavingInv'
  BY <1>1, <1>2, <1>3, OtherSaving, SMT DEF RouteInv, Polled
<1>7. MoveInv'
  BY <1>1, <1>3, Fields DEF RouteInv, MoveInv
<1>8. EpochInv'
  BY <1>1, <1>2, <1>3 DEF RouteInv, EpochInv
<1>9. ClockInv'
  BY <1>2, <1>3, PlainTypes DEF RouteInv, Plain, ClockInv
<1>10. PassedInv'
  BY <1>2, <1>3 DEF RouteInv, PassedInv
<1>11. AnswerInv'
  BY <1>1, <1>2 DEF RouteInv, AnswerInv, ClockInv
<1>12. ReportInv'
  BY <1>1, <1>2, <1>3, Fields DEF RouteInv, Takes, Moves, ReportInv, ShapeInv, MoveInv, EpochInv,
     BoundaryInv, Fresh, Covered
<1>13. ShapeInv' /\ KindInv' /\ JournalInv' /\ ChoiceInv' /\ ReachInv' /\ BoundaryInv' /\ ShownInv'
  BY <1>3 DEF RouteInv, ShapeInv, KindInv, Running, JournalInv, ChoiceInv, ReachInv, Covered,
     BoundaryInv, Fresh, ShownInv
<1> QED BY TypesNamed, <1>5, <1>6, <1>7, <1>8, <1>9, <1>10, <1>11, <1>12, <1>13 DEF RouteInv

LEMMA PollChecksStep ==
  ASSUME RouteInv, NEW p \in Polls, PollChecks(p)
  PROVE  RouteInv'
<1>1. poll[p].at = "answered" /\ poll[p].epoch = epoch /\ poll[p].report.time >= restoredAt
  BY DEF PollChecks
<1>2. Polled(p, IF restoredAt = 0 THEN "last" ELSE "clear", poll[p])
  BY PlaceDoes DEF RouteInv, PollChecks
<1>3. UNCHANGED <<disk, saving, up, intent, restoredAt, local, transitioning, epoch, paused, trial,
      failures, localFailures, tick, asked, writer, marking, published, socket, spell, report,
      clock, ops, crashes, choice>>
  BY DEF PollChecks, PollKeeps, route, world, bounds, durable, memory
<1> HIDE DEF PollChecks
<1>4. /\ poll' \in [Polls -> Refreshes]
  BY <1>2 DEF RouteInv, Polled
<1>5. Typed'
  BY <1>3, <1>4, TypesNamed DEF RouteInv, Typed
<1>6. SavingInv'
  BY <1>1, <1>2, <1>3, OtherSaving, SMT DEF RouteInv, Polled
<1>7. MoveInv'
  BY <1>1, <1>3, Fields DEF RouteInv, MoveInv
<1>8. EpochInv'
  BY <1>1, <1>2, <1>3 DEF RouteInv, Polled, EpochInv
<1>9. ClockInv'
  BY <1>2, <1>3 DEF RouteInv, Polled, ClockInv
<1>10. PassedInv'
  BY <1>1, <1>2, <1>3 DEF RouteInv, Polled, PassedInv
<1>11. AnswerInv'
  BY <1>1, <1>2 DEF RouteInv, Polled, AnswerInv
<1>12. ReportInv'
  BY <1>1, <1>2, <1>3 DEF RouteInv, Polled, ReportInv
<1>13. ShapeInv' /\ KindInv' /\ JournalInv' /\ ChoiceInv' /\ ReachInv' /\ BoundaryInv' /\ ShownInv'
  BY <1>3 DEF RouteInv, ShapeInv, KindInv, Running, JournalInv, ChoiceInv, ReachInv, Covered,
     BoundaryInv, Fresh, ShownInv
<1> QED BY TypesNamed, <1>5, <1>6, <1>7, <1>8, <1>9, <1>10, <1>11, <1>12, <1>13 DEF RouteInv

LEMMA PollClearsStep ==
  ASSUME RouteInv, NEW p \in Polls, PollClears(p)
  PROVE  RouteInv'
<1>1. poll[p].at = "clear" /\ marking = "nobody" /\ poll[p].epoch = epoch /\ marking' = p
  BY DEF PollClears
<1>2. Polled(p, "clearing", poll[p])
  BY PlaceDoes DEF RouteInv, PollClears
<1>3. UNCHANGED <<disk, saving, up, intent, restoredAt, local, transitioning, epoch, paused, trial,
      failures, localFailures, tick, asked, writer, published, socket, spell, report, clock, ops,
      crashes, choice>>
  BY DEF PollClears, PollKeeps, route, world, bounds, durable, memory
<1> HIDE DEF PollClears
<1>4. /\ marking' \in Polls \cup {"nobody", "writer"}
      /\ poll' \in [Polls -> Refreshes]
  BY <1>1, <1>2 DEF RouteInv, Polled
<1>5. Typed'
  BY <1>3, <1>4, TypesNamed DEF RouteInv, Typed
<1>6. ShapeInv'
  BY <1>1, <1>3, RoutingAssumption DEF RouteInv, ShapeInv
<1>7. SavingInv'
  BY <1>1, <1>2, <1>3, OtherSaving, SMT DEF RouteInv, Polled
<1>8. MoveInv'
  BY <1>1, <1>3, Fields DEF RouteInv, MoveInv
<1>9. EpochInv'
  BY <1>1, <1>2, <1>3 DEF RouteInv, Polled, EpochInv
<1>10. ClockInv'
  BY <1>2, <1>3 DEF RouteInv, Polled, ClockInv
<1>11. ReachInv'
  BY <1>3 DEF RouteInv, ReachInv, Covered
<1>12. PassedInv'
  BY <1>1, <1>2, <1>3, RoutingAssumption DEF RouteInv, Polled, PassedInv
<1>13. BoundaryInv'
  BY <1>3 DEF RouteInv, BoundaryInv, Fresh, Covered
<1>14. AnswerInv'
  BY <1>1, <1>2 DEF RouteInv, Polled, AnswerInv
<1>15. ReportInv'
  BY <1>1, <1>2, <1>3 DEF RouteInv, Polled, ReportInv
<1>16. KindInv' /\ JournalInv' /\ ChoiceInv' /\ ShownInv'
  BY <1>3 DEF RouteInv, KindInv, Running, JournalInv, ChoiceInv, Idle, At, NoAsk, Ask, ShownInv
<1> QED BY TypesNamed, <1>5, <1>6, <1>7, <1>8, <1>9, <1>10, <1>11, <1>12, <1>13, <1>14, <1>15,
    <1>16 DEF RouteInv

LEMMA PollClearedStep ==
  ASSUME RouteInv, NEW p \in Polls, PollCleared(p)
  PROVE  RouteInv'
<1>1. poll[p].at = "clearing" /\ restoredAt' = 0 /\ marking' = "nobody"
  BY DEF PollCleared
<1>2. disk' \in Disks /\ disk'.journal = disk.journal /\ disk'.marker = 0
  BY MarkerWritten DEF RouteInv, PollCleared
<1>3. Polled(p, "last", poll[p])
  BY PlaceDoes DEF RouteInv, PollCleared
<1>4. UNCHANGED <<saving, up, intent, local, transitioning, epoch, paused, trial, failures,
      localFailures, tick, asked, writer, published, socket, spell, report, clock, ops, crashes,
      choice>>
  BY DEF PollCleared, PollKeeps, route, world, bounds
<1> HIDE DEF PollCleared
<1>5. /\ disk' \in Disks
      /\ restoredAt' \in Nat
      /\ marking' \in Polls \cup {"nobody", "writer"}
      /\ poll' \in [Polls -> Refreshes]
  BY <1>1, <1>2, <1>3 DEF RouteInv, Polled
<1>6. Typed'
  BY <1>4, <1>5, TypesNamed DEF RouteInv, Typed
<1>7. ShapeInv'
  BY <1>1, <1>2, <1>4, RoutingAssumption DEF RouteInv, ShapeInv, PassedInv
<1>8. SavingInv'
  BY <1>1, <1>2, <1>3, <1>4, OtherSaving, SMT DEF RouteInv, Polled
<1>9. MoveInv'
  BY <1>1, <1>4, Fields DEF RouteInv, MoveInv
<1>10. EpochInv'
  BY <1>1, <1>3, <1>4 DEF RouteInv, Polled, EpochInv
<1>11. JournalInv'
  BY <1>2, <1>4 DEF RouteInv, JournalInv
<1>12. ClockInv'
  BY <1>1, <1>2, <1>3, <1>4, PlainTypes DEF RouteInv, Plain, Polled, ClockInv
<1>13. ReachInv'
  BY <1>1, <1>2, <1>4, PlainTypes DEF RouteInv, Plain, Covered, ReachInv, PassedInv, ClockInv
<1>14. PassedInv'
  BY <1>1, <1>3, PlainTypes DEF RouteInv, Plain, Polled, PassedInv
<1>15. BoundaryInv'
  BY <1>1, <1>2, <1>4, PlainTypes, Fields
    DEF RouteInv, Plain, BoundaryInv, Fresh, Covered, MoveInv, ClockInv, PassedInv
<1>16. AnswerInv'
  BY <1>3 DEF RouteInv, Polled, AnswerInv
<1>17. ReportInv'
  BY <1>1, <1>3, <1>4, PlainTypes DEF RouteInv, Plain, Polled, ReportInv, AnswerInv, PassedInv
<1>18. KindInv' /\ ChoiceInv' /\ ShownInv'
  BY <1>4 DEF RouteInv, KindInv, Running, ChoiceInv, Idle, At, NoAsk, Ask, ShownInv
<1> QED BY TypesNamed, <1>6, <1>7, <1>8, <1>9, <1>10, <1>11, <1>12, <1>13, <1>14, <1>15, <1>16,
    <1>17, <1>18 DEF RouteInv

LEMMA PollFailsStep ==
  ASSUME RouteInv, NEW p \in Polls, PollFails(p)
  PROVE  RouteInv'
<1>1. /\ poll[p].at \in {"read", "answered", "clear", "clearing", "last"}
      /\ published' = Nothing /\ marking' = IF marking = p THEN "nobody" ELSE marking
  BY DEF PollFails
<1>2. /\ disk' \in Disks /\ disk'.journal = disk.journal
      /\ (disk'.marker = disk.marker \/ (poll[p].at = "clearing" /\ disk'.marker = 0))
  <2>1. CASE poll[p].at = "clearing" /\ disk' = [disk EXCEPT !.marker = 0]
    BY <2>1, MarkerWritten DEF RouteInv
  <2>2. CASE disk' = disk
    <3>1. Kept
      BY <2>2, DiskSame DEF RouteInv
    <3> QED BY <3>1 DEF Kept
  <2> QED BY <2>1, <2>2 DEF PollFails
<1>3. /\ poll' \in [Polls -> Refreshes] /\ poll'[p] = NoPoll
      /\ \A q \in Polls \ {p} : poll'[q] = poll[q]
  BY EndedDoes DEF RouteInv, PollFails
<1>4. failures' \in 0..Limit /\ localFailures' \in 0..Limit
  BY RoutingAssumption, TypesNamed, SMTT(20) DEF RouteInv, Typed, PollFails, Count
<1>5. UNCHANGED <<saving, up, intent, restoredAt, local, transitioning, epoch, paused, trial, tick,
      asked, writer, socket, spell, report, clock, ops, crashes, choice>>
  BY DEF PollFails, PollKeeps, route, world, bounds, memory
<1> HIDE DEF PollFails
<1>6. /\ disk' \in Disks
      /\ marking' \in Polls \cup {"nobody", "writer"}
      /\ published' \in Shows
      /\ failures' \in 0..Limit
      /\ localFailures' \in 0..Limit
      /\ poll' \in [Polls -> Refreshes]
  BY <1>1, <1>2, <1>3, <1>4, <1>5, TypesNamed, Constants DEF RouteInv, Typed
<1>7. Typed'
  BY <1>5, <1>6, TypesNamed DEF RouteInv, Typed
<1>8. ShapeInv'
  BY <1>1, <1>5, RoutingAssumption, Fields DEF RouteInv, ShapeInv, MoveInv
<1>9. SavingInv'
  BY <1>1, <1>2, <1>3, <1>4, <1>5, OtherSaving, SMT DEF RouteInv, Polled
<1>10. MoveInv'
  BY <1>1, <1>5, Fields DEF RouteInv, MoveInv
<1>11. EpochInv'
  BY <1>3, <1>5, Fields DEF RouteInv, EpochInv
<1>12. KindInv'
  BY <1>1, Fields DEF RouteInv, KindInv
<1>13. JournalInv'
  BY <1>2, <1>5 DEF RouteInv, JournalInv
<1>14. ClockInv'
  BY <1>2, <1>3, <1>5, PlainTypes, Fields DEF RouteInv, Plain, ClockInv
<1>15. ReachInv'
  BY <1>2, <1>5 DEF RouteInv, ReachInv, Covered
<1>16. PassedInv'
  BY <1>1, <1>3, <1>5, Fields DEF RouteInv, PassedInv
<1>17. BoundaryInv'
  BY <1>2, <1>5, PlainTypes, Fields
    DEF RouteInv, Plain, BoundaryInv, Fresh, Covered, MoveInv, ClockInv, PassedInv
<1>18. AnswerInv'
  BY <1>3, Fields DEF RouteInv, AnswerInv
<1>19. ReportInv'
  BY <1>3, <1>5, Fields DEF RouteInv, ReportInv
<1>20. ShownInv'
  BY <1>1, Fields DEF RouteInv, ShownInv
<1>21. ChoiceInv'
  BY <1>5 DEF RouteInv, ChoiceInv, Idle, At, NoAsk, Ask
<1> QED BY TypesNamed, <1>7, <1>8, <1>9, <1>10, <1>11, <1>12, <1>13, <1>14, <1>15, <1>16, <1>17,
    <1>18, <1>19, <1>20, <1>21 DEF RouteInv

LEMMA PollLocalStep ==
  ASSUME RouteInv, NEW p \in Polls, PollLocal(p)
  PROVE  RouteInv'
<1>1. poll[p].at = "read" /\ poll[p].kind = "tcp" /\ Current(p)
  BY DEF PollLocal
<1>2. /\ published' \in Shows /\ published'.kind = "tcp" /\ published'.spell = spell
      /\ localFailures' = 0
  BY PlainTypes, SMT DEF RouteInv, Plain, PollLocal, Shows
<1>3. /\ poll' \in [Polls -> Refreshes] /\ poll'[p] = NoPoll
      /\ \A q \in Polls \ {p} : poll'[q] = poll[q]
  BY EndedDoes DEF RouteInv, PollLocal
<1>4. UNCHANGED <<disk, saving, up, intent, restoredAt, local, transitioning, epoch, paused, trial,
      failures, tick, asked, writer, marking, socket, spell, report, clock, ops, crashes, choice>>
  BY DEF PollLocal, PollKeeps, route, world, bounds, durable, memory
<1> HIDE DEF PollLocal
<1>5. /\ published' \in Shows
      /\ localFailures' \in 0..Limit
      /\ poll' \in [Polls -> Refreshes]
  BY <1>2, <1>3, RoutingAssumption DEF RouteInv
<1>6. Typed'
  BY <1>4, <1>5, TypesNamed DEF RouteInv, Typed
<1>7. SavingInv'
  BY <1>1, <1>2, <1>3, <1>4, OtherSaving, SMT DEF RouteInv, Polled
<1>8. MoveInv'
  BY <1>1, <1>4 DEF RouteInv, Current, MoveInv, ShapeInv, EpochInv
<1>9. EpochInv'
  BY <1>3, <1>4, Fields DEF RouteInv, EpochInv
<1>10. KindInv'
  BY <1>1, <1>2, <1>4 DEF RouteInv, Current, KindInv, EpochInv
<1>11. ClockInv'
  BY <1>3, <1>4, PlainTypes, Fields DEF RouteInv, Plain, ClockInv
<1>12. PassedInv'
  BY <1>3, <1>4, Fields DEF RouteInv, PassedInv
<1>13. AnswerInv'
  BY <1>3, Fields DEF RouteInv, AnswerInv
<1>14. ReportInv'
  BY <1>3, <1>4, Fields DEF RouteInv, ReportInv
<1>15. ShownInv'
  BY <1>2 DEF RouteInv, ShownInv
<1>16. ShapeInv' /\ JournalInv' /\ ChoiceInv' /\ ReachInv' /\ BoundaryInv'
  BY <1>4 DEF RouteInv, ShapeInv, JournalInv, ChoiceInv, ReachInv, Covered, BoundaryInv, Fresh
<1> QED BY TypesNamed, <1>6, <1>7, <1>8, <1>9, <1>10, <1>11, <1>12, <1>13, <1>14, <1>15, <1>16
        DEF RouteInv

LEMMA PollReturnsStep ==
  ASSUME RouteInv, NEW p \in Polls, PollReturns(p)
  PROVE  RouteInv'
<1>1. poll[p].at = "last" /\ Current(p)
  BY DEF PollReturns
<1>2. \/ /\ saving' = Append(saving, Hint(p, FALSE)) /\ Polled(p, "hint", poll[p])
         /\ UNCHANGED <<published, failures, trial>>
      \/ /\ /\ published' = [kind |-> "cloud", spell |-> poll[p].report.spell] /\ failures' = 0
            /\ trial' = "none"
         /\ poll' \in [Polls -> Refreshes] /\ poll'[p] = NoPoll
         /\ UNCHANGED saving /\ \A q \in Polls \ {p} : poll'[q] = poll[q]
  <2>1. CASE Hints(FALSE)
    BY <2>1, PlaceDoes DEF RouteInv, PollReturns, SaveHint, Hint
  <2>2. CASE ~Hints(FALSE)
    BY <2>2, EndedDoes DEF RouteInv, PollReturns, Publish
  <2> QED BY <2>1, <2>2
<1>3. UNCHANGED <<disk, up, intent, restoredAt, local, transitioning, epoch, paused, localFailures,
      tick, asked, writer, marking, socket, spell, report, clock, ops, crashes, choice>>
  BY DEF PollReturns, PollKeeps, route, world, bounds, memory
<1> HIDE DEF PollReturns
<1>4. saving' \in Seq(Entries) /\ SavingInv'
<2>1. CASE saving' = Append(saving, Hint(p, FALSE)) /\ Polled(p, "hint", poll[p])
    <3>1. Hint(p, FALSE) \in Entries /\ Hint(p, FALSE).who = p /\ p # "writer"
      BY HintSaved, RoutingAssumption DEF RoutingAssumption
    <3>2. /\ poll[p].at # "hint" /\ poll'[p].at = "hint" /\ UNCHANGED writer
          /\ \A q \in Polls \ {p} : poll'[q] = poll[q]
      BY <2>1, <1>1, <1>2, <1>3 DEF Polled
    <3> QED BY <2>1, <3>1, <3>2, AppendSaving DEF RouteInv
  <2>2. CASE UNCHANGED saving /\ \A q \in Polls \ {p} : poll'[q] = poll[q]
    <3>1. saving \in Seq(Entries)
      BY TypesNamed DEF RouteInv, Typed
    <3>2. UNCHANGED <<saving, writer>> /\ poll[p].at # "hint"
      BY <2>2, <1>1, <1>2, <1>3
    <3>3. SavingInv'
      BY <2>2, <3>2, OtherSaving DEF RouteInv
    <3>4. saving' = saving
      BY <2>2
    <3> QED BY <3>1, <3>3, <3>4
  <2> QED BY <1>2, <2>1, <2>2
<1>5. /\ trial' \in {"none", "running", "expired"}
      /\ published' \in Shows
      /\ failures' \in 0..Limit
      /\ poll' \in [Polls -> Refreshes]
<2>1. poll[p].report.spell \in Nat
    BY TypesNamed, SMT DEF RouteInv, Typed, Refreshes, Stamps
  <2>2. [kind |-> "cloud", spell |-> poll[p].report.spell] \in Shows
    BY <2>1, SMT DEF Shows
  <2>3. 0 \in 0..Limit
    BY RoutingAssumption, SMT DEF RoutingAssumption
  <2> QED BY <1>1, <1>2, <1>3, <1>4, <2>2, <2>3, TypesNamed, Zenon DEF RouteInv, Typed, Polled
<1>6. Typed'
  BY <1>3, <1>4, <1>5, TypesNamed DEF RouteInv, Typed
<1>7. SavingInv'
<2>1. CASE saving' = Append(saving, Hint(p, FALSE)) /\ Polled(p, "hint", poll[p])
    <3>1. Hint(p, FALSE) \in Entries /\ Hint(p, FALSE).who = p /\ p # "writer"
      BY HintSaved, RoutingAssumption DEF RoutingAssumption
    <3>2. /\ poll[p].at # "hint" /\ poll'[p].at = "hint" /\ UNCHANGED writer
          /\ \A q \in Polls \ {p} : poll'[q] = poll[q]
      BY <2>1, <1>1, <1>2, <1>3, <1>4 DEF Polled
    <3> QED BY <2>1, <3>1, <3>2, AppendSaving DEF RouteInv
  <2>2. CASE UNCHANGED saving /\ \A q \in Polls \ {p} : poll'[q] = poll[q]
    <3>1. saving \in Seq(Entries)
      BY TypesNamed DEF RouteInv, Typed
    <3>2. UNCHANGED <<saving, writer>> /\ poll[p].at # "hint"
      BY <2>2, <1>1, <1>2, <1>3, <1>4
    <3>3. SavingInv'
      BY <2>2, <3>2, OtherSaving DEF RouteInv
    <3>4. saving' = saving
      BY <2>2
    <3> QED BY <3>1, <3>3, <3>4
  <2> QED BY <1>2, <2>1, <2>2
<1>8. MoveInv'
  <2>1. CASE /\ Polled(p, "hint", poll[p]) /\ UNCHANGED <<published, failures, trial>>
    BY <1>1, <1>3 DEF RouteInv, Running, Current, MoveInv
  <2>2. CASE /\ published' = [kind |-> "cloud", spell |-> poll[p].report.spell]
             /\ poll' \in [Polls -> Refreshes] /\ poll'[p] = NoPoll
             /\ \A q \in Polls \ {p} : poll'[q] = poll[q]
    BY <1>1, <1>3 DEF RouteInv, Running, Current, MoveInv
  <2> QED BY <1>2, <2>1, <2>2
<1>9. EpochInv'
  <2>1. CASE /\ Polled(p, "hint", poll[p]) /\ UNCHANGED <<published, failures, trial>>
    BY <2>1, <1>1, <1>3 DEF RouteInv, Polled, EpochInv
  <2>2. CASE /\ published' = [kind |-> "cloud", spell |-> poll[p].report.spell]
             /\ poll' \in [Polls -> Refreshes] /\ poll'[p] = NoPoll
             /\ \A q \in Polls \ {p} : poll'[q] = poll[q]
    BY <2>2, <1>3, Fields DEF RouteInv, EpochInv
  <2> QED BY <1>2, <2>1, <2>2
<1>10. KindInv'
  <2>1. CASE /\ Polled(p, "hint", poll[p]) /\ UNCHANGED <<published, failures, trial>>
    BY <2>1, <1>3 DEF RouteInv, Running, KindInv
  <2>2. CASE /\ published' = [kind |-> "cloud", spell |-> poll[p].report.spell]
             /\ poll' \in [Polls -> Refreshes] /\ poll'[p] = NoPoll
             /\ \A q \in Polls \ {p} : poll'[q] = poll[q]
    BY <2>2, <1>1, <1>3 DEF RouteInv, Current, KindInv, EpochInv
  <2> QED BY <1>2, <2>1, <2>2
<1>11. ClockInv'
  <2>1. CASE /\ Polled(p, "hint", poll[p]) /\ UNCHANGED <<published, failures, trial>>
    BY <2>1, <1>3 DEF RouteInv, Polled, ClockInv
  <2>2. CASE /\ published' = [kind |-> "cloud", spell |-> poll[p].report.spell]
             /\ poll' \in [Polls -> Refreshes] /\ poll'[p] = NoPoll
             /\ \A q \in Polls \ {p} : poll'[q] = poll[q]
    BY <2>2, <1>3, PlainTypes, Fields DEF RouteInv, Plain, ClockInv
  <2> QED BY <1>2, <2>1, <2>2
<1>12. PassedInv'
  <2>1. CASE /\ Polled(p, "hint", poll[p]) /\ UNCHANGED <<published, failures, trial>>
    BY <2>1, <1>3 DEF RouteInv, Polled, PassedInv
  <2>2. CASE /\ published' = [kind |-> "cloud", spell |-> poll[p].report.spell]
             /\ poll' \in [Polls -> Refreshes] /\ poll'[p] = NoPoll
             /\ \A q \in Polls \ {p} : poll'[q] = poll[q]
    BY <2>2, <1>3, Fields DEF RouteInv, PassedInv
  <2> QED BY <1>2, <2>1, <2>2
<1>13. AnswerInv'
  <2>1. CASE /\ Polled(p, "hint", poll[p]) /\ UNCHANGED <<published, failures, trial>>
    BY <2>1 DEF RouteInv, Polled, AnswerInv
  <2>2. CASE /\ published' = [kind |-> "cloud", spell |-> poll[p].report.spell]
             /\ poll' \in [Polls -> Refreshes] /\ poll'[p] = NoPoll
             /\ \A q \in Polls \ {p} : poll'[q] = poll[q]
    BY <2>2, Fields DEF RouteInv, AnswerInv
  <2> QED BY <1>2, <2>1, <2>2
<1>14. ReportInv'
  <2>1. CASE /\ Polled(p, "hint", poll[p]) /\ UNCHANGED <<published, failures, trial>>
    BY <2>1, <1>1, <1>3 DEF RouteInv, Polled, ReportInv
  <2>2. CASE /\ published' = [kind |-> "cloud", spell |-> poll[p].report.spell]
             /\ poll' \in [Polls -> Refreshes] /\ poll'[p] = NoPoll
             /\ \A q \in Polls \ {p} : poll'[q] = poll[q]
    BY <2>2, <1>3, Fields DEF RouteInv, ReportInv
  <2> QED BY <1>2, <2>1, <2>2
<1>15. ShownInv'
  <2>1. CASE /\ Polled(p, "hint", poll[p]) /\ UNCHANGED <<published, failures, trial>>
    BY <2>1, <1>3 DEF RouteInv, Running, ShownInv
  <2>2. CASE /\ published' = [kind |-> "cloud", spell |-> poll[p].report.spell]
             /\ poll' \in [Polls -> Refreshes] /\ poll'[p] = NoPoll
             /\ \A q \in Polls \ {p} : poll'[q] = poll[q]
    BY <2>2, <1>1, <1>3 DEF RouteInv, Current, ShownInv, ReportInv
  <2> QED BY <1>2, <2>1, <2>2
<1>16. ShapeInv' /\ JournalInv' /\ ChoiceInv' /\ ReachInv' /\ BoundaryInv'
  BY <1>3 DEF RouteInv, ShapeInv, JournalInv, ChoiceInv, ReachInv, Covered, BoundaryInv, Fresh
<1> QED BY TypesNamed, <1>6, <1>7, <1>8, <1>9, <1>10, <1>11, <1>12, <1>13, <1>14, <1>15, <1>16
        DEF RouteInv

-----------------------------------------------------------------------------
(* The wallbox reports, over TCP and to SEMS. *)

LEMMA NativeObservationStep ==
  ASSUME RouteInv, NativeObservation
  PROVE  RouteInv'
<1>1. Running /\ local /\ ~transitioning
  BY DEF NativeObservation
<1>2. published' \in Shows /\ published'.kind = "tcp" /\ published'.spell = spell
  BY PlainTypes, SMT DEF RouteInv, Plain, NativeObservation, Shows
<1>3. UNCHANGED <<disk, saving, up, intent, restoredAt, local, transitioning, epoch, paused, trial,
      failures, localFailures, tick, asked, writer, marking, poll, socket, spell, report, clock,
      ops, crashes, choice>>
  BY DEF NativeObservation, durable, memory, route, timers, world, bounds
<1> HIDE DEF NativeObservation
<1>4. /\ published' \in Shows
  BY <1>2 DEF RouteInv
<1>5. Typed'
  BY <1>3, <1>4, TypesNamed DEF RouteInv, Typed
<1>6. MoveInv'
  BY <1>1, <1>3 DEF RouteInv, MoveInv, ShapeInv
<1>7. KindInv'
  BY <1>1, <1>2, <1>3 DEF RouteInv, KindInv
<1>8. ShownInv'
  BY <1>2 DEF RouteInv, ShownInv
<1>9. /\ ShapeInv' /\ SavingInv' /\ EpochInv' /\ JournalInv' /\ ChoiceInv' /\ ClockInv' /\ ReachInv'
      /\ PassedInv' /\ BoundaryInv' /\ AnswerInv' /\ ReportInv'
  BY <1>3 DEF RouteInv, ShapeInv, SavingInv, EpochInv, JournalInv, ChoiceInv, ClockInv, ReachInv,
     Covered, PassedInv, BoundaryInv, Fresh, AnswerInv, ReportInv
<1> QED BY TypesNamed, <1>5, <1>6, <1>7, <1>8, <1>9 DEF RouteInv

LEMMA ReportStep ==
  ASSUME RouteInv, Report
  PROVE  RouteInv'
<1>1. socket = "cloud"
  BY DEF Report
<1>2. report' \in Stamps /\ report'.time = clock /\ report'.spell = spell
  BY PlainTypes, SMT DEF RouteInv, Plain, Report, Stamps
<1>3. UNCHANGED <<disk, saving, up, intent, restoredAt, local, transitioning, epoch, paused, trial,
      failures, localFailures, tick, asked, writer, marking, poll, published, socket, spell, clock,
      ops, crashes, choice>>
  BY DEF Report, durable, memory, route, timers, bounds
<1> HIDE DEF Report
<1>4. /\ report' \in Stamps
  BY <1>2 DEF RouteInv
<1>5. Typed'
  BY <1>3, <1>4, TypesNamed DEF RouteInv, Typed
<1>6. MoveInv'
  BY <1>3 DEF RouteInv, MoveInv
<1>7. ClockInv'
  BY <1>2, <1>3, PlainTypes DEF RouteInv, Plain, ClockInv
<1>8. ReachInv'
  BY <1>1, <1>3 DEF RouteInv, ReachInv
<1>9. PassedInv'
  BY <1>3 DEF RouteInv, PassedInv
<1>10. BoundaryInv'
  BY <1>2, <1>3 DEF RouteInv, BoundaryInv, Fresh
<1>11. AnswerInv'
  BY <1>3 DEF RouteInv, AnswerInv
<1>12. ReportInv'
  BY <1>3 DEF RouteInv, ReportInv
<1>13. ShapeInv' /\ SavingInv' /\ EpochInv' /\ KindInv' /\ JournalInv' /\ ChoiceInv' /\ ShownInv'
  BY <1>3 DEF RouteInv, ShapeInv, SavingInv, EpochInv, KindInv, Running, JournalInv, ChoiceInv,
     ShownInv
<1> QED BY TypesNamed, <1>5, <1>6, <1>7, <1>8, <1>9, <1>10, <1>11, <1>12, <1>13 DEF RouteInv

-----------------------------------------------------------------------------
(* Saves of the preference. *)

LEMMA ChoiceStoredStep == ASSUME RouteInv, ChoiceStored PROVE RouteInv'
<1>1. saving # <<>> /\ Head(saving).who = "writer" /\ saving' = Tail(saving)
  BY DEF ChoiceStored, Saving, Stored, MaybeStored
<1>2. Head(saving).intent \in Preferences
  BY <1>1, HeadSaved DEF RouteInv
<1>3. Kept
  BY <1>2, IntentWritten DEF RouteInv, ChoiceStored, Stored
<1>4. writer.at = "save" /\ intent' \in Preferences
  BY <1>2 DEF ChoiceStored
<1>5. \E a \in Askers : a.who = writer.who /\ a.target = writer.target /\ Leaves(a)
  BY RouteDoes, Asked, PlainTypes, TypesNamed, SMT DEF RouteInv, ChoiceStored, Typed, Writers
<1>6. writer.who = "user"
  BY <1>4 DEF RouteInv, ShapeInv
<1>7. UNCHANGED <<restoredAt, local, paused, trial, failures, localFailures, asked, marking, poll,
      socket, spell, report, clock, ops, crashes>>
  BY DEF ChoiceStored, timers, world, bounds
<1> HIDE DEF ChoiceStored
<1>8. saving' \in Seq(Entries) /\ SavingInv'
  BY <1>1, <1>7, TailSaving DEF RouteInv
<1>9. /\ Moved
      /\ disk' \in Disks
      /\ intent' \in Preferences
      /\ transitioning' \in BOOLEAN
      /\ epoch' \in Nat
      /\ published' \in Shows
  BY <1>3, <1>4, <1>5, MovedTypes DEF RouteInv, Kept
<1>10. Typed'
  BY <1>7, <1>8, <1>9, TypesNamed DEF RouteInv, Typed, Moved
<1>11. ShapeInv'
  BY <1>4, <1>5, <1>7, Fields DEF RouteInv, Done, Goes, Leaves, Takes, ShapeInv
<1>12. SavingInv'
  BY <1>8
<1>13. MoveInv'
  BY <1>4, <1>5, Fields DEF RouteInv, Done, Goes, Leaves, Takes, Moves, MoveInv, ShapeInv
<1>14. EpochInv'
  BY <1>5, <1>7, PlainTypes DEF RouteInv, Plain, Leaves, EpochInv
<1>15. KindInv'
  BY <1>5, <1>7, Fields DEF RouteInv, Done, Leaves, Running, KindInv, ShapeInv
<1>16. JournalInv'
  BY <1>3, <1>5, <1>7, Fields DEF RouteInv, Done, Goes, Leaves, Kept, JournalInv, ShapeInv
<1>17. ChoiceInv'
  BY <1>5, <1>6, <1>7, Fields DEF RouteInv, Done, Goes, Leaves, ChoiceInv
<1>18. ClockInv'
  BY <1>3, <1>7 DEF RouteInv, Kept, ClockInv
<1>19. ReachInv'
  BY <1>3, <1>4, <1>5, <1>7, Fields
    DEF RouteInv, Done, Goes, Leaves, Kept, ReachInv, Covered, JournalInv
<1>20. PassedInv'
  BY <1>5, <1>7, PlainTypes, SMTT(20) DEF RouteInv, Plain, Leaves, PassedInv, EpochInv
<1>21. BoundaryInv'
  BY <1>3, <1>4, <1>5, <1>7, Fields
    DEF RouteInv, Done, Goes, Leaves, Kept, BoundaryInv, Fresh, Covered, ShapeInv
<1>22. ReportInv'
  BY <1>5, <1>7, PlainTypes, SMTT(20) DEF RouteInv, Plain, Leaves, ReportInv, EpochInv
<1>23. ShownInv'
  BY <1>5, <1>7, Fields DEF RouteInv, Done, Leaves, Running, ShownInv, ShapeInv
<1>24. AnswerInv'
  BY <1>7 DEF RouteInv, AnswerInv
<1> QED BY TypesNamed, <1>10, <1>11, <1>12, <1>13, <1>14, <1>15, <1>16, <1>17, <1>18, <1>19, <1>20,
    <1>21, <1>22, <1>23, <1>24 DEF RouteInv

LEMMA HintStoredStep == ASSUME RouteInv, HintStored PROVE RouteInv'
<1>1. saving # <<>> /\ Head(saving).who = "writer" /\ saving' = Tail(saving)
  BY DEF HintStored, Saving, Stored, MaybeStored
<1>2. Head(saving).intent \in Preferences
  BY <1>1, HeadSaved DEF RouteInv
<1>3. Kept
  BY <1>2, IntentWritten DEF RouteInv, HintStored, Stored
<1>4. writer.at = "hint" /\ intent' \in Preferences /\ ~intent'.manual
  <2>1. writer.at = "hint" /\ ~intent.manual
    BY DEF RouteInv, ShapeInv, HintStored
  <2> QED BY <2>1, Automatic DEF RouteInv, HintStored
<1>5. \/ writer.who = "boot" /\ Goes(writer, "mark") /\ UNCHANGED transitioning
      \/ writer.who # "boot" /\ Done(writer) /\ ~transitioning' /\ transitioning' \in BOOLEAN
  <2>1. CASE writer.who = "boot"
    BY <2>1, ProceedDoes DEF RouteInv, HintStored, Places
  <2>2. CASE writer.who # "boot"
    BY <2>2, FinishDoes DEF RouteInv, HintStored
  <2> QED BY <2>1, <2>2
<1>6. UNCHANGED <<restoredAt, local, epoch, paused, trial, failures, localFailures, asked, marking,
      poll, published, socket, spell, report, clock, ops, crashes>>
  BY DEF HintStored, timers, world, bounds
<1> HIDE DEF HintStored
<1>7. saving' \in Seq(Entries) /\ SavingInv'
  BY <1>1, <1>6, TailSaving DEF RouteInv
<1>8. /\ Moved
      /\ disk' \in Disks
      /\ intent' \in Preferences
      /\ transitioning' \in BOOLEAN
  BY <1>3, <1>4, <1>5, PlainTypes DEF RouteInv, Plain, Done, Goes, Kept
<1>9. Typed'
  BY <1>6, <1>7, <1>8, TypesNamed DEF RouteInv, Typed, Moved
<1>10. ShapeInv'
  BY <1>4, <1>5, <1>6, Fields DEF RouteInv, Done, Goes, Takes, ShapeInv
<1>11. SavingInv'
  BY <1>7
<1>12. MoveInv'
  BY <1>5, <1>6, Fields DEF RouteInv, Done, Goes, Takes, Moves, MoveInv, ShapeInv
<1>13. EpochInv'
  BY <1>5, <1>6 DEF RouteInv, EpochInv
<1>14. KindInv'
  BY <1>5, <1>6, Fields DEF RouteInv, Done, Running, KindInv, ShapeInv, MoveInv
<1>15. JournalInv'
  BY <1>3, <1>4, <1>5, <1>6, Fields DEF RouteInv, Done, Goes, Kept, JournalInv, ShapeInv
<1>16. ChoiceInv'
  BY <1>4, <1>5, <1>6 DEF RouteInv, Done, Goes, ChoiceInv, ShapeInv
<1>17. ClockInv'
  BY <1>3, <1>6 DEF RouteInv, Kept, ClockInv
<1>18. ReachInv'
  BY <1>3, <1>4, <1>5, <1>6, Fields DEF RouteInv, Done, Goes, Kept, ReachInv, Covered, ShapeInv
<1>19. BoundaryInv'
  BY <1>3, <1>4, <1>5, <1>6, Fields
    DEF RouteInv, Done, Goes, Kept, BoundaryInv, Fresh, Covered, ShapeInv
<1>20. ShownInv'
  BY <1>5, <1>6, Fields DEF RouteInv, Done, Running, ShownInv, ShapeInv, MoveInv
<1>21. PassedInv' /\ AnswerInv' /\ ReportInv'
  BY <1>6 DEF RouteInv, PassedInv, AnswerInv, ReportInv
<1> QED BY TypesNamed, <1>9, <1>10, <1>11, <1>12, <1>13, <1>14, <1>15, <1>16, <1>17, <1>18, <1>19,
    <1>20, <1>21 DEF RouteInv

LEMMA WriterSaveFailsStep == ASSUME RouteInv, WriterSaveFails PROVE RouteInv'
<1>1. saving # <<>> /\ Head(saving).who = "writer" /\ saving' = Tail(saving)
  BY DEF WriterSaveFails, Saving, Stored, MaybeStored
<1>2. Head(saving).intent \in Preferences
  BY <1>1, HeadSaved DEF RouteInv
<1>3. Kept
  BY <1>2, IntentWritten, DiskSame DEF RouteInv, WriterSaveFails, MaybeStored
<1>4. Failed(writer) /\ ~transitioning' /\ transitioning' \in BOOLEAN
  BY FinishDoes DEF RouteInv, WriterSaveFails
<1>5. writer.at \in {"save", "hint"}
  BY <1>1, HeadSaved, SMT DEF RouteInv, SavingInv, Asks
<1>6. UNCHANGED <<intent, restoredAt, local, epoch, paused, trial, failures, localFailures, asked,
      marking, poll, published, socket, spell, report, clock, ops, crashes>>
  BY DEF WriterSaveFails, memory, timers, world, bounds
<1> HIDE DEF WriterSaveFails
<1>7. saving' \in Seq(Entries) /\ SavingInv'
  BY <1>1, <1>6, TailSaving DEF RouteInv
<1>8. /\ Moved
      /\ disk' \in Disks
      /\ transitioning' \in BOOLEAN
  BY <1>3, <1>4 DEF RouteInv, Failed, Kept
<1>9. Typed'
  BY <1>6, <1>7, <1>8, TypesNamed DEF RouteInv, Typed, Moved
<1>10. ShapeInv'
  BY <1>4, <1>5, <1>6, Fields DEF RouteInv, Failed, Takes, ShapeInv
<1>11. SavingInv'
  BY <1>7
<1>12. MoveInv'
  BY <1>4, <1>6, Fields DEF RouteInv, Failed, Takes, Moves, MoveInv
<1>13. EpochInv'
  BY <1>4, <1>6 DEF RouteInv, EpochInv
<1>14. KindInv'
  BY <1>5, <1>6, PlainTypes, Fields DEF RouteInv, Plain, Running, KindInv, ShapeInv, MoveInv
<1>15. JournalInv'
  BY <1>3, <1>4, <1>6, Fields DEF RouteInv, Failed, Kept, JournalInv
<1>16. ChoiceInv'
  BY <1>4, <1>6 DEF RouteInv, Failed, ChoiceInv, ShapeInv
<1>17. ClockInv'
  BY <1>3, <1>6 DEF RouteInv, Kept, ClockInv
<1>18. ReachInv'
  BY <1>3, <1>4, <1>5, <1>6, Fields DEF RouteInv, Failed, Kept, ReachInv, Covered, ShapeInv
<1>19. BoundaryInv'
  BY <1>3, <1>4, <1>5, <1>6, Fields
    DEF RouteInv, Failed, Kept, BoundaryInv, Fresh, Covered, ShapeInv
<1>20. ShownInv'
  BY <1>5, <1>6, PlainTypes, Fields DEF RouteInv, Plain, Running, ShownInv, ShapeInv, MoveInv
<1>21. PassedInv' /\ AnswerInv' /\ ReportInv'
  BY <1>6 DEF RouteInv, PassedInv, AnswerInv, ReportInv
<1> QED BY TypesNamed, <1>9, <1>10, <1>11, <1>12, <1>13, <1>14, <1>15, <1>16, <1>17, <1>18, <1>19,
    <1>20, <1>21 DEF RouteInv

LEMMA HintWithdrawnStep ==
  ASSUME RouteInv, NEW p \in Polls, HintWithdrawn(p)
  PROVE  RouteInv'
<1>1. saving # <<>> /\ Head(saving).who = p /\ saving' = Tail(saving)
  BY DEF HintWithdrawn, Saving, Stored, MaybeStored
<1>2. Head(saving).intent \in Preferences
  BY <1>1, HeadSaved DEF RouteInv
<1>3. Kept
  BY <1>2, IntentWritten DEF RouteInv, HintWithdrawn, Stored
<1>4. /\ poll' \in [Polls -> Refreshes] /\ poll'[p] = NoPoll
      /\ \A q \in Polls \ {p} : poll'[q] = poll[q]
  BY EndedDoes DEF RouteInv, HintWithdrawn
<1>5. intent' \in Preferences /\ intent'.manual = intent.manual
  BY Automatic DEF RouteInv, HintWithdrawn
<1>6. \/ /\ Current(p) /\ published' = [kind |-> "cloud", spell |-> poll[p].report.spell]
         /\ failures' = 0 /\ trial' = "none"
      \/ published' = Nothing /\ UNCHANGED <<failures, trial>>
  BY DEF HintWithdrawn, Publish
<1>7. UNCHANGED <<up, restoredAt, local, transitioning, epoch, paused, localFailures, tick, asked,
      writer, marking, socket, spell, report, clock, ops, crashes, choice>>
  BY DEF HintWithdrawn, PollKeeps, route, world, bounds
<1> HIDE DEF HintWithdrawn
<1>8. saving' \in Seq(Entries) /\ SavingInv'
  BY <1>1, <1>4, <1>7, TailSaving DEF RouteInv
<1>9. /\ disk' \in Disks
      /\ intent' \in Preferences
      /\ trial' \in {"none", "running", "expired"}
      /\ published' \in Shows
      /\ failures' \in 0..Limit
      /\ poll' \in [Polls -> Refreshes]
<2>1. poll[p].report.spell \in Nat
    BY TypesNamed, SMT DEF RouteInv, Typed, Refreshes, Stamps
  <2>2. [kind |-> "cloud", spell |-> poll[p].report.spell] \in Shows
    BY <2>1, SMT DEF Shows
  <2>3. 0 \in 0..Limit
    BY RoutingAssumption, SMT DEF RoutingAssumption
  <2> QED BY <1>3, <1>4, <1>5, <1>6, <2>2, <2>3, TypesNamed, Constants, Zenon
          DEF RouteInv, Typed, Kept
<1>10. Typed'
  BY <1>7, <1>8, <1>9, TypesNamed DEF RouteInv, Typed
<1>11. ShapeInv'
  BY <1>3, <1>5, <1>7 DEF RouteInv, Kept, ShapeInv
<1>12. SavingInv'
  BY <1>8
<1>13. MoveInv'
  BY <1>4, <1>6, <1>7 DEF RouteInv, Running, Current, MoveInv
<1>14. EpochInv'
  BY <1>4, <1>7, Fields, SMTT(20) DEF RouteInv, EpochInv
<1>15. KindInv'
<2>1. CASE Current(p) /\ published'.kind = "cloud"
    <3>1. poll[p].at = "hint"
      BY <1>1, RoutingAssumption, HeadSaved DEF RouteInv, SavingInv, RoutingAssumption
    <3>2. ~local
      BY <2>1, <3>1 DEF RouteInv, EpochInv, Current
    <3> QED BY <1>7, <2>1, <3>2, SMT DEF KindInv, Running
  <2>2. CASE published' = Nothing
    BY <2>2, Fields, SMT DEF KindInv
  <2>3. [kind |-> "cloud", spell |-> poll[p].report.spell].kind = "cloud"
    BY SMT
  <2> QED BY <1>6, <2>1, <2>2, <2>3
<1>16. JournalInv'
  BY <1>3, <1>7 DEF RouteInv, Kept, JournalInv
<1>17. ClockInv'
  BY <1>3, <1>4, <1>7, PlainTypes, Fields DEF RouteInv, Plain, Kept, ClockInv
<1>18. ReachInv'
  BY <1>3, <1>7 DEF RouteInv, Kept, ReachInv, Covered
<1>19. PassedInv'
  BY <1>4, <1>7, Fields, SMTT(20) DEF RouteInv, PassedInv
<1>20. BoundaryInv'
  BY <1>3, <1>7 DEF RouteInv, Kept, BoundaryInv, Fresh, Covered
<1>21. AnswerInv'
  BY <1>4, Fields, SMTT(20) DEF RouteInv, AnswerInv
<1>22. ReportInv'
  BY <1>4, <1>7, Fields, SMTT(20) DEF RouteInv, ReportInv
<1>23. ShownInv'
<2>1. CASE ~SavesFail /\ Current(p) /\ published'.spell = poll[p].report.spell
    <3>1. poll[p].at = "hint"
      BY <1>1, RoutingAssumption, HeadSaved DEF RouteInv, SavingInv, RoutingAssumption
    <3>2. poll[p].report.spell = spell
      BY <2>1, <3>1 DEF RouteInv, ReportInv, Current
    <3> QED BY <1>7, <2>1, <3>2 DEF ShownInv
  <2>2. CASE published' = Nothing
    BY <2>2, Fields, SMT DEF ShownInv
  <2>3. [kind |-> "cloud", spell |-> poll[p].report.spell].spell = poll[p].report.spell
    BY SMT
  <2> QED BY <1>6, <2>1, <2>2, <2>3 DEF ShownInv
<1>24. ChoiceInv'
  BY <1>7 DEF RouteInv, ChoiceInv, Idle, At, NoAsk, Ask
<1> QED BY TypesNamed, <1>10, <1>11, <1>12, <1>13, <1>14, <1>15, <1>16, <1>17, <1>18, <1>19, <1>20,
    <1>21, <1>22, <1>23, <1>24 DEF RouteInv

LEMMA PollSaveFailsStep ==
  ASSUME RouteInv, NEW p \in Polls, PollSaveFails(p)
  PROVE  RouteInv'
<1>1. saving # <<>> /\ Head(saving).who = p /\ saving' = Tail(saving)
  BY DEF PollSaveFails, Saving, Stored, MaybeStored
<1>2. Head(saving).intent \in Preferences
  BY <1>1, HeadSaved DEF RouteInv
<1>3. Kept
  BY <1>2, IntentWritten, DiskSame DEF RouteInv, PollSaveFails, MaybeStored
<1>4. /\ poll' \in [Polls -> Refreshes] /\ poll'[p] = NoPoll
      /\ \A q \in Polls \ {p} : poll'[q] = poll[q]
  BY EndedDoes DEF RouteInv, PollSaveFails
<1>5. published' = Nothing
  BY DEF PollSaveFails
<1>6. UNCHANGED <<up, intent, restoredAt, local, transitioning, epoch, paused, trial, failures,
      localFailures, tick, asked, writer, marking, socket, spell, report, clock, ops, crashes,
      choice>>
  BY DEF PollSaveFails, PollKeeps, route, world, bounds, memory
<1> HIDE DEF PollSaveFails
<1>7. saving' \in Seq(Entries) /\ SavingInv'
  BY <1>1, <1>4, <1>6, TailSaving DEF RouteInv
<1>8. /\ disk' \in Disks
      /\ published' \in Shows
      /\ poll' \in [Polls -> Refreshes]
  BY <1>3, <1>4, <1>5, Constants DEF RouteInv, Kept
<1>9. Typed'
  BY <1>6, <1>7, <1>8, TypesNamed DEF RouteInv, Typed
<1>10. ShapeInv'
  BY <1>3, <1>6 DEF RouteInv, Kept, ShapeInv
<1>11. SavingInv'
  BY <1>7
<1>12. MoveInv'
  BY <1>4, <1>5, <1>6 DEF RouteInv, MoveInv
<1>13. EpochInv'
  BY <1>2, <1>3, <1>4, <1>6, Fields DEF RouteInv, EpochInv
<1>14. KindInv'
  BY <1>5, Fields DEF RouteInv, KindInv
<1>15. JournalInv'
  BY <1>3, <1>6 DEF RouteInv, Kept, JournalInv
<1>16. ClockInv'
  BY <1>3, <1>4, <1>6, PlainTypes, Fields, SMTT(20) DEF RouteInv, Plain, Kept, ClockInv
<1>17. ReachInv'
  BY <1>3, <1>6 DEF RouteInv, Kept, ReachInv, Covered
<1>18. PassedInv'
  BY <1>4, <1>6, Fields DEF RouteInv, PassedInv
<1>19. BoundaryInv'
  BY <1>3, <1>6 DEF RouteInv, Kept, BoundaryInv, Fresh, Covered
<1>20. AnswerInv'
  BY <1>4, Fields, SMTT(20) DEF RouteInv, AnswerInv
<1>21. ReportInv'
  BY <1>4, <1>6, Fields, SMTT(20) DEF RouteInv, ReportInv
<1>22. ShownInv'
  BY <1>5, Fields DEF RouteInv, ShownInv
<1>23. ChoiceInv'
  BY <1>6 DEF RouteInv, ChoiceInv, Idle, At, NoAsk, Ask
<1> QED BY TypesNamed, <1>9, <1>10, <1>11, <1>12, <1>13, <1>14, <1>15, <1>16, <1>17, <1>18, <1>19,
    <1>20, <1>21, <1>22, <1>23 DEF RouteInv

-----------------------------------------------------------------------------
(* The invariant, and what follows from it. *)

LEMMA InitRoute == Init => RouteInv
<1> SUFFICES ASSUME Init PROVE RouteInv
  OBVIOUS
<1>0. disk.intent \in Preferences /\ disk.marker = 0 /\ ~disk.journal /\ disk.journal \in BOOLEAN
      /\ disk = [intent |-> disk.intent, marker |-> disk.marker, journal |-> disk.journal]
  <2>1. \A M, J : \A d \in [intent : Preferences, marker : M, journal : J] :
          /\ d.intent \in Preferences /\ d.marker \in M /\ d.journal \in J
          /\ d = [intent |-> d.intent, marker |-> d.marker, journal |-> d.journal]
    BY SMT
  <2>2. disk \in [intent : Preferences, marker : {0}, journal : {FALSE}]
    BY DEF Init
  <2>3. disk.journal \in {FALSE} /\ disk.marker \in {0}
    BY <2>1, <2>2
  <2> QED BY <2>1, <2>2, <2>3, Zenon
<1>1. Typed
  <2>1. disk \in Disks
    BY <1>0, SMT DEF Disks
  <2>2. saving \in Seq(Entries) /\ saving = <<>>
    BY SMT DEF Init
  <2>3. intent \in Preferences
    BY SMT DEF Init, Preferences
  <2>4. poll \in [Polls -> Refreshes]
    BY Constants DEF Init
  <2>5. report \in Stamps
    BY SMT DEF Init, Stamps
  <2>6. /\ failures \in 0..Limit /\ localFailures \in 0..Limit
        /\ ops \in 0..MaxOps /\ crashes \in 0..MaxCrashes
    BY RoutingAssumption, SMT DEF Init, RoutingAssumption
  <2>7. local \in BOOLEAN /\ transitioning \in BOOLEAN /\ paused \in BOOLEAN
    BY Zenon DEF Init
  <2> QED BY <2>1, <2>2, <2>3, <2>4, <2>5, <2>6, <2>7, Constants, SMT DEF Init, Typed, Lives
<1>2. /\ writer = Idle /\ asked = NoAsk /\ tick = TickIdle /\ choice = NoChoice /\ saving = <<>>
      /\ published = Nothing /\ \A p \in Polls : poll[p] = NoPoll
      /\ up = "down" /\ socket = "cloud" /\ marking = "nobody"
      /\ ~local /\ ~transitioning /\ restoredAt = 0 /\ clock = 1 /\ spell = 0 /\ epoch = 0
      /\ report.time = 1 /\ report.spell = 0
  BY SMT DEF Init
<1>3. DOMAIN saving = {}
  BY <1>2, SMT
<1>4. ShapeInv
  BY <1>2, Fields DEF ShapeInv, Takes
<1>5. SavingInv
  BY <1>3 DEF SavingInv
<1>6. MoveInv
  BY <1>2, Fields DEF MoveInv, Takes, Moves
<1>7. EpochInv /\ PassedInv
  BY <1>2, Fields DEF EpochInv, PassedInv
<1>8. KindInv /\ JournalInv /\ ChoiceInv
  BY <1>0, <1>2, Fields DEF KindInv, JournalInv, ChoiceInv, Running
<1>9. ClockInv /\ ReachInv
  BY <1>0, <1>2, Fields, SMT DEF ClockInv, ReachInv
<1>10. BoundaryInv /\ AnswerInv /\ ReportInv /\ ShownInv
  BY <1>0, <1>2, Fields DEF BoundaryInv, Fresh, AnswerInv, ReportInv, ShownInv, Running
<1> QED BY <1>1, <1>4, <1>5, <1>6, <1>7, <1>8, <1>9, <1>10, TypesNamed DEF RouteInv

LEMMA RestRoute == RouteInv /\ UNCHANGED vars => RouteInv'
<1> SUFFICES ASSUME RouteInv, UNCHANGED vars PROVE RouteInv'
  OBVIOUS
<1> USE DEF vars, durable, memory, route, timers, world, bounds
<1>1. TypeOK' /\ ShapeInv' /\ SavingInv' /\ MoveInv'
  BY DEF RouteInv, TypeOK, ShapeInv, SavingInv, MoveInv
<1>2. EpochInv' /\ KindInv' /\ JournalInv' /\ ChoiceInv'
  BY DEF RouteInv, EpochInv, KindInv, JournalInv, ChoiceInv, Running
<1>3. ClockInv' /\ ReachInv' /\ PassedInv'
  BY DEF RouteInv, ClockInv, ReachInv, Covered, PassedInv
<1>4. BoundaryInv' /\ AnswerInv' /\ ReportInv' /\ ShownInv'
  BY DEF RouteInv, BoundaryInv, Fresh, Covered, AnswerInv, ReportInv, ShownInv, Running
<1> QED BY <1>1, <1>2, <1>3, <1>4 DEF RouteInv

LEMMA NextRoute == RouteInv /\ [Next]_vars => RouteInv'
<1> SUFFICES ASSUME RouteInv, [Next]_vars PROVE RouteInv'
  OBVIOUS
<1>1. CASE Start \/ Shutdown \/ StopAsks \/ Crash
  BY <1>1, StartStep, ShutdownStep, StopAsksStep, CrashStep
<1>2. CASE (\E target \in BOOLEAN : UserAsks(target)) \/ OtherRequest
  BY <1>2, UserAsksStep, OtherRequestStep
<1>3. CASE Begin
  BY <1>3, BeginUserStep, BeginStopStep, BeginAutoStep, AutoDeclinesStep DEF Begin
<1>4. CASE WriterStep
  <2>1. CASE RestoreFirst \/ Activate \/ ActivateFails \/ Connect \/ ConnectFails
    BY <2>1, RestoreFirstStep, ActivateStep, ActivateFailsStep, ConnectStep, ConnectFailsStep
  <2>2. CASE Mark \/ Marked \/ MarkFails \/ Restore \/ RestoreFails
    BY <2>2, MarkStep, MarkedStep, MarkFailsStep, RestoreStep, RestoreFailsStep
  <2>3. CASE ChooseTcp \/ ChooseTrial \/ ChooseCloud \/ StartFails \/ TearDown
    BY <2>3, ChooseTcpStep, ChooseTrialStep, ChooseCloudStep, StartFailsStep, TearDownStep
  <2>4. CASE ChoiceStored \/ HintStored \/ WriterSaveFails
    BY <2>4, ChoiceStoredStep, HintStoredStep, WriterSaveFailsStep
  <2> QED BY <1>4, <2>1, <2>2, <2>3, <2>4 DEF WriterStep
<1>5. CASE TickStep
  BY <1>5, TickRefreshStep, AskRecoveryStep, AskTakeoverStep, ProbeStep, ReachableStep,
     TickReturnsStep, TickAfterStep DEF TickStep
<1>6. CASE Expire \/ NativeObservation \/ Report
  BY <1>6, ExpireStep, NativeObservationStep, ReportStep
<1>7. ASSUME NEW p \in Polls, PollStart(p) \/ PollLate(p) \/ PollStep(p) PROVE RouteInv'
  BY <1>7, PollStartStep, PollLateStep, PollAnswersStep, PollChecksStep, PollClearsStep,
     PollClearedStep, PollFailsStep, PollLocalStep, PollReturnsStep, HintWithdrawnStep,
     PollSaveFailsStep DEF PollStep
<1>8. CASE UNCHANGED vars
  BY <1>8, RestRoute
<1> QED BY <1>1, <1>2, <1>3, <1>4, <1>5, <1>6, <1>7, <1>8 DEF Next

\* The inductive invariant of the route: who has the lock, what each save is for, what is
\* shown and of which stay of the wallbox each report is.
THEOREM RoutingInvariant == Spec => []RouteInv
<1> QED BY InitRoute, NextRoute, PTL DEF Spec

\* Every variable keeps its type, and an outage hint never stands beside a
\* manual choice (ConnectionIntent.async_automatic).
THEOREM RoutingTypes == Spec => []TypeOK
<1>1. RouteInv => TypeOK
  BY DEF RouteInv
<1> QED BY <1>1, RoutingInvariant, PTL

\* What the user selected stays selected, however many automatic handovers were
\* decided before it and wait for the lock (AutomaticFallback.pause).
THEOREM ChoicesStand == Spec => []ChoiceStands
<1>1. RouteInv => ChoiceStands
  <2> SUFFICES ASSUME RouteInv, up = "up", choice.state = "done" PROVE local = choice.target
    BY DEF ChoiceStands
  <2>1. local <=> choice.target
    BY DEF RouteInv, ChoiceInv
  <2>2. local \in BOOLEAN /\ choice.target \in BOOLEAN
    BY PlainTypes DEF RouteInv, Plain
  <2> QED BY <2>1, <2>2, Zenon
<1> QED BY <1>1, RoutingInvariant, PTL

\* An unload that succeeds leaves the wallbox with the cloud and nothing to
\* recover (async_shutdown).
THEOREM StopsAreClean == Spec => []CleanStop
<1>1. RouteInv => CleanStop
  <2> SUFFICES ASSUME RouteInv, up = "stopped" PROVE socket = "cloud" /\ ~disk.journal
    BY DEF CleanStop
  <2>1. ~disk.journal /\ socket # "host"
    BY DEF RouteInv, JournalInv
  <2>2. socket \in {"cloud", "host"}
    BY PlainTypes DEF RouteInv, Plain
  <2> QED BY <2>1, <2>2
<1> QED BY <1>1, RoutingInvariant, PTL

\* Requests are routed to the cloud only when the wallbox is connected to it
\* (RoutingAdapter._adapter): a wallbox still on this host has a journal, so a
\* boundary newer than all it has reported holds as long as the route is the
\* cloud's, and that is not withdrawn before SEMS has a newer report.
THEOREM CloudIsReached == Spec => []CloudControlReachesCloud
<1>1. RouteInv => CloudControlReachesCloud
  <2> SUFFICES ASSUME RouteInv, Running, ~local, ~transitioning, restoredAt = 0, socket # "cloud"
               PROVE  FALSE
    BY DEF CloudControlReachesCloud
  <2>1. socket = "host" /\ report.time \in Nat
    BY PlainTypes DEF RouteInv, Plain
  <2>2. writer.at \notin {"connect", "mark"}
    BY DEF RouteInv, MoveInv, Takes, Moves, Running
  <2>3. writer.at \notin {"hint", "failed"}
    BY DEF RouteInv, ShapeInv, Running
  <2>4. Covered /\ up # "down"
    BY <2>2, <2>3 DEF Covered, Running
  <2>5. report.time < 0
    BY <2>1, <2>4 DEF RouteInv, ReachInv
  <2> QED BY <2>1, <2>5, SMT
<1> QED BY <1>1, RoutingInvariant, PTL

\* Entities show a reading of the transport in use, made since Socket A last
\* went where it is (_async_read_data, _async_update_data): a boundary above
\* every report of before a hand-back stands until a newer report is read.  It
\* must be on disk before the wallbox is handed back, so the theorem is of a
\* store whose saves do not fail.
THEOREM ReadingsAreCurrent ==
  ASSUME ~SavesFail
  PROVE  Spec => []AvailableIsCurrent
<1>1. RouteInv => AvailableIsCurrent
  BY DEF RouteInv, KindInv, ShownInv, AvailableIsCurrent
<1> QED BY <1>1, RoutingInvariant, PTL
=============================================================================

---------------------------- MODULE PolicyProofs ----------------------------
(***************************************************************************)
(* Theorems about ChargeModePolicy for every number of requests, every set  *)
(* of operations and every transport: its types, that Starts and Stops      *)
(* reach the charger in the order of their calls, what the budgets and      *)
(* async_close keep from being sent, how a Start finds the charger, and     *)
(* which power is remembered in the end.  At the end, what PresentationProofs *)
(* shows of the entities, as MCPolicy states it of its other part.          *)
(***************************************************************************)
EXTENDS MCPolicy, TLAPS

Running == Working \cup {"save", "adoptSave"}
InLock  == Running \cup {"lockWait"}
Sent    == {"answered", "lost"}

\* The lock: who waits for it, who holds it, and that only the holder has a job.
LockInv ==
    /\ \A i \in DOMAIN queue : queue[i] <= called
    /\ \A i, j \in DOMAIN queue : i < j => queue[i] # queue[j]
    /\ \A i \in DOMAIN queue : pc[queue[i]] \in (IF i = 1 THEN InLock ELSE {"lockWait"})
    /\ \A r \in Requests : pc[r] \in InLock => \E i \in DOMAIN queue : queue[i] = r
    /\ job = "none" \/ At(Working)
    /\ At({"stop"}) => job # "refused"

\* What is where: a request's place follows from its kind.
KindInv ==
    /\ \A r \in 1..called : op[r] # None
    /\ \A r \in Requests : pc[r] = "new" <=> r > called
    /\ \A r \in 1..called :
          /\ pc[r] = "stop" => Kind(r) = "stop"
          /\ pc[r] \in {"startWait", "retry", "start"} => Kind(r) = "start"
          /\ pc[r] \in {"save", "adoptSave", "capture", "operate"} => Kind(r) # "start"
          /\ pc[r] \in {"read", "write", "confirm"} => Kind(r) \in {"start", "mode"}
          /\ pc[r] \in InLock /\ Kind(r) = "stop" => pc[r] \in {"lockWait", "stop"}

\* The start lock: Starts in the order of their calls, the first one preparing.
StartLockInv ==
    /\ \A i \in DOMAIN startQueue : startQueue[i] <= called
    /\ \A i, j \in DOMAIN startQueue : i < j => startQueue[i] < startQueue[j]
    /\ \A i \in DOMAIN startQueue :
          /\ Kind(startQueue[i]) = "start"
          /\ pc[startQueue[i]] \in {"startWait", "retry"} \cup InLock
          /\ i # 1 => pc[startQueue[i]] = "startWait"
    /\ \A r \in 1..called :
          Kind(r) = "start" /\ pc[r] \notin Over => \E i \in DOMAIN startQueue : startQueue[i] = r

\* The counters: nothing holds a version of the future, a Start whose version
\* is current has a current intent, and every Stop ends the intents before it.
FenceInv ==
    /\ \A r \in Requests : ver[r] <= version /\ intent[r] <= startIntent
    /\ \A r \in 1..called :
          Kind(r) = "start" /\ pc[r] \in {"read", "write", "confirm"} /\ ver[r] = version
              => intent[r] = startIntent
    /\ \A r, s \in 1..called :
          /\ Kind(r) = "start" /\ pc[r] \notin Over /\ intent[r] = startIntent
          /\ Kind(s) = "stop"
          => s < r

Waiting(r) == ~(pc[r] \in {"start", "stop"} /\ job \in Sent)

\* Nothing that may still be delivered is older than what was delivered.
OrderInv ==
    /\ \A i \in DOMAIN delivered : delivered[i] <= called
    /\ \A i, j \in DOMAIN queue : i < j /\ Kind(queue[j]) = "stop" => queue[i] < queue[j]
    /\ \A s \in 1..called : \A d \in DOMAIN delivered :
          Kind(s) = "stop" /\ pc[s] \in InLock /\ Waiting(s) => delivered[d] < s
    /\ \A r \in 1..called : \A d \in DOMAIN delivered :
          /\ Kind(r) = "start" /\ pc[r] \notin Over /\ Waiting(r)
          /\ intent[r] = startIntent \/ pc[r] = "start"
          => delivered[d] < r
    /\ InCallOrder

Inv == LockInv /\ KindInv /\ StartLockInv /\ FenceInv /\ OrderInv

\* What is being written is a mode, with a power where the request carries one.
Writable(p) == p.mode \in Modes /\ (KeepsPower(p.mode) => p.power \in Powers)
PlanInv == \A r \in Requests : pc[r] = "write" => Writable(plan)

IInv == TypeOK /\ PlanInv /\ Inv

-----------------------------------------------------------------------------
(* Sequences *)

\* Removing the first element of a queue shifts the others.
LEMMA TailFacts ==
  ASSUME NEW S, NEW q \in Seq(S), q # <<>>
  PROVE  /\ Tail(q) \in Seq(S)
         /\ 1 \in DOMAIN q /\ Head(q) = q[1] /\ Head(q) \in S
         /\ DOMAIN q \subseteq Nat \ {0} /\ DOMAIN Tail(q) \subseteq Nat \ {0}
         /\ \A i \in DOMAIN Tail(q) : i + 1 \in DOMAIN q /\ Tail(q)[i] = q[i + 1]
         /\ \A i \in DOMAIN q : i # 1 => i - 1 \in DOMAIN Tail(q)
  OBVIOUS

\* Appending changes nothing before the new element.
LEMMA AppendFacts ==
  ASSUME NEW S, NEW q \in Seq(S), NEW e \in S
  PROVE  /\ Append(q, e) \in Seq(S) /\ Len(q) + 1 \in Nat \ {0}
         /\ DOMAIN q \subseteq Nat \ {0} /\ Len(q) + 1 \notin DOMAIN q
         /\ DOMAIN Append(q, e) = DOMAIN q \cup {Len(q) + 1}
         /\ Append(q, e)[Len(q) + 1] = e
         /\ Len(q) + 1 = 1 <=> q = <<>>
         /\ \A i \in DOMAIN q : i < Len(q) + 1 /\ Append(q, e)[i] = q[i]
  OBVIOUS

-----------------------------------------------------------------------------
(* The holder of the lock leaves it *)

\* The holder is one of the requests and, when it is a Start, first in line for
\* the start lock too.
LEMMA HolderFacts ==
  ASSUME TypeOK, Inv, queue # <<>>
  PROVE  /\ Holder \in Requests /\ Holder \in 1..called /\ Holder = queue[1]
         /\ 1 \in DOMAIN queue /\ pc[Holder] \in InLock /\ op[Holder] \in Ops
         /\ Kind(Holder) = "start" =>
               startQueue # <<>> /\ 1 \in DOMAIN startQueue /\ Head(startQueue) = Holder
  <1>1. /\ 1 \in DOMAIN queue /\ Holder = queue[1] /\ Holder \in Requests
    BY TailFacts DEF TypeOK, Holder
  <1>2. Holder \in 1..called /\ pc[Holder] \in InLock
    BY <1>1 DEF Inv, LockInv, Requests
  <1>3. op[Holder] \in Ops
    BY <1>1, <1>2 DEF Inv, KindInv, TypeOK
  <1>4. ASSUME Kind(Holder) = "start"
        PROVE  startQueue # <<>> /\ 1 \in DOMAIN startQueue /\ Head(startQueue) = Holder
    <2>1. pc[Holder] \notin Over \cup {"startWait"}
      BY <1>2 DEF InLock, Running, Working, Budgeted, Over
    <2>2. PICK i \in DOMAIN startQueue : startQueue[i] = Holder
      BY <1>2, <1>4, <2>1 DEF Inv, StartLockInv
    <2>3. i = 1
      BY <2>1, <2>2 DEF Inv, StartLockInv
    <2> QED
      BY <2>2, <2>3, TailFacts DEF TypeOK
  <1> QED
    BY <1>1, <1>2, <1>3, <1>4

\* The holder leaves the lock: a Start that will prepare again keeps its place
\* in the start lock.
Exit(o) ==
    /\ o \in Over \/ (o = "retry" /\ Kind(Holder) = "start" /\ Waiting(Holder))
    /\ pc' = [pc EXCEPT ![Holder] = o] /\ queue' = Tail(queue) /\ job' = "none"
    /\ startQueue' = IF Kind(Holder) = "start" /\ o # "retry" THEN Tail(startQueue)
                     ELSE startQueue
    /\ UNCHANGED <<calls, ver, fence, delivered>>

\* Leaving the lock keeps everything in order.
LEMMA ExitKeeps ==
  ASSUME TypeOK, Inv, queue # <<>>, NEW o, Exit(o)
  PROVE  Inv'
  <1> DEFINE h == Holder
  <1>1. /\ h \in Requests /\ h \in 1..called /\ h = queue[1] /\ pc[h] \in InLock
        /\ 1 \in DOMAIN queue
        /\ Kind(h) = "start" => startQueue # <<>> /\ Head(startQueue) = h
    BY HolderFacts
  <1>2. /\ o \in Over \/ (o = "retry" /\ Kind(h) = "start" /\ Waiting(h))
        /\ pc' = [pc EXCEPT ![h] = o] /\ queue' = Tail(queue) /\ job' = "none"
        /\ startQueue' = IF Kind(h) = "start" /\ o # "retry" THEN Tail(startQueue)
                         ELSE startQueue
        /\ called' = called /\ op' = op /\ intent' = intent /\ ver' = ver
        /\ version' = version /\ startIntent' = startIntent /\ delivered' = delivered
    BY DEF Exit, calls, fence
  <1>3. /\ pc \in [Requests -> States] /\ queue \in Seq(Requests) /\ startQueue \in Seq(Requests)
        /\ called \in Nat /\ 1..called \subseteq Requests
    BY PolicyAssumption DEF TypeOK, Requests
  <1>4. /\ pc'[h] = o /\ \A r \in Requests : r # h => pc'[r] = pc[r]
        /\ \A r : Kind(r)' = Kind(r)
    BY <1>1, <1>2, <1>3 DEF Kind
  <1>5. /\ DOMAIN queue' \subseteq Nat \ {0} /\ DOMAIN queue \subseteq Nat \ {0}
        /\ \A i \in DOMAIN queue' : i + 1 \in DOMAIN queue /\ queue'[i] = queue[i + 1]
        /\ \A i \in DOMAIN queue : i # 1 => i - 1 \in DOMAIN queue'
        /\ \A i \in DOMAIN queue : queue[i] \in Requests
    BY <1>1, <1>2, <1>3, TailFacts
  <1> HIDE DEF h
  <1>6. LockInv'
    <2>1. ASSUME NEW i \in DOMAIN queue'
          PROVE  queue'[i] # h /\ queue'[i] \in Requests /\ pc[queue'[i]] = "lockWait"
      <3>1. i + 1 \in DOMAIN queue /\ 1 \in DOMAIN queue /\ 1 < i + 1 /\ i + 1 # 1
        BY <1>1, <1>5
      <3> QED
        BY <1>1, <1>5, <3>1 DEF Inv, LockInv
    <2>2. \A r \in Requests : pc'[r] \in InLock => r # h
      BY <1>2, <1>4 DEF Over, InLock, Running, Working, Budgeted
    <2>3. \A r \in Requests : pc'[r] \in InLock => \E i \in DOMAIN queue' : queue'[i] = r
      BY <1>1, <1>4, <1>5, <2>2 DEF Inv, LockInv
    <2>4. At({"stop"})' => job' # "refused"
      BY <1>2
    <2> QED
      BY <1>2, <1>4, <1>5, <2>1, <2>3, <2>4 DEF Inv, LockInv, InLock
  <1>7. KindInv'
    BY <1>1, <1>2, <1>3, <1>4 DEF Inv, KindInv, InLock, Running, Working, Budgeted, Over
  <1>8. StartLockInv'
    <2>1. CASE Kind(h) # "start" \/ o = "retry"
      <3>1. /\ startQueue' = startQueue
            /\ \A i \in DOMAIN startQueue :
                  startQueue[i] \in Requests /\ (i = 1 \/ startQueue[i] # h)
            /\ \A i \in DOMAIN startQueue : startQueue[i] = h => o = "retry"
        BY <1>1, <1>2, <1>3, <2>1 DEF Inv, StartLockInv, InLock, Running, Working, Budgeted
      <3>2. ASSUME NEW i \in DOMAIN startQueue
            PROVE  /\ pc'[startQueue[i]] \in {"startWait", "retry"} \cup InLock
                   /\ i # 1 => pc'[startQueue[i]] = "startWait"
        BY <1>4, <3>1 DEF Inv, StartLockInv
      <3>3. \A r \in 1..called : pc'[r] \notin Over => pc[r] \notin Over
        BY <1>1, <1>3, <1>4 DEF InLock, Running, Working, Budgeted, Over
      <3> QED
        BY <1>2, <1>4, <3>1, <3>2, <3>3 DEF Inv, StartLockInv
    <2>2. CASE Kind(h) = "start" /\ o # "retry"
      <3>1. /\ o \in Over /\ startQueue' = Tail(startQueue) /\ startQueue # <<>> /\ 1 \in DOMAIN startQueue
            /\ startQueue[1] = h
            /\ DOMAIN startQueue' \subseteq Nat \ {0} /\ DOMAIN startQueue \subseteq Nat \ {0}
            /\ \A i \in DOMAIN startQueue' :
                  i + 1 \in DOMAIN startQueue /\ startQueue'[i] = startQueue[i + 1]
            /\ \A i \in DOMAIN startQueue : i # 1 => i - 1 \in DOMAIN startQueue'
            /\ \A i \in DOMAIN startQueue : startQueue[i] \in Requests
        BY <1>1, <1>2, <1>3, <2>2, TailFacts
      <3>2. ASSUME NEW i \in DOMAIN startQueue'
            PROVE  /\ startQueue'[i] \in Requests /\ startQueue'[i] # h
                   /\ pc'[startQueue'[i]] = "startWait" /\ Kind(startQueue'[i]) = "start"
                   /\ startQueue'[i] <= called
        <4>1. i + 1 \in DOMAIN startQueue /\ 1 < i + 1 /\ i + 1 # 1
          BY <3>1
        <4>2. /\ startQueue'[i] = startQueue[i + 1] /\ startQueue[i + 1] \in Requests
              /\ h < startQueue[i + 1]
          BY <3>1, <4>1 DEF Inv, StartLockInv
        <4>3. startQueue[i + 1] # h
          BY <1>1, <4>2 DEF Requests
        <4> QED
          BY <1>4, <4>1, <4>2, <4>3 DEF Inv, StartLockInv
      <3>3. \A i, j \in DOMAIN startQueue' : i < j => startQueue'[i] < startQueue'[j]
        BY <3>1 DEF Inv, StartLockInv
      <3>4. \A r \in 1..called : Kind(r)' = "start" /\ pc'[r] \notin Over =>
                \E i \in DOMAIN startQueue' : startQueue'[i] = r
        <4> SUFFICES ASSUME NEW r \in 1..called, Kind(r) = "start", r # h, pc[r] \notin Over
                     PROVE  \E i \in DOMAIN startQueue' : startQueue'[i] = r
          BY <1>3, <1>4, <3>1
        <4>1. PICK i \in DOMAIN startQueue : startQueue[i] = r
          BY DEF Inv, StartLockInv
        <4>2. i # 1 /\ i - 1 \in DOMAIN startQueue' /\ (i - 1) + 1 = i
          BY <3>1, <4>1
        <4> QED
          BY <3>1, <4>1, <4>2
      <3> QED
        BY <1>2, <1>4, <3>2, <3>3, <3>4 DEF StartLockInv
    <2> QED
      BY <2>1, <2>2
  <1>9. FenceInv'
    <2>1. \A r \in 1..called : pc'[r] \notin Over => pc[r] \notin Over
      BY <1>1, <1>3, <1>4 DEF InLock, Running, Working, Budgeted, Over
    <2>2. \A r \in 1..called :
             pc'[r] \in {"read", "write", "confirm"} => pc[r] \in {"read", "write", "confirm"}
      BY <1>2, <1>3, <1>4 DEF Over
    <2> QED
      BY <1>2, <1>4, <2>1, <2>2 DEF Inv, FenceInv
  <1>10. OrderInv'
    <2>1. \A i, j \in DOMAIN queue' :
             i < j /\ op[queue'[j]].kind = "stop" => queue'[i] < queue'[j]
      BY <1>5 DEF Inv, OrderInv, Kind
    <2>2. \A r \in 1..called : r # h /\ pc[r] \in {"start", "stop"} => FALSE
      BY <1>1, <1>3, <1>5 DEF Inv, LockInv, InLock, Running, Working, Budgeted
    <2>3. /\ \A r \in 1..called : Waiting(r)' /\ r # h => Waiting(r)
          /\ o \notin Over => Waiting(h) /\ pc[h] \notin Over
      BY <1>1, <1>2, <2>2 DEF Waiting, Over, InLock, Running, Working, Budgeted
    <2>4. /\ \A i \in DOMAIN delivered' : delivered'[i] <= called'
          /\ InCallOrder'
      BY <1>2 DEF Inv, OrderInv, InCallOrder
    <2>5. \A r \in 1..called : \A d \in DOMAIN delivered' :
             Kind(r)' = "stop" /\ pc'[r] \in InLock /\ Waiting(r)' => delivered'[d] < r
      BY <1>2, <1>3, <1>4, <2>3 DEF Inv, OrderInv, Over, InLock, Running, Working, Budgeted
    <2>6. \A r \in 1..called : \A d \in DOMAIN delivered' :
             /\ Kind(r)' = "start" /\ pc'[r] \notin Over /\ Waiting(r)'
             /\ intent'[r] = startIntent' \/ pc'[r] = "start"
             => delivered'[d] < r
      BY <1>2, <1>3, <1>4, <2>3 DEF Inv, OrderInv
    <2> QED
      BY <1>2, <2>1, <2>4, <2>5, <2>6 DEF OrderInv, Kind
  <1> QED
    BY <1>6, <1>7, <1>8, <1>9, <1>10 DEF Inv

\* The holder goes on to another place in the lock.
Move(place, next) ==
    LET kind == Kind(Holder)
    IN  /\ place \in Running /\ next \in {"none", "queued"}
        /\ next = "none" \/ place \in Working
        /\ pc[Holder] \notin {"start", "stop"}
        /\ place = "stop" <=> kind = "stop"
        /\ place = "start" => kind = "start" /\ intent[Holder] = startIntent
        /\ place \in {"save", "adoptSave", "capture", "operate"} => kind # "start"
        /\ place \in {"read", "write", "confirm"} =>
              kind = "mode" \/ (kind = "start" /\ intent[Holder] = startIntent)
        /\ pc' = [pc EXCEPT ![Holder] = place] /\ job' = next
        /\ UNCHANGED <<calls, ver, fence, locks, delivered>>

LEMMA MoveKeeps ==
  ASSUME TypeOK, Inv, queue # <<>>, NEW place, NEW next, Move(place, next)
  PROVE  Inv'
  <1> DEFINE h == Holder
  <1>1. /\ h \in Requests /\ h \in 1..called /\ h = queue[1] /\ pc[h] \in InLock
        /\ 1 \in DOMAIN queue
    BY HolderFacts
  <1>2. /\ place \in Running /\ next \in {"none", "queued"}
        /\ next = "none" \/ place \in Working
        /\ pc[h] \notin {"start", "stop"}
        /\ place = "stop" <=> Kind(h) = "stop"
        /\ place = "start" => Kind(h) = "start" /\ intent[h] = startIntent
        /\ place \in {"save", "adoptSave", "capture", "operate"} => Kind(h) # "start"
        /\ place \in {"read", "write", "confirm"} =>
              Kind(h) = "mode" \/ (Kind(h) = "start" /\ intent[h] = startIntent)
        /\ pc' = [pc EXCEPT ![h] = place] /\ job' = next
        /\ called' = called /\ op' = op /\ intent' = intent /\ ver' = ver
        /\ version' = version /\ startIntent' = startIntent /\ delivered' = delivered
        /\ queue' = queue /\ startQueue' = startQueue
    BY DEF Move, calls, fence, locks
  <1>3. /\ pc \in [Requests -> States] /\ queue \in Seq(Requests) /\ startQueue \in Seq(Requests)
        /\ called \in Nat /\ 1..called \subseteq Requests
        /\ \A i \in DOMAIN queue : queue[i] \in Requests
        /\ \A i \in DOMAIN startQueue : startQueue[i] \in Requests
        /\ DOMAIN queue \subseteq Nat \ {0}
    BY PolicyAssumption DEF TypeOK, Requests
  <1>4. /\ pc'[h] = place /\ \A r \in Requests : r # h => pc'[r] = pc[r]
        /\ \A r : Kind(r)' = Kind(r)
        /\ Holder' = h
    BY <1>1, <1>2, <1>3 DEF Kind, Holder
  <1>5. /\ \A r \in Requests : pc'[r] \in InLock <=> pc[r] \in InLock
        /\ \A r \in Requests : pc'[r] \in Over <=> pc[r] \in Over
        /\ place \in InLock \ {"lockWait"} /\ place # "new"
    BY <1>1, <1>2, <1>4 DEF InLock, Running, Working, Budgeted, Over
  <1> HIDE DEF h
  <1>6. \A i \in DOMAIN queue : i # 1 => queue[i] # h
    BY <1>1, <1>3 DEF Inv, LockInv
  <1>7. LockInv'
    <2>1. \A i \in DOMAIN queue : pc'[queue[i]] \in (IF i = 1 THEN InLock ELSE {"lockWait"})
      BY <1>1, <1>3, <1>4, <1>5, <1>6 DEF Inv, LockInv
    <2>2. job' = "none" \/ At(Working)'
      BY <1>2, <1>4 DEF At
    <2> QED
      BY <1>2, <1>5, <2>1, <2>2 DEF Inv, LockInv
  <1>8. KindInv'
    <2>1. \A r \in Requests : pc'[r] = "new" <=> r > called
      BY <1>1, <1>3, <1>4, <1>5 DEF Inv, KindInv, InLock, Running, Working, Budgeted
    <2>2. ASSUME NEW r \in 1..called
          PROVE  /\ pc'[r] = "stop" => Kind(r) = "stop"
                 /\ pc'[r] \in {"startWait", "retry", "start"} => Kind(r) = "start"
                 /\ pc'[r] \in {"save", "adoptSave", "capture", "operate"} => Kind(r) # "start"
                 /\ pc'[r] \in {"read", "write", "confirm"} => Kind(r) \in {"start", "mode"}
                 /\ pc'[r] \in InLock /\ Kind(r) = "stop" => pc'[r] \in {"lockWait", "stop"}
      <3>1. CASE r = h
        BY <1>2, <1>4, <3>1 DEF Running, Working, Budgeted
      <3>2. CASE r # h
        BY <1>3, <1>4, <3>2 DEF Inv, KindInv
      <3> QED
        BY <3>1, <3>2
    <2> QED
      BY <1>2, <1>4, <2>1, <2>2 DEF Inv, KindInv
  <1>9. StartLockInv'
    <2>1. \A i \in DOMAIN startQueue :
             /\ pc'[startQueue[i]] \in {"startWait", "retry"} \cup InLock
             /\ i # 1 => pc'[startQueue[i]] = "startWait"
      <3> SUFFICES ASSUME NEW i \in DOMAIN startQueue, startQueue[i] = h, i # 1 PROVE FALSE
        BY <1>3, <1>4, <1>5 DEF Inv, StartLockInv
      <3> QED
        BY <1>1 DEF Inv, StartLockInv, InLock, Running, Working, Budgeted
    <2> QED
      BY <1>2, <1>3, <1>4, <1>5, <2>1 DEF Inv, StartLockInv
  <1>10. FenceInv'
    <2>1. \A r \in 1..called :
             Kind(r) = "start" /\ pc'[r] \in {"read", "write", "confirm"} /\ ver[r] = version
                 => intent[r] = startIntent
      BY <1>2, <1>3, <1>4 DEF Inv, FenceInv
    <2> QED
      BY <1>2, <1>3, <1>4, <1>5, <2>1 DEF Inv, FenceInv
  <1>11. OrderInv'
    <2>1. \A r \in 1..called : Waiting(r)
      <3> SUFFICES ASSUME NEW r \in 1..called, pc[r] \in {"start", "stop"} PROVE FALSE
        BY DEF Waiting
      <3>1. r # h /\ r \in Requests /\ pc[r] \in InLock
        BY <1>2, <1>3 DEF InLock, Running, Working, Budgeted
      <3>2. PICK i \in DOMAIN queue : queue[i] = r
        BY <3>1 DEF Inv, LockInv
      <3>3. i # 1
        BY <1>1, <3>1, <3>2
      <3> QED
        BY <3>2, <3>3 DEF Inv, LockInv
    <2>2. \A r \in 1..called : \A d \in DOMAIN delivered :
             /\ Kind(r) = "start" /\ pc'[r] \notin Over
             /\ intent[r] = startIntent \/ pc'[r] = "start"
             => delivered[d] < r
      BY <1>2, <1>3, <1>4, <1>5, <2>1 DEF Inv, OrderInv
    <2>3. \A i, j \in DOMAIN queue : i < j /\ op[queue[j]].kind = "stop" => queue[i] < queue[j]
      BY DEF Inv, OrderInv, Kind
    <2>4. \A s \in 1..called : \A d \in DOMAIN delivered :
             Kind(s) = "stop" /\ pc'[s] \in InLock => delivered[d] < s
      BY <1>3, <1>5, <2>1 DEF Inv, OrderInv
    <2>5. InCallOrder'
      BY <1>2 DEF Inv, OrderInv, InCallOrder
    <2> QED
      BY <1>2, <1>4, <2>2, <2>3, <2>4, <2>5 DEF Inv, OrderInv, Kind
  <1> QED
    BY <1>7, <1>8, <1>9, <1>10, <1>11 DEF Inv

\* A job that passes its last check, or is refused there.
LEMMA CommitKeeps ==
  ASSUME TypeOK, Inv, Commit
  PROVE  Inv'
  <1>1. /\ job = "queued" /\ job' \in {"refused", "committed"}
        /\ At({"stop"}) => job' # "refused"
        /\ called' = called /\ op' = op /\ intent' = intent /\ ver' = ver /\ pc' = pc
        /\ version' = version /\ startIntent' = startIntent /\ delivered' = delivered
        /\ queue' = queue /\ startQueue' = startQueue
    BY DEF Commit, calls, fence, locks, box, At, Budgeted
  <1>2. LockInv'
    BY <1>1 DEF Inv, LockInv, At, Holder
  <1>3. KindInv' /\ StartLockInv' /\ FenceInv'
    BY <1>1 DEF Inv, KindInv, StartLockInv, FenceInv, Kind
  <1>4. \A r : Waiting(r) /\ Waiting(r)'
    BY <1>1 DEF Waiting, Sent
  <1>5. OrderInv'
    BY <1>1, <1>4 DEF Inv, OrderInv, InCallOrder, Kind
  <1> QED
    BY <1>2, <1>3, <1>5 DEF Inv

\* A request that reaches the charger comes after all that did before, and
\* whatever else may still do so comes after it.
LEMMA SendKeeps ==
  ASSUME TypeOK, Inv, Send
  PROVE  Inv'
  <1> DEFINE h == Holder
  <1>1. /\ job = "committed" /\ job' \in Sent
        /\ delivered' = IF pc[h] \in {"start", "stop"} THEN Append(delivered, h) ELSE delivered
        /\ called' = called /\ op' = op /\ intent' = intent /\ ver' = ver /\ pc' = pc
        /\ version' = version /\ startIntent' = startIntent
        /\ queue' = queue /\ startQueue' = startQueue
    BY DEF Send, calls, fence, locks, Sent
  <1>2. queue # <<>> /\ pc[h] \in Working
    BY <1>1 DEF Inv, LockInv, At
  <1>3. /\ h \in Requests /\ h \in 1..called /\ h = queue[1] /\ 1 \in DOMAIN queue
        /\ Kind(h) = "start" => 1 \in DOMAIN startQueue /\ startQueue[1] = h
    BY <1>2, HolderFacts, TailFacts DEF TypeOK
  <1>4. /\ delivered \in Seq(Requests) /\ queue \in Seq(Requests) /\ called \in Nat
        /\ startQueue \in Seq(Requests)
        /\ 1..called \subseteq Requests /\ DOMAIN queue \subseteq Nat \ {0}
        /\ DOMAIN startQueue \subseteq Nat \ {0}
    BY PolicyAssumption DEF TypeOK, Requests
  <1> HIDE DEF h
  <1>5. LockInv'
    BY <1>1, <1>2 DEF Inv, LockInv, At, Sent, Holder, h
  <1>6. KindInv' /\ StartLockInv' /\ FenceInv'
    BY <1>1 DEF Inv, KindInv, StartLockInv, FenceInv, Kind
  <1>7. \A r : Waiting(r)
    BY <1>1 DEF Waiting, Sent
  <1>8. CASE pc[h] \notin {"start", "stop"}
    <2>1. delivered' = delivered
      BY <1>1, <1>8
    <2> QED
      BY <1>1, <1>5, <1>6, <1>7, <2>1 DEF Inv, OrderInv, InCallOrder, Kind
  <1>9. CASE pc[h] \in {"start", "stop"}
    <2> DEFINE n == Len(delivered) + 1
    <2>1. /\ DOMAIN delivered' = DOMAIN delivered \cup {n} /\ delivered'[n] = h
          /\ \A i \in DOMAIN delivered : i < n /\ delivered'[i] = delivered[i]
          /\ DOMAIN delivered \subseteq Nat /\ n \in Nat
      <3>1. delivered' = Append(delivered, h)
        BY <1>1, <1>9
      <3>2. h \in Requests /\ delivered \in Seq(Requests)
        BY <1>3, <1>4
      <3> QED
        BY <3>1, <3>2, AppendFacts
    <2> HIDE DEF n
    <2>2. \A d \in DOMAIN delivered : delivered[d] < h
      <3>1. CASE pc[h] = "start"
        BY <1>3, <1>4, <1>7, <3>1 DEF Inv, OrderInv, KindInv, Over
      <3>2. CASE pc[h] = "stop"
        BY <1>3, <1>4, <1>7, <3>2 DEF Inv, OrderInv, KindInv, InLock, Running, Working
      <3> QED
        BY <1>9, <3>1, <3>2
    <2>3. ASSUME NEW r \in 1..called, pc[r] \in InLock, r # h
          PROVE  \E i \in DOMAIN queue : i # 1 /\ queue[i] = r /\ pc[r] = "lockWait"
      <3>1. PICK i \in DOMAIN queue : queue[i] = r
        BY <1>4, <2>3 DEF Inv, LockInv
      <3>2. i # 1
        BY <1>3, <2>3, <3>1
      <3> QED
        BY <3>1, <3>2 DEF Inv, LockInv
    <2>4. \A r : Waiting(r)' => r # h
      BY <1>1, <1>9 DEF Waiting
    <2>5. ASSUME NEW s \in 1..called, Kind(s) = "stop", pc[s] \in InLock, s # h
          PROVE  h < s
      <3>1. PICK i \in DOMAIN queue : i # 1 /\ queue[i] = s
        BY <2>3, <2>5
      <3>2. 1 < i
        BY <1>4, <3>1
      <3> QED
        BY <1>3, <2>5, <3>1, <3>2 DEF Inv, OrderInv
    <2>6. ASSUME NEW r \in 1..called, Kind(r) = "start", pc[r] \notin Over, r # h,
                 intent[r] = startIntent \/ pc[r] = "start"
          PROVE  h < r
      <3>1. pc[r] # "start"
        BY <2>3, <2>6 DEF InLock, Running, Working, Budgeted
      <3>2. CASE pc[h] = "stop"
        BY <1>3, <2>6, <3>1, <3>2 DEF Inv, FenceInv, KindInv
      <3>3. CASE pc[h] = "start"
        <4>1. Kind(h) = "start"
          BY <1>3, <3>3 DEF Inv, KindInv
        <4>2. PICK i \in DOMAIN startQueue : startQueue[i] = r
          BY <2>6 DEF Inv, StartLockInv
        <4>3. 1 < i
          BY <1>3, <1>4, <2>6, <4>1, <4>2
        <4> QED
          BY <1>3, <4>1, <4>2, <4>3 DEF Inv, StartLockInv
      <3> QED
        BY <1>9, <3>2, <3>3
    <2>7. /\ \A i \in DOMAIN delivered' : delivered'[i] <= called'
          /\ InCallOrder'
      BY <1>1, <1>3, <2>1, <2>2 DEF Inv, OrderInv, InCallOrder
    <2>8. \A s \in 1..called : \A d \in DOMAIN delivered' :
             Kind(s) = "stop" /\ pc[s] \in InLock /\ Waiting(s)' => delivered'[d] < s
      BY <1>7, <2>1, <2>4, <2>5 DEF Inv, OrderInv
    <2>9. \A r \in 1..called : \A d \in DOMAIN delivered' :
             /\ Kind(r) = "start" /\ pc[r] \notin Over /\ Waiting(r)'
             /\ intent[r] = startIntent \/ pc[r] = "start"
             => delivered'[d] < r
      BY <1>7, <2>1, <2>4, <2>6 DEF Inv, OrderInv
    <2>10. OrderInv'
      BY <1>1, <2>7, <2>8, <2>9 DEF Inv, OrderInv, Kind
    <2> QED
      BY <1>5, <1>6, <2>10 DEF Inv
  <1> QED
    BY <1>8, <1>9

-----------------------------------------------------------------------------
(* New requests *)

\* What a call changes: the new request, and nothing of the others.
LEMMA CalledFacts ==
  ASSUME TypeOK, Inv, NEW o \in Ops, NEW place, NEW v \in Nat, Called(o, place, v)
  PROVE  LET n == called + 1
         IN  /\ n \in Requests /\ n \in Nat /\ called' = n /\ called \in Nat
             /\ pc[n] = "new" /\ 1..called \subseteq Requests
             /\ op' = [op EXCEPT ![n] = o] /\ op'[n] = o
             /\ pc' = [pc EXCEPT ![n] = place] /\ pc'[n] = place
             /\ ver' = [ver EXCEPT ![n] = v] /\ ver'[n] = v
             /\ \A r \in Requests : r # n =>
                   op'[r] = op[r] /\ pc'[r] = pc[r] /\ ver'[r] = ver[r]
             /\ \A r \in 1..n : r # n => r \in 1..called
             /\ \A r \in 1..called : r # n /\ r < n /\ r \in Requests
             /\ \A i \in DOMAIN queue : queue[i] \in 1..called
             /\ \A i \in DOMAIN startQueue : startQueue[i] \in 1..called
             /\ job' = job /\ delivered' = delivered
  <1> DEFINE n == called + 1
  <1>1. /\ n \in Requests /\ n \in Nat /\ called \in Nat /\ 1..called \subseteq Requests
        /\ called' = n
    BY PolicyAssumption DEF TypeOK, Called, Requests
  <1>2. /\ op' = [op EXCEPT ![n] = o] /\ pc' = [pc EXCEPT ![n] = place]
        /\ ver' = [ver EXCEPT ![n] = v] /\ job' = job /\ delivered' = delivered
    BY DEF Called, box
  <1>3. /\ op'[n] = o /\ pc'[n] = place /\ ver'[n] = v
        /\ \A r \in Requests : r # n =>
              op'[r] = op[r] /\ pc'[r] = pc[r] /\ ver'[r] = ver[r]
    BY <1>1, <1>2 DEF TypeOK
  <1>4. pc[n] = "new"
    BY <1>1 DEF Inv, KindInv
  <1>5. /\ \A i \in DOMAIN queue : queue[i] \in 1..called
        /\ \A i \in DOMAIN startQueue : startQueue[i] \in 1..called
    <2>1. /\ \A i \in DOMAIN queue : queue[i] \in Requests
          /\ \A i \in DOMAIN startQueue : startQueue[i] \in Requests
      BY DEF TypeOK
    <2>2. \A r \in Requests : r <= called => r \in 1..called
      BY <1>1 DEF Requests
    <2> QED
      BY <2>1, <2>2 DEF Inv, LockInv, StartLockInv
  <1>6. /\ \A r \in 1..n : r # n => r \in 1..called
        /\ \A r \in 1..called : r # n /\ r < n /\ r \in Requests
    BY <1>1
  <1> QED
    BY <1>1, <1>2, <1>3, <1>4, <1>5, <1>6

\* A call waits for the lock, for the start lock or for nothing: the counters
\* grow, and with them the current intent when the call is a Stop.
Arrive(o, place, v) ==
    LET n == called + 1
    IN  /\ Called(o, place, v)
        /\ place \in Over \cup {"lockWait", "startWait"}
        /\ place = "lockWait" => o.kind # "start"
        /\ place = "startWait" => o.kind = "start"
        /\ o.kind = "start" => place # "lockWait" /\ intent'[n] = startIntent
        /\ o.kind = "stop" => startIntent' # startIntent
        /\ queue' = IF place = "lockWait" THEN Append(queue, n) ELSE queue
        /\ startQueue' = IF place = "startWait" THEN Append(startQueue, n) ELSE startQueue
        /\ version' \in Nat /\ startIntent' \in Nat
        /\ version <= version' /\ startIntent <= startIntent'
        /\ startIntent' # startIntent => version' # version
        /\ v <= version'
        /\ intent'[n] \in Nat /\ intent'[n] <= startIntent'
        /\ \A r \in Requests : r # n => intent'[r] = intent[r]

LEMMA ArriveKeeps ==
  ASSUME TypeOK, Inv, NEW o \in Ops, NEW place, NEW v \in Nat, Arrive(o, place, v)
  PROVE  Inv'
  <1> DEFINE n == called + 1
  <1>1. /\ n \in Requests /\ n \in Nat /\ called' = n /\ called \in Nat
        /\ pc[n] = "new" /\ 1..called \subseteq Requests
        /\ op'[n] = o /\ pc'[n] = place /\ ver'[n] = v
        /\ \A r \in Requests : r # n => op'[r] = op[r] /\ pc'[r] = pc[r] /\ ver'[r] = ver[r]
        /\ \A r \in 1..n : r # n => r \in 1..called
        /\ \A r \in 1..called : r # n /\ r < n /\ r \in Requests
        /\ \A i \in DOMAIN queue : queue[i] \in 1..called
        /\ \A i \in DOMAIN startQueue : startQueue[i] \in 1..called
        /\ job' = job /\ delivered' = delivered
    BY CalledFacts DEF Arrive
  <1>2. /\ place \in Over \cup {"lockWait", "startWait"}
        /\ place = "lockWait" => o.kind # "start"
        /\ place = "startWait" => o.kind = "start"
        /\ o.kind = "start" => place # "lockWait" /\ intent'[n] = startIntent
        /\ o.kind = "stop" => startIntent' # startIntent
        /\ queue' = IF place = "lockWait" THEN Append(queue, n) ELSE queue
        /\ startQueue' = IF place = "startWait" THEN Append(startQueue, n) ELSE startQueue
        /\ version' \in Nat /\ startIntent' \in Nat
        /\ version <= version' /\ startIntent <= startIntent'
        /\ startIntent' # startIntent => version' # version
        /\ v <= version'
        /\ intent'[n] \in Nat /\ intent'[n] <= startIntent'
        /\ \A r \in Requests : r # n => intent'[r] = intent[r]
    BY DEF Arrive
  <1> DEFINE m == Len(queue) + 1  k == Len(startQueue) + 1
  <1>3. /\ queue \in Seq(Requests) /\ startQueue \in Seq(Requests)
        /\ version \in Nat /\ startIntent \in Nat
        /\ ver \in [Requests -> Nat] /\ intent \in [Requests -> Nat]
    BY DEF TypeOK
  <1>4. /\ DOMAIN queue \subseteq Nat \ {0} /\ m \in Nat \ {0} /\ m \notin DOMAIN queue
        /\ m = 1 <=> queue = <<>>
        /\ \A i \in DOMAIN queue : i \in DOMAIN queue' /\ i < m /\ queue'[i] = queue[i]
        /\ place = "lockWait" => DOMAIN queue' = DOMAIN queue \cup {m} /\ queue'[m] = n
        /\ place # "lockWait" => queue' = queue
    <2>1. CASE place = "lockWait"
      <3>1. queue' = Append(queue, n)
        BY <1>2, <2>1
      <3> QED
        BY <1>1, <1>3, <2>1, <3>1, AppendFacts
    <2>2. CASE place # "lockWait"
      <3>1. queue' = queue
        BY <1>2, <2>2
      <3> QED
        BY <1>1, <1>3, <2>2, <3>1, AppendFacts
    <2> QED
      BY <2>1, <2>2
  <1>5. /\ DOMAIN startQueue \subseteq Nat \ {0} /\ k \in Nat \ {0} /\ k \notin DOMAIN startQueue
        /\ \A i \in DOMAIN startQueue :
              i \in DOMAIN startQueue' /\ i < k /\ startQueue'[i] = startQueue[i]
        /\ place = "startWait" =>
              DOMAIN startQueue' = DOMAIN startQueue \cup {k} /\ startQueue'[k] = n
        /\ place # "startWait" => startQueue' = startQueue
    <2>1. CASE place = "startWait"
      <3>1. startQueue' = Append(startQueue, n)
        BY <1>2, <2>1
      <3> QED
        BY <1>1, <1>3, <2>1, <3>1, AppendFacts
    <2>2. CASE place # "startWait"
      <3>1. startQueue' = startQueue
        BY <1>2, <2>2
      <3> QED
        BY <1>1, <1>3, <2>2, <3>1, AppendFacts
    <2> QED
      BY <2>1, <2>2
  <1>6. At(Working) => At(Working)' /\ (At({"stop"})' => At({"stop"}))
    <2> SUFFICES ASSUME queue # <<>>
                 PROVE  queue' # <<>> /\ pc'[Holder'] = pc[Holder]
      BY DEF At
    <2>1. 1 \in DOMAIN queue /\ Holder = queue[1]
      BY <1>3, TailFacts DEF Holder
    <2>2. queue' \in Seq(Requests) /\ 1 \in DOMAIN queue' /\ queue'[1] = queue[1]
      BY <1>1, <1>2, <1>3, <1>4, <2>1, AppendFacts
    <2>3. queue' # <<>> /\ Holder' = queue'[1]
      BY <2>2 DEF Holder
    <2> QED
      BY <1>1, <2>1, <2>2, <2>3
  <1> HIDE DEF n, m, k
  <1>7. LockInv'
    <2>1. \A i \in DOMAIN queue' : queue'[i] <= called'
      BY <1>1, <1>2, <1>4
    <2>2. \A i, j \in DOMAIN queue' : i < j => queue'[i] # queue'[j]
      BY <1>1, <1>2, <1>4 DEF Inv, LockInv
    <2>3. \A i \in DOMAIN queue' : pc'[queue'[i]] \in (IF i = 1 THEN InLock ELSE {"lockWait"})
      <3> SUFFICES ASSUME NEW i \in DOMAIN queue'
                   PROVE  pc'[queue'[i]] \in (IF i = 1 THEN InLock ELSE {"lockWait"})
        OBVIOUS
      <3>1. CASE i \in DOMAIN queue
        <4>1. queue'[i] = queue[i] /\ pc'[queue[i]] = pc[queue[i]]
          BY <1>1, <1>4, <3>1
        <4> QED
          BY <3>1, <4>1 DEF Inv, LockInv
      <3>2. CASE i \notin DOMAIN queue
        BY <1>1, <1>2, <1>4, <3>2 DEF InLock
      <3> QED
        BY <3>1, <3>2
    <2>4. \A r \in Requests : pc'[r] \in InLock => \E i \in DOMAIN queue' : queue'[i] = r
      <3> SUFFICES ASSUME NEW r \in Requests, pc'[r] \in InLock
                   PROVE  \E i \in DOMAIN queue' : queue'[i] = r
        OBVIOUS
      <3>1. CASE r = n
        BY <1>1, <1>2, <1>4, <3>1 DEF InLock, Running, Working, Budgeted, Over
      <3>2. CASE r # n
        BY <1>1, <1>4, <3>2 DEF Inv, LockInv
      <3> QED
        BY <3>1, <3>2
    <2>5. (job' = "none" \/ At(Working)') /\ (At({"stop"})' => job' # "refused")
      <3>1. CASE job = "none"
        BY <1>1, <3>1
      <3>2. CASE At(Working)
        BY <1>1, <1>6, <3>2 DEF Inv, LockInv
      <3> QED
        BY <3>1, <3>2 DEF Inv, LockInv
    <2> QED
      BY <2>1, <2>2, <2>3, <2>4, <2>5 DEF LockInv
  <1>8. KindInv'
    <2>1. o # None
      BY PolicyAssumption
    <2>2. \A r \in Requests : pc'[r] = "new" <=> r > called'
      <3> SUFFICES ASSUME NEW r \in Requests PROVE pc'[r] = "new" <=> r > called'
        OBVIOUS
      <3>1. CASE r = n
        BY <1>1, <1>2, <3>1 DEF Over
      <3>2. CASE r # n
        BY <1>1, <3>2 DEF Inv, KindInv, Requests, n
      <3> QED
        BY <3>1, <3>2
    <2>3. ASSUME NEW r \in 1..called'
          PROVE  /\ op'[r] # None
                 /\ pc'[r] = "stop" => op'[r].kind = "stop"
                 /\ pc'[r] \in {"startWait", "retry", "start"} => op'[r].kind = "start"
                 /\ pc'[r] \in {"save", "adoptSave", "capture", "operate"} => op'[r].kind # "start"
                 /\ pc'[r] \in {"read", "write", "confirm"} => op'[r].kind \in {"start", "mode"}
                 /\ pc'[r] \in InLock /\ op'[r].kind = "stop" => pc'[r] \in {"lockWait", "stop"}
      <3>1. CASE r = n
        BY <1>1, <1>2, <2>1, <3>1 DEF Over, InLock, Running, Working, Budgeted
      <3>2. CASE r # n
        <4>1. r \in 1..called /\ op'[r] = op[r] /\ pc'[r] = pc[r]
          BY <1>1, <3>2
        <4> QED
          BY <4>1 DEF Inv, KindInv, Kind
      <3> QED
        BY <3>1, <3>2
    <2> QED
      BY <2>2, <2>3 DEF KindInv, Kind
  <1>9. StartLockInv'
    <2>1. \A i \in DOMAIN startQueue' : startQueue'[i] <= called'
      BY <1>1, <1>2, <1>5
    <2>2. \A i, j \in DOMAIN startQueue' : i < j => startQueue'[i] < startQueue'[j]
      BY <1>1, <1>2, <1>5 DEF Inv, StartLockInv
    <2>3. ASSUME NEW i \in DOMAIN startQueue'
          PROVE  /\ op'[startQueue'[i]].kind = "start"
                 /\ pc'[startQueue'[i]] \in {"startWait", "retry"} \cup InLock
                 /\ i # 1 => pc'[startQueue'[i]] = "startWait"
      <3>1. CASE i \in DOMAIN startQueue
        <4>1. /\ startQueue'[i] = startQueue[i]
              /\ op'[startQueue[i]] = op[startQueue[i]] /\ pc'[startQueue[i]] = pc[startQueue[i]]
          BY <1>1, <1>5, <3>1
        <4> QED
          BY <3>1, <4>1 DEF Inv, StartLockInv, Kind
      <3>2. CASE i \notin DOMAIN startQueue
        BY <1>1, <1>2, <1>5, <3>2
      <3> QED
        BY <3>1, <3>2
    <2>4. ASSUME NEW r \in 1..called', op'[r].kind = "start", pc'[r] \notin Over
          PROVE  \E i \in DOMAIN startQueue' : startQueue'[i] = r
      <3>1. CASE r = n
        BY <1>1, <1>2, <1>5, <2>4, <3>1
      <3>2. CASE r # n
        <4>1. r \in 1..called /\ op'[r] = op[r] /\ pc'[r] = pc[r]
          BY <1>1, <3>2
        <4>2. PICK i \in DOMAIN startQueue : startQueue[i] = r
          BY <2>4, <4>1 DEF Inv, StartLockInv, Kind
        <4> QED
          BY <1>5, <4>2
      <3> QED
        BY <3>1, <3>2
    <2> QED
      BY <2>1, <2>2, <2>3, <2>4 DEF StartLockInv, Kind
  <1>10. FenceInv'
    <2>1. ASSUME NEW r \in Requests
          PROVE  ver'[r] <= version' /\ intent'[r] <= startIntent'
      <3>1. CASE r = n
        BY <1>1, <1>2, <3>1
      <3>2. CASE r # n
        <4>1. ver[r] <= version /\ intent[r] <= startIntent /\ ver[r] \in Nat /\ intent[r] \in Nat
          BY <1>3 DEF Inv, FenceInv
        <4>2. ver'[r] = ver[r] /\ intent'[r] = intent[r]
          BY <1>1, <1>2, <3>2
        <4>3. /\ version \in Nat /\ version' \in Nat /\ version <= version'
              /\ startIntent \in Nat /\ startIntent' \in Nat /\ startIntent <= startIntent'
          BY <1>2, <1>3
        <4> QED
          BY ONLY <4>1, <4>2, <4>3
      <3> QED
        BY <3>1, <3>2
    <2>2. ASSUME NEW r \in 1..called', op'[r].kind = "start",
                 pc'[r] \in {"read", "write", "confirm"}, ver'[r] = version'
          PROVE  intent'[r] = startIntent'
      <3>1. r # n
        BY <1>1, <1>2, <2>2 DEF Over
      <3>2. /\ r \in 1..called /\ r \in Requests /\ op'[r] = op[r] /\ pc'[r] = pc[r]
            /\ ver'[r] = ver[r] /\ intent'[r] = intent[r]
        BY <1>1, <1>2, <3>1
      <3>3. ver[r] <= version /\ ver[r] \in Nat
        BY <1>3, <3>2 DEF Inv, FenceInv
      <3>4. version' = version /\ startIntent' = startIntent
        BY <1>2, <1>3, <2>2, <3>2, <3>3
      <3> QED
        BY <2>2, <3>2, <3>4 DEF Inv, FenceInv, Kind
    <2>3. ASSUME NEW r \in 1..called', NEW s \in 1..called', op'[r].kind = "start",
                 pc'[r] \notin Over, intent'[r] = startIntent', op'[s].kind = "stop"
          PROVE  s < r
      <3>1. r # s
        BY <2>3
      <3>2. CASE r = n
        BY <1>1, <3>1, <3>2
      <3>3. CASE r # n
        <4>1. /\ r \in 1..called /\ r \in Requests /\ op'[r] = op[r] /\ pc'[r] = pc[r]
              /\ intent'[r] = intent[r]
          BY <1>1, <1>2, <3>3
        <4>2. startIntent' = startIntent
          BY <1>2, <1>3, <2>3, <4>1 DEF Inv, FenceInv
        <4>3. s # n
          BY <1>1, <1>2, <2>3, <4>2
        <4>4. s \in 1..called /\ op'[s] = op[s]
          BY <1>1, <4>3
        <4> QED
          BY <2>3, <4>1, <4>2, <4>4 DEF Inv, FenceInv, Kind
      <3> QED
        BY <3>2, <3>3
    <2> QED
      BY <2>1, <2>2, <2>3 DEF FenceInv, Kind
  <1>11. OrderInv'
    <2>1. \A d \in DOMAIN delivered : delivered[d] <= called /\ delivered[d] < n
      <3>1. \A d \in DOMAIN delivered : delivered[d] \in Requests /\ delivered[d] <= called
        BY DEF Inv, OrderInv, TypeOK
      <3> QED
        BY <1>1, <3>1 DEF Requests, n
    <2>2. ASSUME NEW i \in DOMAIN queue', NEW j \in DOMAIN queue', i < j,
                 op'[queue'[j]].kind = "stop"
          PROVE  queue'[i] < queue'[j]
      <3>1. i \in DOMAIN queue
        BY <1>2, <1>4, <2>2
      <3>2. CASE j \in DOMAIN queue
        <4>1. queue'[j] = queue[j] /\ queue'[i] = queue[i] /\ op'[queue[j]] = op[queue[j]]
          BY <1>1, <1>4, <3>1, <3>2
        <4> QED
          BY <2>2, <3>1, <3>2, <4>1 DEF Inv, OrderInv, Kind
      <3>3. CASE j \notin DOMAIN queue
        BY <1>1, <1>2, <1>4, <3>1, <3>3
      <3> QED
        BY <3>2, <3>3
    <2>3. ASSUME NEW r \in 1..called', NEW d \in DOMAIN delivered, r # n
          PROVE  /\ op'[r].kind = "stop" /\ pc'[r] \in InLock /\ Waiting(r)' => delivered[d] < r
                 /\ /\ op'[r].kind = "start" /\ pc'[r] \notin Over /\ Waiting(r)'
                    /\ intent'[r] = startIntent' \/ pc'[r] = "start"
                    => delivered[d] < r
      <3>1. /\ r \in 1..called /\ r \in Requests /\ op'[r] = op[r] /\ pc'[r] = pc[r]
            /\ intent'[r] = intent[r]
        BY <1>1, <1>2, <2>3
      <3>2. Waiting(r)' => Waiting(r)
        BY <1>1, <3>1 DEF Waiting
      <3>3. intent[r] = startIntent' => intent[r] = startIntent
        BY <1>2, <1>3, <3>1 DEF Inv, FenceInv
      <3> QED
        BY <3>1, <3>2, <3>3 DEF Inv, OrderInv, Kind
    <2>4. InCallOrder'
      BY <1>1 DEF Inv, OrderInv, InCallOrder
    <2>5. \A d \in DOMAIN delivered' : delivered'[d] <= called'
      <3>1. \A d \in DOMAIN delivered : delivered[d] \in Requests
        BY DEF TypeOK
      <3> QED
        BY <1>1, <2>1, <3>1 DEF Requests, n
    <2> QED
      BY <1>1, <2>1, <2>2, <2>3, <2>4, <2>5 DEF OrderInv, Kind
  <1> QED
    BY <1>7, <1>8, <1>9, <1>10, <1>11 DEF Inv

-----------------------------------------------------------------------------
(* A Start at the head of the start lock gives up or goes on to the lock *)

LEMMA BeginStartKeeps ==
  ASSUME TypeOK, Inv, BeginStart
  PROVE  Inv'
  <1>1. PICK r \in Requests :
          /\ startQueue # <<>> /\ Head(startQueue) = r
          /\ pc[r] \in {"startWait", "retry"}
          /\ \/ /\ pc' = [pc EXCEPT ![r] = "failed"]
                /\ startQueue' = Tail(startQueue)
                /\ ver' = ver /\ queue' = queue
             \/ /\ pc' = [pc EXCEPT ![r] = "lockWait"]
                /\ ver' = [ver EXCEPT ![r] = version]
                /\ queue' = Append(queue, r)
                /\ startQueue' = startQueue
          /\ called' = called /\ op' = op /\ intent' = intent
          /\ version' = version /\ startIntent' = startIntent
          /\ job' = job /\ delivered' = delivered
    BY DEF BeginStart, calls, fence, box
  <1>2. /\ pc \in [Requests -> States] /\ queue \in Seq(Requests) /\ startQueue \in Seq(Requests)
        /\ ver \in [Requests -> Nat] /\ version \in Nat
        /\ called \in Nat /\ 1..called \subseteq Requests
        /\ \A i \in DOMAIN queue : queue[i] \in Requests
        /\ \A i \in DOMAIN startQueue : startQueue[i] \in Requests
    <2>1. /\ pc \in [Requests -> States] /\ queue \in Seq(Requests)
          /\ startQueue \in Seq(Requests)
          /\ ver \in [Requests -> Nat] /\ version \in Nat /\ called \in 0..N
      BY DEF TypeOK
    <2>2. called \in Nat /\ 1..called \subseteq Requests
      BY <2>1, PolicyAssumption DEF Requests
    <2> QED
      BY <2>1, <2>2
  <1>3. /\ 1 \in DOMAIN startQueue /\ startQueue[1] = r
        /\ Kind(r) = "start" /\ r \in 1..called
        /\ \A i \in DOMAIN startQueue : i # 1 => r < startQueue[i] /\ startQueue[i] # r
    <2>1. 1 \in DOMAIN startQueue /\ startQueue[1] = r /\ DOMAIN startQueue \subseteq Nat \ {0}
      BY <1>1, <1>2, TailFacts
    <2>2. Kind(r) = "start" /\ r <= called /\ r \in Nat /\ r >= 1
      BY <2>1 DEF Inv, StartLockInv, Requests
    <2>3. ASSUME NEW i \in DOMAIN startQueue, i # 1
          PROVE  r < startQueue[i] /\ startQueue[i] # r
      <3>1. 1 < i
        BY <2>1, <2>3
      <3>2. r < startQueue[i] /\ startQueue[i] \in Nat
        BY <1>2, <2>1, <3>1 DEF Inv, StartLockInv, Requests
      <3> QED
        BY <2>2, <3>2
    <2> QED
      BY <1>2, <2>1, <2>2, <2>3
  <1>4. /\ pc'[r] \in {"failed", "lockWait"}
        /\ \A s \in Requests : s # r => pc'[s] = pc[s] /\ ver'[s] = ver[s]
        /\ \A s : Kind(s)' = Kind(s)
        /\ ver'[r] \in {ver[r], version}
    BY <1>1, <1>2 DEF Kind
  <1>5. \A i \in DOMAIN queue : queue[i] # r
    BY <1>1 DEF Inv, LockInv, InLock, Running, Working, Budgeted
  <1>6. queue # <<>> => /\ pc'[Holder] = pc[Holder] /\ queue' # <<>> /\ Holder' = Holder
    <2> SUFFICES ASSUME queue # <<>>
                 PROVE  pc'[Holder] = pc[Holder] /\ queue' # <<>> /\ Holder' = Holder
      OBVIOUS
    <2>1. 1 \in DOMAIN queue /\ Holder = queue[1] /\ Holder \in Requests
      BY <1>2, TailFacts DEF Holder
    <2>2. queue' \in Seq(Requests) /\ 1 \in DOMAIN queue' /\ queue'[1] = queue[1]
      <3>1. CASE queue' = queue
        BY <1>2, <2>1, <3>1
      <3>2. CASE queue' = Append(queue, r)
        BY <1>2, <2>1, <3>2
      <3> QED
        BY <1>1, <3>1, <3>2
    <2>3. queue' # <<>> /\ Holder' = queue'[1]
      BY <2>2 DEF Holder
    <2> QED
      BY <1>4, <1>5, <2>1, <2>2, <2>3
  <1>7. /\ job' = "none" \/ At(Working)'
        /\ At({"stop"})' => job' # "refused"
    <2>1. CASE job = "none"
      BY <1>1, <2>1
    <2>2. CASE At(Working)
      BY <1>1, <1>6, <2>2 DEF At, Inv, LockInv
    <2> QED
      BY <2>1, <2>2 DEF Inv, LockInv
  <1>8. KindInv'
    BY <1>1, <1>2, <1>3, <1>4 DEF Inv, KindInv
  <1>9. \A s \in 1..called : Waiting(s)' => Waiting(s) \/ s = r
    BY <1>1, <1>2, <1>4 DEF Waiting
  <1>10. Waiting(r)
    BY <1>1 DEF Waiting
  <1>11. \A s \in 1..called : pc'[s] \notin Over => pc[s] \notin Over
    BY <1>1, <1>2, <1>4 DEF Over
  <1>12. FenceInv'
    <2>1. \A s \in Requests : ver'[s] <= version /\ intent[s] <= startIntent
      BY <1>2, <1>4 DEF Inv, FenceInv
    <2>2. \A s \in 1..called : pc'[s] \in {"read", "write", "confirm"} => s # r
      BY <1>4
    <2> QED
      BY <1>1, <1>2, <1>4, <1>11, <2>1, <2>2 DEF Inv, FenceInv
  <1>13. \A s \in 1..called : \A d \in DOMAIN delivered :
           /\ Kind(s) = "stop" /\ pc'[s] \in InLock /\ Waiting(s)' => delivered[d] < s
           /\ /\ Kind(s) = "start" /\ pc'[s] \notin Over /\ Waiting(s)'
              /\ intent[s] = startIntent \/ pc'[s] = "start"
              => delivered[d] < s
    BY <1>2, <1>3, <1>4, <1>9, <1>10, <1>11 DEF Inv, OrderInv
  <1>14. CASE /\ pc' = [pc EXCEPT ![r] = "failed"] /\ startQueue' = Tail(startQueue)
              /\ ver' = ver /\ queue' = queue
    <2>1. pc'[r] = "failed"
      BY <1>2, <1>14
    <2>2. LockInv'
      BY <1>1, <1>2, <1>4, <1>5, <1>7, <1>14, <2>1
      DEF Inv, LockInv, InLock, Running, Working, Budgeted
    <2>3. StartLockInv'
      <3>1. /\ DOMAIN startQueue' \subseteq Nat \ {0} /\ DOMAIN startQueue \subseteq Nat \ {0}
            /\ \A i \in DOMAIN startQueue' :
                  i + 1 \in DOMAIN startQueue /\ startQueue'[i] = startQueue[i + 1]
            /\ \A i \in DOMAIN startQueue : i # 1 => i - 1 \in DOMAIN startQueue'
        BY <1>1, <1>2, <1>14, TailFacts
      <3>2. ASSUME NEW i \in DOMAIN startQueue'
            PROVE  /\ pc'[startQueue'[i]] = "startWait" /\ Kind(startQueue'[i]) = "start"
                   /\ startQueue'[i] <= called
        <4>1. i + 1 \in DOMAIN startQueue /\ i + 1 # 1 /\ startQueue'[i] = startQueue[i + 1]
          BY <3>1
        <4>2. startQueue[i + 1] \in Requests /\ startQueue[i + 1] # r
          BY <1>2, <1>3, <4>1
        <4> QED
          BY <1>4, <4>1, <4>2 DEF Inv, StartLockInv
      <3>3. \A i, j \in DOMAIN startQueue' : i < j => startQueue'[i] < startQueue'[j]
        BY <3>1 DEF Inv, StartLockInv
      <3>4. \A s \in 1..called : Kind(s) = "start" /\ pc'[s] \notin Over =>
                \E i \in DOMAIN startQueue' : startQueue'[i] = s
        <4> SUFFICES ASSUME NEW s \in 1..called, Kind(s) = "start", pc'[s] \notin Over
                     PROVE  \E i \in DOMAIN startQueue' : startQueue'[i] = s
          OBVIOUS
        <4>1. pc[s] \notin Over /\ s # r
          BY <1>11, <2>1 DEF Over
        <4>2. PICK i \in DOMAIN startQueue : startQueue[i] = s
          BY <4>1 DEF Inv, StartLockInv
        <4>3. i # 1 /\ i - 1 \in DOMAIN startQueue' /\ (i - 1) + 1 = i
          BY <1>3, <3>1, <4>1, <4>2
        <4> QED
          BY <3>1, <4>2, <4>3
      <3> QED
        BY <1>1, <1>4, <3>2, <3>3, <3>4 DEF StartLockInv
    <2>4. OrderInv'
      BY <1>1, <1>4, <1>13, <1>14 DEF Inv, OrderInv, InCallOrder, Kind
    <2> QED
      BY <1>8, <1>12, <2>2, <2>3, <2>4 DEF Inv
  <1>15. CASE /\ pc' = [pc EXCEPT ![r] = "lockWait"] /\ ver' = [ver EXCEPT ![r] = version]
              /\ queue' = Append(queue, r) /\ startQueue' = startQueue
    <2> DEFINE m == Len(queue) + 1
    <2>1. pc'[r] = "lockWait"
      BY <1>2, <1>15
    <2>2. /\ DOMAIN queue \subseteq Nat \ {0} /\ m \in Nat \ {0} /\ m \notin DOMAIN queue
          /\ \A i \in DOMAIN queue : i < m /\ queue'[i] = queue[i]
          /\ DOMAIN queue' = DOMAIN queue \cup {m} /\ queue'[m] = r
      BY <1>2, <1>15, AppendFacts
    <2> HIDE DEF m
    <2>3. LockInv'
      <3>1. \A i \in DOMAIN queue' : queue'[i] <= called
        BY <1>3, <2>2 DEF Inv, LockInv
      <3>2. \A i, j \in DOMAIN queue' : i < j => queue'[i] # queue'[j]
        BY <1>5, <2>2 DEF Inv, LockInv
      <3>3. \A i \in DOMAIN queue' : pc'[queue'[i]] \in (IF i = 1 THEN InLock ELSE {"lockWait"})
        <4> SUFFICES ASSUME NEW i \in DOMAIN queue'
                     PROVE  pc'[queue'[i]] \in (IF i = 1 THEN InLock ELSE {"lockWait"})
          OBVIOUS
        <4>1. CASE i = m
          BY <2>1, <2>2, <4>1 DEF InLock
        <4>2. CASE i # m
          <5>1. i \in DOMAIN queue /\ queue'[i] = queue[i] /\ pc'[queue[i]] = pc[queue[i]]
            BY <1>2, <1>4, <1>5, <2>2, <4>2
          <5> QED
            BY <5>1 DEF Inv, LockInv
        <4> QED
          BY <4>1, <4>2
      <3>4. \A s \in Requests : pc'[s] \in InLock => \E i \in DOMAIN queue' : queue'[i] = s
        BY <1>4, <2>2 DEF Inv, LockInv
      <3> QED
        BY <1>1, <1>7, <3>1, <3>2, <3>3, <3>4 DEF LockInv
    <2>4. StartLockInv'
      <3>1. \A i \in DOMAIN startQueue :
               /\ pc'[startQueue[i]] \in {"startWait", "retry"} \cup InLock
               /\ i # 1 => pc'[startQueue[i]] = "startWait"
        BY <1>2, <1>3, <1>4, <2>1 DEF Inv, StartLockInv, InLock
      <3> QED
        BY <1>1, <1>4, <1>11, <1>15, <3>1 DEF Inv, StartLockInv
    <2>5. OrderInv'
      <3>1. \A i, j \in DOMAIN queue' :
               i < j /\ op[queue'[j]].kind = "stop" => queue'[i] < queue'[j]
        BY <1>3, <2>2 DEF Inv, OrderInv, Kind
      <3> QED
        BY <1>1, <1>4, <1>13, <3>1 DEF Inv, OrderInv, InCallOrder, Kind
    <2> QED
      BY <1>8, <1>12, <2>3, <2>4, <2>5 DEF Inv
  <1> QED
    BY <1>1, <1>14, <1>15

-----------------------------------------------------------------------------
(* The actions *)

LEMMA CallsKeep ==
  ASSUME TypeOK, Inv, CallStart \/ CallOther \/ CallPower
  PROVE  Inv'
  <1>1. /\ called \in Nat /\ intent \in [Requests -> Nat] /\ version \in Nat /\ startIntent \in Nat
    BY PolicyAssumption DEF TypeOK
  <1>2. ASSUME NEW r \in Requests PROVE intent[r] \in Nat /\ intent[r] <= startIntent
    BY <1>1 DEF Inv, FenceInv
  <1>3. CASE CallStart
    <2>1. PICK o \in Ops :
             /\ o.kind = "start" /\ intent' = [intent EXCEPT ![called + 1] = startIntent]
             /\ version' = version /\ startIntent' = startIntent /\ queue' = queue
             /\ \/ Called(o, "failed", 0) /\ startQueue' = startQueue
                \/ Called(o, "done", 0) /\ startQueue' = startQueue
                \/ Called(o, "startWait", 0) /\ startQueue' = Append(startQueue, called + 1)
      BY <1>3 DEF CallStart, fence
    <2>2. called + 1 \in Requests
      BY <2>1, CalledFacts
    <2>3. /\ intent'[called + 1] = startIntent
          /\ \A r \in Requests : r # called + 1 => intent'[r] = intent[r]
      BY <1>1, <2>1, <2>2
    <2>4. \E place \in {"failed", "done", "startWait"} : Arrive(o, place, 0)
      BY <1>1, <2>1, <2>3 DEF Arrive, Over
    <2> QED
      BY <2>4, ArriveKeeps
  <1>4. ASSUME NEW o \in Ops, NEW c \in BOOLEAN, o.kind # "start", o.kind = "stop" => c,
               Invalidate(c), Called(o, "lockWait", version + 1),
               queue' = Append(queue, called + 1), intent' = intent, startQueue' = startQueue
        PROVE  Inv'
    <2>1. /\ version' = version + 1 /\ startIntent' \in {startIntent, startIntent + 1}
          /\ o.kind = "stop" => startIntent' = startIntent + 1
      BY <1>4 DEF Invalidate
    <2>2. called + 1 \in Requests
      BY <1>1, <1>4, CalledFacts
    <2>3. intent[called + 1] \in Nat /\ intent[called + 1] <= startIntent
      BY <1>2, <2>2
    <2>4. Arrive(o, "lockWait", version + 1)
      BY <1>1, <1>4, <2>1, <2>3 DEF Arrive
    <2> QED
      BY <1>1, <2>4, ArriveKeeps
  <1>5. CASE CallOther
    BY <1>4, <1>5 DEF CallOther
  <1>6. CASE CallPower
    <2>1. PICK o \in Ops :
             /\ o.kind = "power" /\ intent' = intent /\ startQueue' = startQueue
             /\ \/ /\ Called(o, "done", 0)
                   /\ version' = version /\ startIntent' = startIntent /\ queue' = queue
                \/ /\ Invalidate(FALSE) /\ Called(o, "lockWait", version + 1)
                   /\ queue' = Append(queue, called + 1)
      BY <1>6 DEF CallPower, fence
    <2>2. CASE Invalidate(FALSE) /\ Called(o, "lockWait", version + 1)
               /\ queue' = Append(queue, called + 1)
      BY <1>4, <2>1, <2>2
    <2>3. CASE Called(o, "done", 0) /\ version' = version /\ startIntent' = startIntent
               /\ queue' = queue
      <3>1. called + 1 \in Requests
        BY <2>1, <2>3, CalledFacts
      <3>2. Arrive(o, "done", 0)
        BY <1>1, <1>2, <2>1, <2>3, <3>1 DEF Arrive, Over
      <3> QED
        BY <2>1, <3>2, ArriveKeeps
    <2> QED
      BY <2>1, <2>2, <2>3
  <1> QED
    BY <1>3, <1>5, <1>6

LEMMA LeaveKeeps ==
  ASSUME TypeOK, Inv, queue # <<>>, delivered' = delivered, NEW o \in Over, Leave(o)
  PROVE  Inv'
  <1>1. Exit(o)
    BY DEF Leave, Goto, Exit, Over
  <1> QED
    BY <1>1, ExitKeeps

LEMMA SupersededKeeps ==
  ASSUME TypeOK, Inv, queue # <<>>, delivered' = delivered, Superseded, Waiting(Holder)
  PROVE  Inv'
  <1>1. CASE Leave("failed")
    BY <1>1, LeaveKeeps DEF Over
  <1>2. CASE /\ Kind(Holder) = "start" /\ Goto("retry") /\ queue' = Tail(queue) /\ job' = "none"
             /\ UNCHANGED <<calls, ver, fence, startQueue>>
    <2>1. Exit("retry")
      BY <1>2 DEF Exit, Goto
    <2> QED
      BY <2>1, ExitKeeps
  <1> QED
    BY <1>1, <1>2 DEF Superseded

LEMMA AwaitKeeps ==
  ASSUME TypeOK, Inv, queue # <<>>, delivered' = delivered,
         NEW place \in Working, NEW b, Await(place, b),
         pc[Holder] \notin {"start", "stop"},
         place = "stop" <=> Kind(Holder) = "stop",
         place = "start" => Kind(Holder) = "start" /\ intent[Holder] = startIntent,
         place \in {"capture", "operate"} => Kind(Holder) # "start",
         place \in {"read", "write", "confirm"} =>
            Kind(Holder) = "mode" \/ (Kind(Holder) = "start" /\ intent[Holder] = startIntent)
  PROVE  Inv'
  <1>1. Move(place, "queued")
    BY DEF Move, Await, Goto, Running, Working, Budgeted
  <1> QED
    BY <1>1, MoveKeeps

LEMMA AcquireKeeps ==
  ASSUME TypeOK, Inv, Acquire
  PROVE  Inv'
  <1>1. queue # <<>> /\ pc[Holder] = "lockWait" /\ delivered' = delivered /\ Waiting(Holder)
    BY DEF Acquire, At, box, Waiting
  <1>2. CASE Kind(Holder) = "start"
    <2>1. CASE Fail
      BY <1>1, <2>1, LeaveKeeps DEF Fail, Over
    <2>2. CASE Superseded
      BY <1>1, <2>2, SupersededKeeps
    <2>3. CASE Valid /\ StartValid /\ Await("read", TRUE)
      BY <1>1, <1>2, <2>3, AwaitKeeps DEF StartValid, Working, Budgeted
    <2> QED
      BY <1>2, <2>1, <2>2, <2>3 DEF Acquire
  <1>3. CASE Kind(Holder) = "stop"
    <2>1. Await("stop", FALSE)
      BY <1>3 DEF Acquire
    <2> QED
      BY <1>1, <1>3, <2>1, AwaitKeeps DEF Working
  <1>4. CASE Kind(Holder) = "close"
    <2>1. Leave("done")
      BY <1>4 DEF Acquire
    <2> QED
      BY <1>1, <2>1, LeaveKeeps DEF Over
  <1>5. CASE Kind(Holder) \notin {"start", "stop", "close"}
    <2>1. \/ Fail
          \/ \E place \in {"capture", "operate"} : Await(place, TRUE)
          \/ /\ Goto("save") /\ job' = job
             /\ UNCHANGED <<calls, ver, fence, locks, powerRequest, scope>>
      BY <1>5 DEF Acquire
    <2>2. CASE Fail
      BY <1>1, <2>2, LeaveKeeps DEF Fail, Over
    <2>3. ASSUME NEW place \in {"capture", "operate"}, Await(place, TRUE)
          PROVE  Inv'
      BY <1>1, <1>5, <2>3, AwaitKeeps DEF Working, Budgeted
    <2>4. CASE /\ Goto("save") /\ job' = job
               /\ UNCHANGED <<calls, ver, fence, locks, powerRequest, scope>>
      <3>1. job = "none"
        BY <1>1 DEF Inv, LockInv, At, Working, Budgeted
      <3>2. Move("save", "none")
        BY <1>1, <1>5, <2>4, <3>1 DEF Move, Goto, Running
      <3> QED
        BY <1>1, <3>2, MoveKeeps
    <2> QED
      BY <2>1, <2>2, <2>3, <2>4
  <1> QED
    BY <1>2, <1>3, <1>4, <1>5

LEMMA SaveKeeps ==
  ASSUME TypeOK, Inv, Save \/ AdoptSave
  PROVE  Inv'
  <1>1. /\ queue # <<>> /\ pc[Holder] \in {"save", "adoptSave"} /\ delivered' = delivered
    BY DEF Save, AdoptSave, At, box
  <1>2. CASE Leave("failed") \/ Leave("done")
    BY <1>1, <1>2, LeaveKeeps DEF Over
  <1>3. CASE Kind(Holder) = "mode" /\ Await("read", TRUE)
    BY <1>1, <1>3, AwaitKeeps DEF Working, Budgeted
  <1>4. CASE Kind(Holder) = "power" /\ Await("operate", TRUE)
    BY <1>1, <1>4, AwaitKeeps DEF Working, Budgeted
  <1> QED
    BY <1>2, <1>3, <1>4 DEF Save, AdoptSave, Fail

LEMMA ReturnKeeps ==
  ASSUME TypeOK, Inv, Return
  PROVE  Inv'
  <1>1. /\ job \in {"refused", "answered", "lost"} /\ queue # <<>> /\ pc[Holder] \in Working
        /\ pc[Holder] = "stop" => job # "refused"
        /\ delivered' = delivered
    BY DEF Return, Inv, LockInv, At
  <1>2. CASE Fail \/ Leave("done") \/ Leave("failed")
    BY <1>1, <1>2, LeaveKeeps DEF Fail, Over
  <1>3. CASE Superseded /\ Waiting(Holder)
    BY <1>1, <1>3, SupersededKeeps
  <1>4. CASE Unanswered
    <2>1. job = "refused" => Waiting(Holder)
      BY DEF Waiting, Sent
    <2> QED
      BY <1>2, <1>3, <1>4, <2>1 DEF Unanswered
  <1>5. CASE pc[Holder] \in {"read", "write", "confirm"} /\ Valid
             /\ \E place \in {"write", "confirm"} : Await(place, FALSE)
    <2>1. /\ Kind(Holder) \in {"start", "mode"}
          /\ Kind(Holder) = "start" => intent[Holder] = startIntent
      BY <1>1, <1>5, HolderFacts DEF Inv, KindInv, FenceInv, Valid
    <2>2. PICK place \in {"write", "confirm"} : Await(place, FALSE)
      BY <1>5
    <2> QED
      BY <1>1, <1>5, <2>1, <2>2, AwaitKeeps DEF Working, Budgeted
  <1>6. ASSUME pc[Holder] \in {"read", "confirm"}, Valid, NEW c, Verified(c)
        PROVE  Inv'
    <2>1. /\ Kind(Holder) \in {"start", "mode"}
          /\ Kind(Holder) = "start" => intent[Holder] = startIntent
      BY <1>1, <1>6, HolderFacts DEF Inv, KindInv, FenceInv, Valid
    <2>2. CASE Leave("done")
      BY <1>2, <2>2
    <2>3. CASE Kind(Holder) # "mode" /\ Await("start", TRUE)
      BY <1>1, <1>6, <2>1, <2>3, AwaitKeeps DEF Working, Budgeted
    <2> QED
      BY <1>6, <2>2, <2>3 DEF Verified
  <1>7. CASE job = "answered" /\ Continue
    <2>1. CASE pc[Holder] = "read"
      <3>1. CASE ~Valid
        BY <1>3, <1>7, <2>1, <3>1 DEF Continue, Waiting
      <3>2. CASE Valid
        <4>1. FirstRead
          BY <1>7, <2>1, <3>2 DEF Continue
        <4>2. \/ Fail
              \/ \E place \in {"write", "confirm"} : Await(place, FALSE)
              \/ \E c : Verified(c)
          BY <4>1 DEF FirstRead
        <4> QED
          BY <1>2, <1>5, <1>6, <2>1, <3>2, <4>2
      <3> QED
        BY <3>1, <3>2
    <2>2. CASE pc[Holder] = "write"
      <3>1. CASE ~Valid
        BY <1>3, <1>7, <2>2, <3>1 DEF Continue, Waiting
      <3>2. CASE Valid
        BY <1>5, <1>7, <2>2, <3>2 DEF Continue
      <3> QED
        BY <3>1, <3>2
    <2>3. CASE pc[Holder] = "confirm"
      <3>1. CASE ~Valid
        BY <1>3, <1>7, <2>3, <3>1 DEF Continue, Waiting
      <3>2. CASE Valid
        <4>1. NextRead
          BY <1>7, <2>3, <3>2 DEF Continue
        <4>2. \/ Fail
              \/ \E place \in {"write", "confirm"} : Await(place, FALSE)
              \/ \E c : Verified(c)
          BY <4>1 DEF NextRead
        <4> QED
          BY <1>2, <1>5, <1>6, <2>3, <3>2, <4>2
      <3> QED
        BY <3>1, <3>2
    <2>4. CASE pc[Holder] = "capture"
      <3>1. CASE ~Valid
        BY <1>3, <1>7, <2>4, <3>1 DEF Continue, Waiting
      <3>2. CASE Valid
        <4>1. /\ Goto("adoptSave") /\ job' = "none"
              /\ UNCHANGED <<calls, ver, fence, locks, powerRequest, scope>>
          BY <1>7, <2>4, <3>2 DEF Continue
        <4>2. Kind(Holder) \notin {"start", "stop"}
          BY <1>1, <2>4, HolderFacts DEF Inv, KindInv, InLock, Running
        <4>3. Move("adoptSave", "none")
          BY <1>1, <2>4, <4>1, <4>2 DEF Move, Goto, Running
        <4> QED
          BY <1>1, <4>3, MoveKeeps
      <3> QED
        BY <3>1, <3>2
    <2>5. CASE pc[Holder] \notin {"read", "write", "confirm", "capture"}
      BY <1>2, <1>7, <2>5 DEF Continue
    <2> QED
      BY <2>1, <2>2, <2>3, <2>4, <2>5
  <1> QED
    BY <1>4, <1>7 DEF Return

\* Every step keeps the order of the locks, the counters and the deliveries.
LEMMA OrderStep ==
  ASSUME TypeOK, Inv, [Next]_vars
  PROVE  Inv'
  <1>1. CASE CallStart \/ CallOther \/ CallPower
    BY <1>1, CallsKeep
  <1>2. CASE BeginStart
    BY <1>2, BeginStartKeeps
  <1>3. CASE Acquire
    BY <1>3, AcquireKeeps
  <1>4. CASE Save \/ AdoptSave
    BY <1>4, SaveKeeps
  <1>5. CASE Commit
    BY <1>5, CommitKeeps
  <1>6. CASE Send
    BY <1>6, SendKeeps
  <1>7. CASE Return
    BY <1>7, ReturnKeeps
  <1>8. CASE Refresh \/ Expire \/ UNCHANGED vars
    <2>1. /\ called' = called /\ op' = op /\ intent' = intent /\ ver' = ver /\ pc' = pc
          /\ version' = version /\ startIntent' = startIntent /\ delivered' = delivered
          /\ queue' = queue /\ startQueue' = startQueue /\ job' = job
      BY <1>8 DEF Refresh, Expire, vars, calls, fence, locks, box
    <2>2. LockInv' /\ KindInv' /\ StartLockInv'
      BY <2>1 DEF Inv, LockInv, KindInv, StartLockInv, At, Holder, Kind
    <2>3. FenceInv' /\ OrderInv'
      BY <2>1 DEF Inv, FenceInv, OrderInv, InCallOrder, Kind, Waiting
    <2> QED
      BY <2>2, <2>3 DEF Inv
  <1> QED
    BY <1>1, <1>2, <1>3, <1>4, <1>5, <1>6, <1>7, <1>8 DEF Next, HolderNext

-----------------------------------------------------------------------------
(* Types *)

ControlTypes ==
    /\ called \in 0..N
    /\ op \in [Requests -> Ops \cup {None}]
    /\ pc \in [Requests -> States]
    /\ ver \in [Requests -> Nat] /\ intent \in [Requests -> Nat]
    /\ version \in Nat /\ startIntent \in Nat /\ closed \in BOOLEAN
    /\ startQueue \in Seq(Requests) /\ queue \in Seq(Requests)
    /\ powerRequest \in (Nat \X Powers) \cup {None}
    /\ cancelled \in BOOLEAN /\ expired \in BOOLEAN
    /\ job \in Jobs

DataTypes ==
    /\ desired \in Intent /\ plan \in Intent
    /\ device \in Charger /\ report \in Charger /\ advanced \in BOOLEAN
    /\ delivered \in Seq(Requests)

LEMMA TypesSplit == TypeOK <=> ControlTypes /\ DataTypes
  BY DEF TypeOK, ControlTypes, DataTypes

LEMMA CallTypes ==
  ASSUME TypeOK, Inv, PlanInv, CallStart \/ CallOther \/ CallPower
  PROVE  TypeOK' /\ PlanInv'
  <1>1. ASSUME NEW o \in Ops, NEW place \in States \ {"write"}, NEW v \in Nat, Called(o, place, v),
               queue' \in {queue, Append(queue, called + 1)},
               startQueue' \in {startQueue, Append(startQueue, called + 1)},
               version' \in Nat, startIntent' \in Nat, closed' \in BOOLEAN,
               intent' \in [Requests -> Nat], cancelled' \in BOOLEAN,
               powerRequest' \in (Nat \X Powers) \cup {None}
        PROVE  TypeOK' /\ PlanInv'
    <2> DEFINE n == called + 1
    <2>1. n \in Requests /\ called' = n
      BY <1>1, CalledFacts
    <2>2. /\ called' \in 0..N /\ op' \in [Requests -> Ops \cup {None}]
          /\ pc' \in [Requests -> States] /\ ver' \in [Requests -> Nat]
      BY <1>1, <2>1, PolicyAssumption DEF Called, TypeOK, Requests
    <2>3. queue' \in Seq(Requests) /\ startQueue' \in Seq(Requests)
      <3>1. queue \in Seq(Requests) /\ startQueue \in Seq(Requests)
        BY DEF TypeOK
      <3>2. Append(queue, n) \in Seq(Requests) /\ Append(startQueue, n) \in Seq(Requests)
        BY <2>1, <3>1, AppendFacts
      <3> QED
        BY <1>1, <3>1, <3>2
    <2>4. expired' \in BOOLEAN /\ job' \in Jobs
      BY <1>1 DEF Called, TypeOK
    <2>5. ControlTypes'
      BY <1>1, <2>2, <2>3, <2>4 DEF ControlTypes
    <2>6. DataTypes' /\ plan' = plan
      BY <1>1 DEF Called, TypeOK, box, DataTypes
    <2>7. \A r \in Requests : pc'[r] = "write" => pc[r] = "write"
      BY <1>1, <2>1, CalledFacts
    <2> QED
      BY <2>5, <2>6, <2>7, TypesSplit DEF PlanInv, Writable, KeepsPower, ControlTypes,
         DataTypes, TypeOK
  <1>2. /\ called \in Nat /\ version \in Nat /\ startIntent \in Nat /\ closed \in BOOLEAN
        /\ intent \in [Requests -> Nat] /\ cancelled \in BOOLEAN /\ version + 1 \in Nat
        /\ powerRequest \in (Nat \X Powers) \cup {None}
    BY PolicyAssumption DEF TypeOK
  <1>3. CASE CallStart
    <2>1. [intent EXCEPT ![called + 1] = startIntent] \in [Requests -> Nat]
      BY <1>2
    <2> QED
      BY <1>1, <1>2, <1>3, <2>1 DEF CallStart, fence, States, Over
  <1>4. ASSUME NEW c \in BOOLEAN, Invalidate(c)
        PROVE  version' \in Nat /\ startIntent' \in Nat /\ cancelled' \in BOOLEAN
    BY <1>2, <1>4 DEF Invalidate, At
  <1>5. CASE CallOther
    <2>1. version' \in Nat /\ startIntent' \in Nat /\ cancelled' \in BOOLEAN
      BY <1>4, <1>5 DEF CallOther
    <2> QED
      BY <1>1, <1>2, <1>5, <2>1 DEF CallOther, States
  <1>6. CASE CallPower
    <2>1. PICK o \in Ops :
             /\ o.kind = "power"
             /\ \/ /\ Repeated(o.arg) /\ Called(o, "done", 0)
                   /\ UNCHANGED <<fence, cancelled, queue, powerRequest>>
                \/ /\ Invalidate(FALSE) /\ Called(o, "lockWait", version + 1)
                   /\ queue' = Append(queue, called + 1)
                   /\ powerRequest' = <<version + 1, o.arg>> /\ closed' = closed
             /\ intent' = intent /\ startQueue' = startQueue
      BY <1>6 DEF CallPower
    <2>2. o.arg \in Powers
      BY <2>1, PolicyAssumption
    <2>3. CASE Called(o, "done", 0) /\ UNCHANGED <<fence, cancelled, queue, powerRequest>>
      BY <1>1, <1>2, <2>1, <2>3 DEF fence, States, Over
    <2>4. CASE /\ Invalidate(FALSE) /\ Called(o, "lockWait", version + 1)
               /\ queue' = Append(queue, called + 1)
               /\ powerRequest' = <<version + 1, o.arg>> /\ closed' = closed
      <3>1. version' \in Nat /\ startIntent' \in Nat /\ cancelled' \in BOOLEAN
        BY <1>4, <2>4
      <3>2. powerRequest' \in (Nat \X Powers) \cup {None}
        BY <1>2, <2>2, <2>4
      <3> QED
        BY <1>1, <1>2, <2>1, <2>4, <3>1, <3>2 DEF States
    <2> QED
      BY <2>1, <2>3, <2>4
  <1> QED
    BY <1>3, <1>5, <1>6

\* Steps of the holder: where it goes decides the types of the control part.
LEMMA LeaveTypes ==
  ASSUME TypeOK, Inv, queue # <<>>, NEW o \in Over, Leave(o)
  PROVE  ControlTypes' /\ (PlanInv /\ plan' = plan => PlanInv')
  <1>1. Holder \in Requests /\ Tail(queue) \in Seq(Requests)
    BY TailFacts DEF TypeOK, Holder
  <1>2. startQueue' \in Seq(Requests)
    <2>1. CASE startQueue' = startQueue
      BY <2>1 DEF TypeOK
    <2>2. CASE Kind(Holder) = "start" /\ startQueue' = Tail(startQueue)
      <3>1. startQueue # <<>> /\ startQueue \in Seq(Requests)
        BY <2>2, HolderFacts DEF TypeOK
      <3> QED
        BY <2>2, <3>1, TailFacts
    <2> QED
      BY <2>1, <2>2 DEF Leave
  <1>3. pc' \in [Requests -> States]
    BY <1>1 DEF TypeOK, Leave, Goto, Over, States
  <1>4. ControlTypes'
    BY <1>1, <1>2, <1>3 DEF TypeOK, ControlTypes, Leave, calls, fence, Jobs
  <1>5. \A r \in Requests : pc'[r] = "write" => pc[r] = "write"
    BY <1>1 DEF TypeOK, Leave, Goto, Over
  <1> QED
    BY <1>4, <1>5 DEF PlanInv, Writable, KeepsPower

LEMMA SupersededTypes ==
  ASSUME TypeOK, Inv, PlanInv, queue # <<>>, Superseded
  PROVE  ControlTypes' /\ PlanInv' /\ UNCHANGED <<desired, plan>>
  <1>1. CASE Leave("failed") /\ UNCHANGED <<desired, plan>>
    BY <1>1, LeaveTypes DEF Over
  <1>2. CASE /\ Goto("retry") /\ queue' = Tail(queue)
             /\ job' = "none" /\ cancelled' = FALSE /\ expired' = FALSE
             /\ UNCHANGED <<calls, ver, fence, startQueue, powerRequest, desired, plan>>
    <2>1. Holder \in Requests /\ Tail(queue) \in Seq(Requests)
      BY TailFacts DEF TypeOK, Holder
    <2>2. pc' \in [Requests -> States]
      BY <1>2, <2>1 DEF TypeOK, Goto, States
    <2>3. ControlTypes'
      BY <1>2, <2>1, <2>2 DEF TypeOK, ControlTypes, calls, fence, Jobs
    <2>4. \A r \in Requests : pc'[r] = "write" => pc[r] = "write"
      BY <1>2, <2>1 DEF TypeOK, Goto
    <2> QED
      BY <1>2, <2>3, <2>4 DEF PlanInv, Writable, KeepsPower
  <1> QED
    BY <1>1, <1>2 DEF Superseded

\* Nobody but the holder runs.
LEMMA OnlyHolder ==
  ASSUME TypeOK, Inv, NEW r \in Requests, r # Holder
  PROVE  pc[r] \notin Running
  <1> SUFFICES ASSUME pc[r] \in Running PROVE FALSE
    OBVIOUS
  <1>1. PICK i \in DOMAIN queue : queue[i] = r
    BY DEF Inv, LockInv, InLock
  <1>2. queue # <<>> /\ queue \in Seq(Requests)
    BY <1>1 DEF TypeOK
  <1>3. i # 1
    BY <1>1, <1>2, TailFacts DEF Holder
  <1> QED
    BY <1>1, <1>3 DEF Inv, LockInv, Running, Working, Budgeted

LEMMA GotoTypes ==
  ASSUME TypeOK, Inv, queue # <<>>, NEW place \in States, Goto(place), job' \in Jobs,
         cancelled' \in BOOLEAN, expired' \in BOOLEAN,
         UNCHANGED <<calls, ver, fence, locks, powerRequest>>
  PROVE  ControlTypes' /\ (place # "write" \/ Writable(plan)' => PlanInv')
  <1>1. Holder \in Requests
    BY TailFacts DEF TypeOK, Holder
  <1>2. pc' \in [Requests -> States]
    BY <1>1 DEF TypeOK, Goto
  <1>3. ControlTypes'
    BY <1>1, <1>2 DEF TypeOK, ControlTypes, calls, fence, locks
  <1>4. ASSUME NEW r \in Requests, pc'[r] = "write"
        PROVE  place = "write"
    <2>1. CASE r = Holder
      BY <1>1, <1>4, <2>1 DEF TypeOK, Goto
    <2>2. CASE r # Holder
      <3>1. pc'[r] = pc[r] /\ pc[r] \notin Running
        BY <2>2, OnlyHolder DEF TypeOK, Goto
      <3> QED
        BY <1>4, <3>1 DEF Running, Working, Budgeted
    <2> QED
      BY <2>1, <2>2
  <1> QED
    BY <1>3, <1>4 DEF PlanInv

LEMMA AwaitTypes ==
  ASSUME TypeOK, Inv, queue # <<>>, NEW place \in Working, NEW b, Await(place, b)
  PROVE  ControlTypes' /\ (place # "write" \/ Writable(plan)' => PlanInv')
  <1>1. place \in States /\ job' \in Jobs /\ cancelled' \in BOOLEAN /\ expired' \in BOOLEAN
    BY DEF Await, States, Jobs, TypeOK, scope
  <1> QED
    BY <1>1, GotoTypes DEF Await

LEMMA AcquireTypes ==
  ASSUME TypeOK, Inv, PlanInv, Acquire
  PROVE  TypeOK' /\ PlanInv'
  <1>1. /\ queue # <<>> /\ pc[Holder] = "lockWait" /\ UNCHANGED box
        /\ Holder \in Requests /\ op[Holder] \in Ops
    BY HolderFacts DEF Acquire, At
  <1>2. ASSUME ControlTypes', PlanInv', desired' \in Intent, plan' \in Intent
        PROVE  TypeOK' /\ PlanInv'
    BY <1>1, <1>2, TypesSplit DEF TypeOK, ControlTypes, DataTypes, box
  <1>3. CASE Fail \/ (Leave("done") /\ UNCHANGED <<desired, plan>>)
    BY <1>1, <1>2, <1>3, LeaveTypes DEF Fail, Over, TypeOK
  <1>4. CASE Superseded
    BY <1>1, <1>2, <1>4, SupersededTypes DEF TypeOK
  <1>5. ASSUME NEW place \in Working \ {"write"}, NEW b, Await(place, b), UNCHANGED <<desired, plan>>
        PROVE  TypeOK' /\ PlanInv'
    BY <1>1, <1>2, <1>5, AwaitTypes DEF TypeOK
  <1>6. CASE /\ Kind(Holder) \in {"mode", "remember", "power"}
             /\ desired' = IF Kind(Holder) = "power"
                           THEN [desired EXCEPT !.power = Arg(Holder)]
                           ELSE [desired EXCEPT !.mode = Arg(Holder)]
             /\ Goto("save")
             /\ UNCHANGED <<calls, ver, fence, locks, powerRequest, scope, job, plan>>
    <2>1. desired' \in Intent
      BY <1>1, <1>6, PolicyAssumption DEF TypeOK, Intent, Kind, Arg
    <2>2. job' \in Jobs /\ cancelled' \in BOOLEAN /\ expired' \in BOOLEAN /\ plan' \in Intent
      BY <1>6 DEF TypeOK, scope
    <2>3. ControlTypes' /\ PlanInv'
      BY <1>1, <1>6, <2>2, GotoTypes DEF States
    <2> QED
      BY <1>2, <2>1, <2>2, <2>3
  <1> DEFINE K == Kind(Holder)
  <1>7. CASE K = "start"
    BY <1>3, <1>4, <1>5, <1>7 DEF Acquire, Working, Budgeted
  <1>8. CASE K = "stop"
    BY <1>5, <1>8 DEF Acquire, Working
  <1>9. CASE K = "close"
    BY <1>3, <1>9 DEF Acquire
  <1>10. CASE K \notin {"start", "stop", "close"}
    BY <1>3, <1>5, <1>6, <1>10 DEF Acquire, Working, Budgeted
  <1> QED
    BY <1>7, <1>8, <1>9, <1>10

LEMMA SaveTypes ==
  ASSUME TypeOK, Inv, PlanInv, Save \/ AdoptSave
  PROVE  TypeOK' /\ PlanInv'
  <1>1. queue # <<>> /\ UNCHANGED box /\ plan' = plan /\ desired' \in {desired, plan}
    BY DEF Save, AdoptSave, At, Fail
  <1>2. ASSUME ControlTypes', PlanInv'
        PROVE  TypeOK' /\ PlanInv'
    BY <1>1, <1>2, TypesSplit DEF TypeOK, ControlTypes, DataTypes, box
  <1>3. CASE Leave("failed") \/ Leave("done")
    BY <1>1, <1>2, <1>3, LeaveTypes DEF Over
  <1>4. CASE Await("read", TRUE) \/ Await("operate", TRUE)
    <2>1. PICK place \in {"read", "operate"} : Await(place, TRUE)
      BY <1>4
    <2>2. place \in Working /\ place # "write"
      BY DEF Working, Budgeted
    <2>3. ControlTypes' /\ PlanInv'
      BY <1>1, <2>1, <2>2, AwaitTypes
    <2> QED
      BY <1>2, <2>3
  <1> QED
    BY <1>3, <1>4 DEF Save, AdoptSave, Fail

LEMMA SendTypes ==
  ASSUME TypeOK, Inv, PlanInv, Send
  PROVE  TypeOK' /\ PlanInv'
  <1>1. /\ job = "committed" /\ job' \in {"answered", "lost"}
        /\ device' \in Effect(device) \cup {device}
        /\ report' \in {report, device'}
        /\ delivered' \in {delivered, Append(delivered, Holder)}
        /\ UNCHANGED <<calls, pc, ver, fence, locks, powerRequest, desired, scope, plan, advanced>>
    BY DEF Send
  <1>2. queue # <<>> /\ pc[Holder] \in Working
    BY <1>1 DEF Inv, LockInv, At
  <1>3. Holder \in Requests /\ op[Holder] \in Ops
    BY <1>2, HolderFacts
  <1>4. ControlTypes' /\ PlanInv'
    BY <1>1 DEF TypeOK, ControlTypes, PlanInv, Writable, KeepsPower, calls, fence, locks, scope,
       Jobs
  <1>5. delivered' \in Seq(Requests)
    <2>1. delivered \in Seq(Requests)
      BY DEF TypeOK
    <2>2. Append(delivered, Holder) \in Seq(Requests)
      BY <1>3, <2>1, AppendFacts
    <2> QED
      BY <1>1, <2>1, <2>2
  <1>6. device' \in Charger
    <2>1. device \in Charger /\ plan \in Intent
      BY DEF TypeOK
    <2>2. pc[Holder] = "write" => Writable(plan)
      BY <1>3 DEF PlanInv
    <2>3. CASE pc[Holder] = "write"
      <3> DEFINE d1 == [device EXCEPT !.mode = plan.mode]
                 w  == IF KeepsPower(plan.mode) THEN plan.power ELSE device.power
                 d2 == [d1 EXCEPT !.power = w]
      <3>1. plan.mode \in Modes /\ w \in Powers
        BY <2>1, <2>2, <2>3 DEF Writable, Charger
      <3>2. Effect(device) = {d1, d2}
        BY <2>3 DEF Effect
      <3>3. d1 \in Charger
        BY <2>1, <3>1 DEF Charger
      <3>4. d2 \in Charger
        <4> HIDE DEF d1, w
        <4> QED
          BY <3>1, <3>3 DEF Charger
      <3> QED
        BY <1>1, <2>1, <3>2, <3>3, <3>4
    <2>4. CASE pc[Holder] = "start"
      <3>1. Effect(device) \subseteq Charger
        BY <2>1, <2>4 DEF Effect, Charger
      <3> QED
        BY <1>1, <2>1, <3>1
    <2>5. CASE pc[Holder] = "stop"
      <3>1. Effect(device) \subseteq Charger
        BY <2>1, <2>5 DEF Effect, Charger
      <3> QED
        BY <1>1, <2>1, <3>1
    <2>6. CASE pc[Holder] \notin {"write", "start", "stop"}
      <3>1. Kind(Holder) = "power" => Arg(Holder) \in Powers
        BY <1>3, PolicyAssumption DEF Kind, Arg
      <3>2. Effect(device) \subseteq Charger
        BY <2>1, <2>6, <3>1 DEF Effect, Charger
      <3> QED
        BY <1>1, <2>1, <3>2
    <2> QED
      BY <2>3, <2>4, <2>5, <2>6
  <1>7. DataTypes'
    BY <1>1, <1>5, <1>6 DEF DataTypes, TypeOK
  <1> QED
    BY <1>4, <1>7, TypesSplit DEF TypeOK, ControlTypes, DataTypes

LEMMA ReturnTypes ==
  ASSUME TypeOK, Inv, PlanInv, Return
  PROVE  TypeOK' /\ PlanInv'
  <1>1. /\ queue # <<>> /\ pc[Holder] \in Working /\ Holder \in Requests /\ op[Holder] \in Ops
        /\ UNCHANGED <<device, report, delivered>>
    <2>1. queue # <<>> /\ pc[Holder] \in Working
      BY DEF Return, Inv, LockInv, At
    <2> QED
      BY <2>1, HolderFacts DEF Return
  <1>2. ASSUME ControlTypes', PlanInv', desired' \in Intent, plan' \in Intent, advanced' \in BOOLEAN
        PROVE  TypeOK' /\ PlanInv'
    BY <1>1, <1>2, TypesSplit DEF TypeOK, ControlTypes, DataTypes
  <1>3. desired \in Intent /\ plan \in Intent /\ report \in Charger /\ advanced \in BOOLEAN
        /\ device \in Charger
    BY DEF TypeOK
  <1>4. ASSUME advanced' \in BOOLEAN,
               Fail \/ (\E o \in Over : Leave(o) /\ UNCHANGED <<desired, plan>>)
        PROVE  TypeOK' /\ PlanInv'
    BY <1>1, <1>2, <1>3, <1>4, LeaveTypes DEF Fail, Over
  <1>5. ASSUME advanced' \in BOOLEAN, Superseded
        PROVE  TypeOK' /\ PlanInv'
    BY <1>1, <1>2, <1>3, <1>5, SupersededTypes
  <1>6. ASSUME advanced' \in BOOLEAN, NEW place \in Working \ {"write"}, NEW b, Await(place, b),
               UNCHANGED <<desired, plan>>
        PROVE  TypeOK' /\ PlanInv'
    BY <1>1, <1>2, <1>3, <1>6, AwaitTypes
  <1>7. ASSUME advanced' \in BOOLEAN, NEW c, Verified(c)
        PROVE  TypeOK' /\ PlanInv'
    BY <1>4, <1>6, <1>7 DEF Verified, Over, Working, Budgeted
  <1>8. CASE Unanswered /\ UNCHANGED advanced
    BY <1>3, <1>4, <1>5, <1>8 DEF Unanswered
  <1>9. CASE job = "answered" /\ Continue
    <2>1. CASE pc[Holder] = "read" /\ Valid
      <3>1. FirstRead
        BY <1>9, <2>1 DEF Continue
      <3> DEFINE power == IF KeepsPower(Target) /\ desired.power # None
                          THEN desired.power ELSE ReadPower
                 planned == [mode |-> Target, power |-> power]
      <3>2. advanced' = FALSE
        BY <3>1 DEF FirstRead
      <3>3. Target \in Modes
        <4>1. Kind(Holder) = "mode" => Arg(Holder) \in Modes
          BY <1>1, PolicyAssumption DEF Kind, Arg
        <4> QED
          BY <1>3, <4>1 DEF Target, Intent, Charger
      <3>4. power \in Powers \cup {None}
        BY <1>3 DEF ReadPower, Intent, Charger
      <3>5. \/ Fail
            \/ /\ plan' = planned /\ desired' = desired
               /\ \/ Await("confirm", FALSE)
                  \/ Await("write", FALSE) /\ ~(KeepsPower(Target) /\ power = None)
            \/ \E c : Verified(c)
        BY <3>1 DEF FirstRead
      <3>6. CASE /\ plan' = planned /\ desired' = desired
                 /\ \/ Await("confirm", FALSE)
                    \/ Await("write", FALSE) /\ ~(KeepsPower(Target) /\ power = None)
        <4>1. plan' \in Intent
          BY <3>3, <3>4, <3>6 DEF Intent
        <4>2. CASE Await("confirm", FALSE)
          <5>1. "confirm" \in Working
            BY DEF Working, Budgeted
          <5>2. ControlTypes' /\ PlanInv'
            BY <1>1, <4>2, <5>1, AwaitTypes
          <5> QED
            BY <1>2, <1>3, <3>2, <3>6, <4>1, <5>2
        <4>3. CASE Await("write", FALSE) /\ ~(KeepsPower(Target) /\ power = None)
          <5>1. Writable(plan)'
            BY <3>3, <3>4, <3>6, <4>3 DEF Writable, KeepsPower
          <5> QED
            BY <1>1, <1>2, <1>3, <3>2, <3>6, <4>1, <4>3, <5>1, AwaitTypes DEF Working, Budgeted
        <4> QED
          BY <3>6, <4>2, <4>3
      <3> QED
        BY <1>4, <1>7, <3>2, <3>5, <3>6
    <2>2. CASE pc[Holder] = "write" /\ Valid
      BY <1>3, <1>6, <1>9, <2>2 DEF Continue, Working, Budgeted
    <2>3. CASE pc[Holder] = "confirm" /\ Valid
      <3>1. NextRead /\ advanced' = advanced
        BY <1>9, <2>3 DEF Continue
      <3>2. \/ Fail
            \/ Await("confirm", FALSE) /\ UNCHANGED <<desired, plan>>
            \/ \E c : Verified(c)
        BY <3>1 DEF NextRead
      <3> QED
        BY <1>3, <1>4, <1>6, <1>7, <3>1, <3>2 DEF Working, Budgeted
    <2>4. CASE pc[Holder] = "capture" /\ Valid
      <3>1. /\ Goto("adoptSave") /\ desired' = [desired EXCEPT !.mode = report.mode]
            /\ plan' = desired /\ job' = "none" /\ advanced' = advanced
            /\ UNCHANGED <<calls, ver, fence, locks, powerRequest, scope>>
        BY <1>9, <2>4 DEF Continue
      <3>2. desired' \in Intent
        BY <1>3, <3>1 DEF Intent, Charger
      <3>3. ControlTypes' /\ PlanInv'
        <4>1. job' \in Jobs /\ cancelled' \in BOOLEAN /\ expired' \in BOOLEAN
          BY <3>1 DEF TypeOK, scope, Jobs
        <4> QED
          BY <1>1, <3>1, <4>1, GotoTypes DEF States
      <3> QED
        BY <1>2, <1>3, <3>1, <3>2, <3>3
    <2>5. CASE pc[Holder] \in {"read", "write", "confirm", "capture"} /\ ~Valid
      <3>1. Superseded /\ advanced' = advanced
        BY <1>9, <2>5 DEF Continue
      <3> QED
        BY <1>3, <1>5, <3>1
    <2>6. CASE pc[Holder] \notin {"read", "write", "confirm", "capture"}
      BY <1>3, <1>4, <1>9, <2>6 DEF Continue, Over
    <2> QED
      BY <2>1, <2>2, <2>3, <2>4, <2>5, <2>6
  <1> QED
    BY <1>8, <1>9 DEF Return

LEMMA BeginStartTypes ==
  ASSUME TypeOK, Inv, PlanInv, BeginStart
  PROVE  TypeOK' /\ PlanInv'
  <1>1. PICK r \in Requests :
          /\ startQueue # <<>>
          /\ \/ /\ pc' = [pc EXCEPT ![r] = "failed"]
                /\ startQueue' = Tail(startQueue)
                /\ ver' = ver /\ queue' = queue
             \/ /\ pc' = [pc EXCEPT ![r] = "lockWait"]
                /\ ver' = [ver EXCEPT ![r] = version]
                /\ queue' = Append(queue, r)
                /\ startQueue' = startQueue
          /\ UNCHANGED <<calls, fence, powerRequest, desired, scope, job, plan, box>>
    BY DEF BeginStart
  <1>2. startQueue' \in Seq(Requests) /\ queue' \in Seq(Requests)
    <2>1. /\ queue \in Seq(Requests) /\ startQueue \in Seq(Requests)
          /\ Tail(startQueue) \in Seq(Requests) /\ Append(queue, r) \in Seq(Requests)
      BY <1>1, TailFacts, AppendFacts DEF TypeOK
    <2> QED
      BY <1>1, <2>1
  <1>3. pc' \in [Requests -> States] /\ ver' \in [Requests -> Nat]
    BY <1>1 DEF TypeOK, States, Over
  <1>4. ControlTypes' /\ DataTypes'
    BY <1>1, <1>2, <1>3
    DEF TypeOK, ControlTypes, DataTypes, calls, fence, scope, box
  <1>5. \A s \in Requests : pc'[s] = "write" => pc[s] = "write"
    BY <1>1 DEF TypeOK
  <1> QED
    BY <1>1, <1>4, <1>5, TypesSplit
      DEF PlanInv, Writable, KeepsPower, TypeOK, ControlTypes, DataTypes

LEMMA TypeStep ==
  ASSUME TypeOK, Inv, PlanInv, [Next]_vars
  PROVE  TypeOK' /\ PlanInv'
  <1>1. CASE CallStart \/ CallOther \/ CallPower
    BY <1>1, CallTypes
  <1>2. CASE BeginStart
    BY <1>2, BeginStartTypes
  <1>3. CASE Acquire
    BY <1>3, AcquireTypes
  <1>4. CASE Save \/ AdoptSave
    BY <1>4, SaveTypes
  <1>5. CASE Send
    BY <1>5, SendTypes
  <1>6. CASE Return
    BY <1>6, ReturnTypes
  <1>7. CASE Commit
    BY <1>7 DEF Commit, TypeOK, PlanInv, Writable, KeepsPower, Jobs, calls, fence, locks, scope, box
  <1>8. CASE Refresh \/ Expire
    BY <1>8 DEF Refresh, Expire, TypeOK, PlanInv, Writable, KeepsPower, calls, fence, locks, scope,
       box
  <1>9. CASE UNCHANGED vars
    BY <1>9 DEF TypeOK, PlanInv, Writable, KeepsPower, vars, calls, fence, locks, scope, box
  <1> QED
    BY <1>1, <1>2, <1>3, <1>4, <1>5, <1>6, <1>7, <1>8, <1>9 DEF Next, HolderNext

LEMMA InitInv == Init => IInv
  <1> SUFFICES ASSUME Init PROVE IInv
    OBVIOUS
  <1>1. TypeOK
    <2>1. <<>> \in Seq(Requests)
      OBVIOUS
    <2>2. [mode |-> None, power |-> None] \in Intent
      BY DEF Intent
    <2>3. called \in 0..N
      BY PolicyAssumption DEF Init
    <2> QED
      BY <2>1, <2>2, <2>3 DEF Init, TypeOK, States, Jobs
  <1>2. /\ DOMAIN queue = {} /\ DOMAIN startQueue = {} /\ DOMAIN delivered = {}
        /\ \A r \in 1..called : FALSE
        /\ \A r \in Requests : r > called
    BY DEF Init, Requests
  <1>3. LockInv /\ KindInv /\ StartLockInv
    BY <1>2 DEF Init, LockInv, KindInv, StartLockInv, At, InLock, Running, Working, Budgeted
  <1>4. FenceInv /\ OrderInv /\ PlanInv
    BY <1>2 DEF Init, FenceInv, OrderInv, InCallOrder, PlanInv
  <1> QED
    BY <1>1, <1>3, <1>4 DEF IInv, Inv

\* The inductive invariant: the order of both locks, which kind of request is
\* where, what the two counters of _invalidate say of every waiting Start, and
\* that whatever may still be delivered is newer than what was.
THEOREM PolicyInvariant == Spec => []IInv
  <1>1. IInv /\ [Next]_vars => IInv'
    BY OrderStep, TypeStep DEF IInv
  <1> QED
    BY InitInv, <1>1, PTL DEF Spec

\* All variables keep their types: in particular what is written to the
\* charger is always a mode, never the absence of one (_write_target).
THEOREM PolicyTypes == Spec => []TypeOK
  BY PolicyInvariant, PTL DEF IInv

\* Starts and Stops reach the charger at most once each and in the order in
\* which they were asked for, for any number of requests, any mixture of
\* operations and both transports (async_start, async_stop, _invalidate).
THEOREM StartsAndStopsInOrder == Spec => []InCallOrder
  <1>1. IInv => InCallOrder
    BY DEF IInv, Inv, OrderInv
  <1> QED
    BY <1>1, PolicyInvariant, PTL

-----------------------------------------------------------------------------
(* What a request is told, what a Start relies on, and what becomes of a power *)

\* Who works under a budget is still wanted, or its budget has been told.
BudgetInv == At(Budgeted) => cancelled \/ Valid

\* After async_close has returned, nobody but a Stop gets as far as the charger.
CloseInv ==
    \A c \in 1..called : Kind(c) = "close" =>
        closed /\ (pc[c] = "done" /\ At(Working) => Kind(Holder) = "stop")

\* What the next read returns is the charger's state, where reports are not late.
ReadInv == ~RequiresAdvance => report = device

\* What a Start prepares is what is remembered.
PreparedInv ==
    At({"write", "confirm"}) /\ Kind(Holder) = "start" =>
        /\ RememberMode /\ desired.mode # None => plan.mode = desired.mode
        /\ KeepsPower(plan.mode) /\ desired.power # None => plan.power = desired.power

\* A report that has arrived since the first read tells the charger's session,
\* and its mode if nothing has been written since.
AdvancedInv ==
    /\ At({"write", "confirm"}) /\ advanced => report.session = device.session
    /\ At({"confirm"}) /\ advanced => device.mode \in {report.mode, plan.mode}
    /\ At({"write"}) /\ job = "answered" => device.mode = plan.mode

Ready ==
    /\ device.session = "idle"
    /\ RememberMode => desired.mode \in {None, device.mode}
    /\ KeepsPower(device.mode) => desired.power \in {None, device.power}

\* A Start on its way finds the charger as it was left.
ReadyInv == At({"start"}) /\ job \in {"queued", "committed"} => Ready

StartInv == ReadInv /\ PreparedInv /\ AdvancedInv /\ ReadyInv

\* The newest request of the others is the only one that is current.
Current(q) == Kind(q) # "start" /\ pc[q] \in InLock /\ ver[q] = version
NewestInv  == \A q, r \in 1..called : Current(q) /\ Current(r) => q = r

\* Nothing but Starts and the same request again was asked for since.
Unopposed(r) == \A q \in (r + 1)..called : Kind(q) = "start" \/ op[q] = op[r]

\* A power request that is current is the pending one, and the other way round.
PendingInv ==
    /\ \A q \in 1..called :
          Current(q) /\ Kind(q) = "power" => powerRequest = <<version, Arg(q)>> /\ Unopposed(q)
    /\ powerRequest # None => powerRequest[1] <= version
    /\ powerRequest # None /\ powerRequest[1] = version =>
          \E q \in 1..called : Current(q) /\ Kind(q) = "power" /\ Arg(q) = powerRequest[2]

\* A power request that will change what is remembered, or has done so.
Coming(q) == Current(q) /\ Kind(q) = "power" /\ pc[q] = "lockWait"
Taken(r)  == Kind(r) = "power" /\ pc[r] \in Running \cup {"done"}

\* The last power that was taken is remembered, unless the request it repeated
\* is still to come or has failed.
Stands(r) ==
    \/ desired.power = Arg(r) /\ \A q \in 1..called : Coming(q) => op[q] = op[r]
    \/ \E q \in 1..called : op[q] = op[r] /\ (Coming(q) \/ pc[q] = "failed")

TakenInv == \A r \in 1..called : Taken(r) /\ Unopposed(r) => Stands(r)

AdoptInv == At({"adoptSave"}) => plan.power = desired.power

PowerInv == NewestInv /\ PendingInv /\ TakenInv /\ AdoptInv

-----------------------------------------------------------------------------
(* Who holds the lock after a step *)

\* The holder, if there is one, stays where it is; a new one has only waited.
Stays ==
    /\ queue # <<>> => /\ queue' # <<>> /\ Holder' = Holder /\ pc'[Holder] = pc[Holder]
                       /\ op'[Holder] = op[Holder] /\ ver'[Holder] = ver[Holder]
    /\ queue = <<>> /\ queue' # <<>> => pc'[Holder'] = "lockWait"

\* The holder is at another place.
Goes(place) ==
    /\ queue # <<>> /\ queue' = queue /\ Holder' = Holder /\ pc'[Holder] = place
    /\ Holder \in Requests /\ pc' = [pc EXCEPT ![Holder] = place]
    /\ UNCHANGED <<calls, ver, fence>>

\* The holder has left; whoever comes next has only waited.
Leaves ==
    /\ queue # <<>> /\ queue' # <<>> => pc'[Holder'] = "lockWait"
    /\ \E o \in Over \cup {"retry"} : pc' = [pc EXCEPT ![Holder] = o]
    /\ queue' = Tail(queue) /\ UNCHANGED <<calls, ver, fence>>

\* A call leaves the holder of the lock where it is.
LEMMA CallStays ==
  ASSUME TypeOK, Inv, NEW o \in Ops, NEW place, NEW v \in Nat, Called(o, place, v),
         queue' = queue \/ (place = "lockWait" /\ queue' = Append(queue, called + 1))
  PROVE  Stays
  <1> DEFINE n == called + 1
  <1>1. /\ n \in Requests /\ pc'[n] = place
        /\ \A r \in Requests : r # n => op'[r] = op[r] /\ pc'[r] = pc[r] /\ ver'[r] = ver[r]
        /\ \A r \in 1..called : r # n /\ r < n /\ r \in Requests
    BY CalledFacts
  <1>2. CASE queue # <<>>
    <2>1. Holder \in 1..called /\ Holder = queue[1] /\ 1 \in DOMAIN queue
      BY <1>2, HolderFacts
    <2>2. queue' # <<>> /\ Holder' = Holder
      <3>1. CASE queue' = queue
        BY <1>2, <3>1 DEF Holder
      <3>2. CASE queue' = Append(queue, n)
        <4>1. queue \in Seq(Requests)
          BY DEF TypeOK
        <4> QED
          BY <1>1, <1>2, <3>2, <4>1 DEF Holder
      <3> QED
        BY <3>1, <3>2
    <2> QED
      BY <1>1, <1>2, <2>1, <2>2 DEF Stays
  <1>3. CASE queue = <<>>
    <2>1. queue' = <<>> \/ (place = "lockWait" /\ Head(queue') = n)
      BY <1>1, <1>3
    <2> QED
      BY <1>1, <1>3, <2>1 DEF Stays, Holder
  <1> QED
    BY <1>2, <1>3

\* So does a Start that joins the queue.
LEMMA BeginStays ==
  ASSUME TypeOK, Inv, BeginStart
  PROVE  /\ Stays
         /\ \A r \in Requests : pc[r] \in InLock => pc'[r] = pc[r] /\ ver'[r] = ver[r]
  <1>1. PICK r \in Requests :
          /\ pc[r] \in {"startWait", "retry"}
          /\ \/ /\ pc' = [pc EXCEPT ![r] = "failed"] /\ ver' = ver /\ queue' = queue
             \/ /\ pc' = [pc EXCEPT ![r] = "lockWait"] /\ ver' = [ver EXCEPT ![r] = version]
                /\ queue' = Append(queue, r)
          /\ UNCHANGED calls
    BY DEF BeginStart
  <1>2. \A s \in Requests : s # r => pc'[s] = pc[s] /\ ver'[s] = ver[s]
    BY <1>1 DEF TypeOK
  <1>3. r \in Requests /\ pc[r] \notin InLock
    BY <1>1 DEF InLock, Running, Working, Budgeted
  <1>4. CASE queue # <<>>
    <2>1. Holder \in Requests /\ pc[Holder] \in InLock
      BY <1>4, HolderFacts
    <2>2. queue' # <<>> /\ Holder' = Holder
      <3>1. CASE queue' = queue
        BY <1>4, <3>1 DEF Holder
      <3>2. CASE queue' = Append(queue, r)
        <4>1. queue \in Seq(Requests)
          BY DEF TypeOK
        <4> QED
          BY <1>3, <1>4, <3>2, <4>1 DEF Holder
      <3> QED
        BY <1>1, <3>1, <3>2
    <2> QED
      BY <1>1, <1>2, <1>3, <1>4, <2>1, <2>2 DEF Stays, calls
  <1>5. CASE queue = <<>>
    <2>1. queue' = <<>> \/ (pc' = [pc EXCEPT ![r] = "lockWait"] /\ Head(queue') = r)
      BY <1>1, <1>5
    <2>2. pc' = [pc EXCEPT ![r] = "lockWait"] => pc'[r] = "lockWait"
      BY DEF TypeOK
    <2>3. queue' # <<>> => pc'[Holder'] = "lockWait"
      BY <2>1, <2>2 DEF Holder
    <2> QED
      BY <1>2, <1>3, <1>5, <2>3 DEF Stays
  <1> QED
    BY <1>2, <1>3, <1>4, <1>5

\* What leaving the lock, or going elsewhere in it, means for the holder.
LEMMA Leaving ==
  ASSUME TypeOK, Inv, queue # <<>>, NEW o \in Over \cup {"retry"}, Goto(o), queue' = Tail(queue),
         UNCHANGED <<calls, ver, fence>>
  PROVE  Leaves
  <1>1. /\ Holder \in Requests /\ Holder = queue[1] /\ 1 \in DOMAIN queue
        /\ queue \in Seq(Requests) /\ pc' = [pc EXCEPT ![Holder] = o]
    BY HolderFacts DEF TypeOK, Goto
  <1>2. ASSUME queue' # <<>> PROVE pc'[Holder'] = "lockWait"
    <2>1. 2 \in DOMAIN queue /\ Holder' = queue[2] /\ queue[2] \in Requests
      BY <1>1, <1>2 DEF Holder
    <2>2. queue[2] # Holder /\ pc[queue[2]] = "lockWait"
      BY <1>1, <2>1 DEF Inv, LockInv
    <2> QED
      BY <1>1, <2>1, <2>2 DEF TypeOK
  <1> QED
    BY <1>1, <1>2 DEF Leaves

LEMMA LeaveLeaves ==
  ASSUME TypeOK, Inv, queue # <<>>, NEW o \in Over, Leave(o)
  PROVE  Leaves
  BY Leaving DEF Leave

LEMMA SupersededLeaves ==
  ASSUME TypeOK, Inv, queue # <<>>, Superseded
  PROVE  Leaves /\ UNCHANGED <<desired, plan>>
  <1>1. CASE Leave("failed") /\ UNCHANGED <<desired, plan>>
    BY <1>1, LeaveLeaves DEF Over
  <1>2. CASE Goto("retry") /\ queue' = Tail(queue) /\ UNCHANGED <<calls, ver, fence, desired, plan>>
    BY <1>2, Leaving
  <1> QED
    BY <1>1, <1>2 DEF Superseded

LEMMA Going ==
  ASSUME TypeOK, Inv, queue # <<>>, NEW place, Goto(place), UNCHANGED <<calls, ver, fence, queue>>
  PROVE  Goes(place)
  <1>1. Holder \in Requests
    BY HolderFacts
  <1> QED
    BY <1>1 DEF Goes, Goto, TypeOK, Holder

\* What is true of the holder after a step that it did not take.
LEMMA StaysAt ==
  ASSUME Stays, NEW S, "lockWait" \notin S, At(S)'
  PROVE  /\ At(S) /\ queue # <<>> /\ Holder' = Holder /\ op'[Holder] = op[Holder]
         /\ ver'[Holder] = ver[Holder] /\ pc'[Holder] = pc[Holder]
  BY DEF Stays, At, Holder

LEMMA LeavesAt ==
  ASSUME Leaves, NEW S, "lockWait" \notin S
  PROVE  ~At(S)'
  BY DEF Leaves, At, Holder

\* What a call does to the fence, the budget and the lock.
LEMMA CallDoes ==
  ASSUME TypeOK, Inv, CallStart \/ CallOther \/ CallPower
  PROVE  /\ Stays /\ UNCHANGED <<desired, job, plan, box>>
         /\ \/ UNCHANGED <<version, closed, cancelled>>
            \/ cancelled' = (cancelled \/ At(Budgeted))
         /\ called' = called + 1 /\ op'[called + 1] # None
         /\ \A r \in 1..called : op'[r] = op[r] /\ pc'[r] = pc[r] /\ ver'[r] = ver[r]
         /\ closed => closed'
         /\ op'[called + 1].kind = "close" => closed' /\ pc'[called + 1] # "done"
  <1> DEFINE Fits(o, place, v) ==
        /\ Called(o, place, v)
        /\ queue' = queue \/ (place = "lockWait" /\ queue' = Append(queue, called + 1))
        /\ closed => closed'
        /\ \/ UNCHANGED <<version, closed, cancelled>> /\ o.kind # "close"
           \/ /\ cancelled' = (cancelled \/ At(Budgeted)) /\ place = "lockWait"
              /\ o.kind = "close" => closed'
  <1>1. \E o \in Ops : \E place, v : v \in {0, version + 1} /\ Fits(o, place, v)
    <2>1. CASE CallStart
      <3>1. PICK o \in Ops : o.kind = "start" /\ UNCHANGED <<fence, queue, cancelled>>
                             /\ \E place \in {"failed", "done", "startWait"} : Called(o, place, 0)
        BY <2>1 DEF CallStart
      <3>2. PICK place : Called(o, place, 0)
        BY <3>1
      <3>3. Fits(o, place, 0)
        BY <3>1, <3>2 DEF fence
      <3> QED
        BY <3>3
    <2>2. CASE CallOther
      <3>1. PICK o \in Ops :
              /\ Invalidate(TRUE) /\ Called(o, "lockWait", version + 1)
              /\ closed' = (closed \/ o.kind = "close") /\ queue' = Append(queue, called + 1)
        BY <2>2 DEF CallOther
      <3>2. Fits(o, "lockWait", version + 1)
        BY <3>1 DEF Invalidate
      <3> QED
        BY <3>2
    <2>3. CASE CallPower
      <3>1. PICK o \in Ops :
              /\ o.kind = "power"
              /\ \/ Called(o, "done", 0) /\ UNCHANGED <<fence, cancelled, queue>>
                 \/ /\ Invalidate(FALSE) /\ Called(o, "lockWait", version + 1)
                    /\ queue' = Append(queue, called + 1) /\ closed' = closed
        BY <2>3 DEF CallPower
      <3>2. Fits(o, "done", 0) \/ Fits(o, "lockWait", version + 1)
        BY <3>1 DEF Invalidate, fence
      <3> QED
        BY <3>2
    <2> QED
      BY <2>1, <2>2, <2>3
  <1> PICK o \in Ops : \E place, v : v \in {0, version + 1} /\ Fits(o, place, v)
    BY <1>1
  <1>2. PICK place, v : v \in {0, version + 1} /\ Fits(o, place, v)
    OBVIOUS
  <1>3. v \in Nat /\ o # None
    BY <1>2, PolicyAssumption DEF TypeOK
  <1>4. Stays
    BY <1>2, <1>3, CallStays
  <1>5. /\ called' = called + 1 /\ op'[called + 1] = o /\ pc'[called + 1] = place
        /\ \A r \in 1..called : op'[r] = op[r] /\ pc'[r] = pc[r] /\ ver'[r] = ver[r]
    BY <1>2, <1>3, CalledFacts
  <1>6. UNCHANGED <<desired, job, plan, box>>
    BY <1>2 DEF Called
  <1>7. op'[called + 1].kind = "close" => closed' /\ pc'[called + 1] # "done"
    BY <1>2, <1>5
  <1> QED
    BY <1>2, <1>3, <1>4, <1>5, <1>6, <1>7

\* What a step of the holder does to the fence, the budget and the lock.
LEMMA HolderDoes ==
  ASSUME TypeOK, Inv, HolderNext
  PROVE  \/ Leaves
         \/ \E place \in Budgeted \cup {"save", "adoptSave"} :
               Goes(place) /\ Valid /\ cancelled' \in {FALSE, cancelled}
         \/ Goes("stop") /\ Kind(Holder) = "stop"
         \/ UNCHANGED <<calls, pc, ver, fence, queue, cancelled>>
  <1>1. CASE Acquire
    <2>1. queue # <<>>
      BY <1>1 DEF Acquire, At
    <2>2. CASE Fail \/ Superseded \/ Leave("done")
      BY <2>1, <2>2, LeaveLeaves, SupersededLeaves DEF Fail, Over
    <2>3. CASE Valid /\ \E place \in Budgeted : Await(place, TRUE)
      BY <2>1, <2>3, Going DEF Await, locks
    <2>4. CASE Kind(Holder) = "stop" /\ Await("stop", FALSE)
      BY <2>1, <2>4, Going DEF Await, locks
    <2>5. CASE Valid /\ Goto("save") /\ UNCHANGED <<calls, ver, fence, locks, scope>>
      BY <2>1, <2>5, Going DEF locks, scope
    <2> QED
      BY <1>1, <2>2, <2>3, <2>4, <2>5 DEF Acquire, Budgeted
  <1>2. CASE Save \/ AdoptSave
    <2>1. queue # <<>>
      BY <1>2 DEF Save, AdoptSave, At
    <2>2. CASE Leave("failed") \/ Leave("done")
      BY <2>1, <2>2, LeaveLeaves DEF Over
    <2>3. CASE Valid /\ \E place \in Budgeted : Await(place, TRUE)
      BY <2>1, <2>3, Going DEF Await, locks
    <2> QED
      BY <1>2, <2>2, <2>3 DEF Save, AdoptSave, Fail, Budgeted
  <1>3. CASE Return
    <2>1. queue # <<>>
      BY <1>3 DEF Return, Inv, LockInv, At
    <2>2. CASE Fail \/ Superseded \/ Leave("done")
      BY <2>1, <2>2, LeaveLeaves, SupersededLeaves DEF Fail, Over
    <2>3. CASE Valid /\ \E place \in Budgeted, new \in BOOLEAN : Await(place, new)
      BY <2>1, <2>3, Going DEF Await, locks, scope
    <2>4. CASE Valid /\ Goto("adoptSave") /\ UNCHANGED <<calls, ver, fence, locks, scope>>
      BY <2>1, <2>4, Going DEF locks, scope
    <2>5. ASSUME NEW c, Verified(c), Valid PROVE Leave("done") \/ (Valid /\ Await("start", TRUE))
      BY <2>5 DEF Verified
    <2>6. CASE Unanswered
      BY <2>2, <2>6 DEF Unanswered
    <2>7. CASE Continue /\ pc[Holder] \in {"read", "confirm"}
      <3>1. CASE ~Valid
        BY <2>2, <2>7, <3>1 DEF Continue
      <3>2. CASE Valid /\ FirstRead
        BY <2>2, <2>3, <2>5, <3>2 DEF FirstRead, Budgeted
      <3>3. CASE Valid /\ NextRead
        BY <2>2, <2>3, <2>5, <3>3 DEF NextRead, Budgeted
      <3> QED
        BY <2>7, <3>1, <3>2, <3>3 DEF Continue
    <2>8. CASE Continue /\ pc[Holder] \notin {"read", "confirm"}
      BY <2>2, <2>3, <2>4, <2>8 DEF Continue, Budgeted
    <2> QED
      BY <1>3, <2>6, <2>7, <2>8 DEF Return
  <1>4. CASE Commit \/ Send
    BY <1>4 DEF Commit, Send, scope, locks
  <1> QED
    BY <1>1, <1>2, <1>3, <1>4 DEF HolderNext

-----------------------------------------------------------------------------
(* Budgets, and the end of async_close *)

\* A request under a budget is current, or its budget has been told.
LEMMA BudgetStep ==
  ASSUME TypeOK, Inv, BudgetInv, [Next]_vars
  PROVE  BudgetInv'
  <1> SUFFICES ASSUME At(Budgeted)' PROVE cancelled' \/ Valid'
    BY DEF BudgetInv
  <1>0. "lockWait" \notin Budgeted
    BY DEF Budgeted
  <1>1. CASE CallStart \/ CallOther \/ CallPower
    <2>1. Stays /\ (UNCHANGED <<version, closed, cancelled>> \/ cancelled' = (cancelled \/ At(Budgeted)))
      BY <1>1, CallDoes
    <2>2. At(Budgeted) /\ Holder' = Holder /\ ver'[Holder] = ver[Holder]
      BY <1>0, <2>1, StaysAt
    <2>3. CASE UNCHANGED <<version, closed, cancelled>>
      BY <2>2, <2>3 DEF BudgetInv, Valid
    <2>4. CASE cancelled' = (cancelled \/ At(Budgeted))
      BY <2>2, <2>4
    <2> QED
      BY <2>1, <2>3, <2>4
  <1>2. CASE BeginStart
    <2>1. At(Budgeted) /\ Holder' = Holder /\ ver'[Holder] = ver[Holder]
      BY <1>0, <1>2, BeginStays, StaysAt
    <2> QED
      BY <1>2, <2>1 DEF BudgetInv, Valid, BeginStart, fence, scope
  <1>3. CASE HolderNext
    <2>1. CASE Leaves
      BY <1>0, <2>1, LeavesAt
    <2>2. ASSUME NEW place, Goes(place), Valid PROVE Valid'
      BY <2>2 DEF Goes, Valid, fence
    <2>3. CASE Goes("stop")
      BY <2>3 DEF Goes, At, Budgeted
    <2>4. CASE UNCHANGED <<calls, pc, ver, fence, queue, cancelled>>
      BY <2>4 DEF BudgetInv, At, Valid, Holder, fence
    <2> QED
      BY <1>3, <2>1, <2>2, <2>3, <2>4, HolderDoes
  <1>4. CASE Refresh \/ Expire \/ UNCHANGED vars
    BY <1>4 DEF Refresh, Expire, vars, BudgetInv, At, Valid, Holder, calls, fence, locks, scope
  <1> QED
    BY <1>1, <1>2, <1>3, <1>4 DEF Next

LEMMA CloseStep ==
  ASSUME TypeOK, Inv, CloseInv, [Next]_vars
  PROVE  CloseInv'
  <1> SUFFICES ASSUME NEW c \in 1..called', op'[c].kind = "close"
               PROVE  closed' /\ (pc'[c] = "done" /\ At(Working)' => op'[Holder'].kind = "stop")
    BY DEF CloseInv, Kind
  <1>0. /\ "lockWait" \notin Working /\ called \in Nat
        /\ \A r \in 1..called : r \in Requests
    BY PolicyAssumption DEF Working, Budgeted, TypeOK, Requests
  <1>1. CASE CallStart \/ CallOther \/ CallPower
    <2>1. /\ Stays /\ called' = called + 1
          /\ \A r \in 1..called : op'[r] = op[r] /\ pc'[r] = pc[r]
          /\ closed => closed'
          /\ op'[called + 1].kind = "close" => closed' /\ pc'[called + 1] # "done"
      BY <1>1, CallDoes
    <2>2. c = called + 1 \/ c \in 1..called
      BY <1>0, <2>1
    <2>3. ASSUME c \in 1..called, pc'[c] = "done", At(Working)' PROVE op'[Holder'].kind = "stop"
      <3>1. At(Working) /\ Holder' = Holder /\ op'[Holder] = op[Holder]
        BY <1>0, <2>1, <2>3, StaysAt
      <3> QED
        BY <2>1, <2>3, <3>1 DEF CloseInv, Kind
    <2> QED
      BY <2>1, <2>2, <2>3 DEF CloseInv, Kind
  <1>2. CASE BeginStart
    <2>1. called' = called /\ op' = op /\ closed' = closed
      BY <1>2 DEF BeginStart, calls, fence
    <2>2. ASSUME pc'[c] = "done" PROVE pc[c] = "done"
      BY <1>0, <1>2, <2>1, <2>2 DEF BeginStart, TypeOK
    <2>3. At(Working)' => At(Working) /\ Holder' = Holder
      BY <1>0, <1>2, BeginStays, StaysAt
    <2> QED
      BY <2>1, <2>2, <2>3 DEF CloseInv, Kind
  <1>3. CASE HolderNext
    <2>1. ASSUME UNCHANGED <<calls, fence>> PROVE closed' /\ called' = called /\ op' = op
      BY <2>1 DEF CloseInv, Kind, calls, fence
    <2>2. CASE Leaves
      BY <1>0, <2>1, <2>2, LeavesAt DEF Leaves
    <2>3. ASSUME NEW place \in Budgeted \cup {"save", "adoptSave"}, Goes(place), Valid
          PROVE  closed' /\ (pc'[c] = "done" /\ At(Working)' => op'[Holder'].kind = "stop")
      <3>1. FALSE
        BY <2>1, <2>3 DEF Goes, Valid, calls, fence, CloseInv, Kind
      <3> QED
        BY <3>1
    <2>4. CASE Goes("stop") /\ Kind(Holder) = "stop"
      BY <2>1, <2>4 DEF Goes, Kind
    <2>5. CASE UNCHANGED <<calls, pc, ver, fence, queue>>
      BY <2>1, <2>5 DEF CloseInv, Kind, At, Holder
    <2> QED
      BY <1>3, <2>2, <2>3, <2>4, <2>5, HolderDoes
  <1>4. CASE Refresh \/ Expire \/ UNCHANGED vars
    BY <1>4 DEF Refresh, Expire, vars, CloseInv, Kind, At, Holder, calls, fence, locks, scope
  <1> QED
    BY <1>1, <1>2, <1>3, <1>4 DEF Next

LEMMA InitBudget == Init => BudgetInv /\ CloseInv
  BY DEF Init, BudgetInv, CloseInv, At

\* Who holds the lock and its budget, told or current, after every step.
LEMMA LockDiscipline == Spec => [](IInv /\ BudgetInv /\ CloseInv)
  <1>1. IInv /\ BudgetInv /\ CloseInv /\ [Next]_vars => BudgetInv' /\ CloseInv'
    BY BudgetStep, CloseStep DEF IInv
  <1> QED
    BY InitBudget, PolicyInvariant, <1>1, PTL DEF Spec

\* A request under a budget passes its last check only while nothing newer has
\* been asked for, whatever invalidated it and however the executor thread and
\* the event loop interleave (OperationBudget.remaining, _invalidate).
THEOREM BudgetsAreFenced == Spec => FencedRequests
  <1>1. IInv /\ BudgetInv /\ [Next]_vars =>
          (job = "queued" /\ job' = "committed" /\ pc[Holder] \in Budgeted => Valid)
    <2> SUFFICES ASSUME IInv, BudgetInv, [Next]_vars,
                        job = "queued", job' = "committed", pc[Holder] \in Budgeted
                 PROVE  Valid
      OBVIOUS
    <2>1. Commit
      <3>1. ASSUME NEW o, NEW place, NEW v, Called(o, place, v) PROVE job' = job
        BY <3>1 DEF Called
      <3>2. CallStart \/ CallOther \/ CallPower => job' = job
        BY <3>1 DEF CallStart, CallOther, CallPower
      <3>3. Acquire \/ Save \/ AdoptSave => job' # "committed" \/ job' = job
        BY DEF Acquire, Save, AdoptSave, Fail, Superseded, Leave, Await
      <3>4. ~Send /\ ~Return
        BY DEF Send, Return
      <3> QED
        BY <3>2, <3>3, <3>4 DEF Next, HolderNext, BeginStart, Refresh, Expire, vars
    <2>2. ~cancelled /\ At(Budgeted)
      BY <2>1 DEF Commit, IInv, Inv, LockInv, At
    <2> QED
      BY <2>2 DEF BudgetInv
  <1> QED
    BY <1>1, LockDiscipline, PTL DEF Spec, FencedRequests

\* Once async_close has returned, nothing but a Stop reaches the charger.
THEOREM NothingIsSentAfterClose == Spec => NothingAfterClose
  <1>1. IInv /\ CloseInv =>
          (job = "committed" /\ Kind(Holder) # "stop" =>
              ~ \E c \in 1..called : Kind(c) = "close" /\ pc[c] = "done")
    BY DEF IInv, Inv, LockInv, CloseInv
  <1> QED
    BY <1>1, LockDiscipline, PTL DEF NothingAfterClose

-----------------------------------------------------------------------------
(* A Start finds the charger as it was wanted *)

Verifying == {"write", "confirm", "start"}

\* Requests that wait change nothing for the one that verifies.
LEMMA QuietKeeps ==
  ASSUME StartInv, Stays, UNCHANGED <<desired, job, plan, box>>
  PROVE  StartInv'
  <1>1. \A S : "lockWait" \notin S /\ At(S)' =>
           At(S) /\ Holder' = Holder /\ op'[Holder] = op[Holder] /\ pc'[Holder] = pc[Holder]
    BY StaysAt
  <1>2. At({"write", "confirm"})' => At({"write", "confirm"}) /\ Holder' = Holder /\ op'[Holder] = op[Holder]
    BY <1>1
  <1>3. /\ At({"confirm"})' => At({"confirm"})
        /\ At({"write"})' => At({"write"})
        /\ At({"start"})' => At({"start"})
    BY <1>1
  <1>4. ReadInv' /\ ReadyInv'
    BY <1>3 DEF StartInv, ReadInv, ReadyInv, Ready, KeepsPower, box
  <1>5. PreparedInv'
    BY <1>2 DEF StartInv, PreparedInv, KeepsPower, Kind
  <1>6. AdvancedInv'
    BY <1>2, <1>3 DEF StartInv, AdvancedInv, box
  <1> QED
    BY <1>4, <1>5, <1>6 DEF StartInv

\* Nor does a step after which nobody verifies.
LEMMA AwayKeeps ==
  ASSUME StartInv, UNCHANGED <<device, report>>, ~At(Verifying)'
  PROVE  StartInv'
  BY DEF StartInv, ReadInv, PreparedInv, AdvancedInv, ReadyInv, At, Verifying

LEMMA LeavingKeeps ==
  ASSUME StartInv, UNCHANGED <<device, report>>, Leaves
  PROVE  StartInv'
  <1>1. ~At(Verifying)'
    BY LeavesAt DEF Verifying
  <1> QED
    BY <1>1, AwayKeeps

LEMMA GoingKeeps ==
  ASSUME StartInv, UNCHANGED <<device, report>>, NEW place, Goes(place), place \notin Verifying
  PROVE  StartInv'
  <1>1. ~At(Verifying)'
    BY DEF Goes, At
  <1> QED
    BY <1>1, AwayKeeps

\* Where the holder is after it has gone somewhere.
LEMMA GoesAt ==
  ASSUME NEW place, Goes(place)
  PROVE  /\ \A S : At(S)' <=> place \in S
         /\ Holder' = Holder /\ Kind(Holder)' = Kind(Holder)
  BY DEF Goes, At, calls, Kind

LEMMA FirstReadKeeps ==
  ASSUME TypeOK, Inv, StartInv, At({"read"}), FirstRead, UNCHANGED <<device, report>>
  PROVE  StartInv'
  <1> DEFINE mismatch == ~PowerKept(Target, desired.power)
             running  == report.session = "charging" /\ report.mode = Target /\ ~mismatch
             planned  == [mode |-> Target,
                          power |-> IF KeepsPower(Target) /\ desired.power # None
                                    THEN desired.power ELSE ReadPower]
             writing  == report.mode # Target \/ mismatch
  <1>1. queue # <<>> /\ Holder \in 1..called /\ Kind(Holder) \in {"start", "mode"} /\ None \notin Modes
    BY HolderFacts, PolicyAssumption DEF At, Inv, KindInv
  <1>2. \/ Fail
        \/ \E place \in {"write", "confirm"} :
              Await(place, FALSE) /\ plan' = planned /\ desired' = desired /\ advanced' = FALSE
        \/ /\ Verified(running) /\ ~writing /\ ~RequiresAdvance
           /\ ~(report.session # "idle" /\ Kind(Holder) = "start" /\ ~running)
    BY DEF FirstRead
  <1>3. ASSUME NEW o \in Over, Leave(o) PROVE StartInv'
    BY <1>1, <1>3, LeaveLeaves, LeavingKeeps
  <1>4. ASSUME NEW place \in {"write", "confirm"}, Await(place, FALSE),
               plan' = planned, desired' = desired, advanced' = FALSE
        PROVE  StartInv'
    <2>1. Goes(place) /\ job' = "queued"
      BY <1>1, <1>4, Going DEF Await, locks, scope
    <2>2. ReadInv' /\ AdvancedInv' /\ ReadyInv'
      BY <1>4, <2>1, GoesAt DEF StartInv, ReadInv, AdvancedInv, ReadyInv
    <2>3. plan'.mode = Target /\ (KeepsPower(Target) /\ desired.power # None => plan'.power = desired.power)
      BY <1>4
    <2>4. PreparedInv'
      BY <1>4, <2>1, <2>3, GoesAt DEF PreparedInv, Target, KeepsPower
    <2> QED
      BY <2>2, <2>4 DEF StartInv
  <1>5. CASE /\ Verified(running) /\ ~writing /\ ~RequiresAdvance
             /\ ~(report.session # "idle" /\ Kind(Holder) = "start" /\ ~running)
    <2>1. CASE Kind(Holder) = "mode" \/ running
      BY <1>3, <1>5, <2>1 DEF Verified, Over
    <2>2. CASE Kind(Holder) = "start" /\ ~running
      <3>1. Await("start", TRUE) /\ UNCHANGED <<desired, plan>> /\ report.session = "idle"
        BY <1>5, <2>2 DEF Verified
      <3>2. Goes("start")
        BY <1>1, <3>1, Going DEF Await, locks
      <3>3. report = device /\ report.mode = Target /\ PowerKept(Target, desired.power)
        BY <1>5 DEF StartInv, ReadInv
      <3>4. Ready
        BY <2>2, <3>1, <3>3 DEF Ready, Target, PowerKept, ReadPower
      <3>5. Ready' /\ ReadInv'
        BY <3>1, <3>4 DEF Ready, KeepsPower, StartInv, ReadInv
      <3> QED
        BY <3>2, <3>5, GoesAt DEF StartInv, PreparedInv, AdvancedInv, ReadyInv
    <2> QED
      BY <1>1, <2>1, <2>2
  <1> QED
    BY <1>2, <1>3, <1>4, <1>5 DEF Fail, Over

LEMMA NextReadKeeps ==
  ASSUME TypeOK, Inv, StartInv, At({"confirm"}), NextRead, UNCHANGED <<device, report, advanced>>
  PROVE  StartInv'
  <1> DEFINE matches == report.mode = plan.mode /\ PowerKept(plan.mode, plan.power)
  <1>1. /\ queue # <<>> /\ Holder \in 1..called /\ Kind(Holder) \in {"start", "mode"}
        /\ pc[Holder] = "confirm"
    BY HolderFacts DEF At, Inv, KindInv
  <1>2. \/ Fail
        \/ Await("confirm", FALSE) /\ UNCHANGED <<desired, plan>>
        \/ /\ Verified(report.session = "charging") /\ matches /\ (advanced \/ ~RequiresAdvance)
           /\ ~(report.session # "idle" /\ Kind(Holder) = "start"
                /\ ~(report.session = "charging" /\ matches))
    BY DEF NextRead
  <1>3. ASSUME NEW o \in Over, Leave(o) PROVE StartInv'
    BY <1>1, <1>3, LeaveLeaves, LeavingKeeps
  <1>4. CASE Await("confirm", FALSE) /\ UNCHANGED <<desired, plan>>
    <2>1. Goes("confirm") /\ job' = "queued"
      BY <1>1, <1>4, Going DEF Await, locks, scope
    <2>2. /\ At({"write", "confirm"}) /\ At({"confirm"}) /\ ~At({"write"})' /\ ~At({"start"})'
          /\ Kind(Holder)' = Kind(Holder)
      <3>1. At({"write", "confirm"}) /\ At({"confirm"})
        BY <1>1 DEF At
      <3>2. ~At({"write"})' /\ ~At({"start"})' /\ Kind(Holder)' = Kind(Holder)
        BY <2>1, GoesAt
      <3> QED
        BY <3>1, <3>2
    <2>3. ReadInv' /\ AdvancedInv' /\ ReadyInv'
      BY <1>4, <2>2 DEF StartInv, ReadInv, AdvancedInv, ReadyInv
    <2>4. PreparedInv'
      BY <1>4, <2>2 DEF StartInv, PreparedInv, KeepsPower
    <2> QED
      BY <2>3, <2>4 DEF StartInv
  <1>5. CASE /\ Verified(report.session = "charging") /\ matches /\ (advanced \/ ~RequiresAdvance)
             /\ ~(report.session # "idle" /\ Kind(Holder) = "start"
                  /\ ~(report.session = "charging" /\ matches))
    <2>1. CASE Kind(Holder) = "mode" \/ report.session = "charging"
      BY <1>3, <1>5, <2>1 DEF Verified, Over
    <2>2. CASE Kind(Holder) = "start" /\ report.session # "charging"
      <3>1. Await("start", TRUE) /\ UNCHANGED <<desired, plan>> /\ report.session = "idle"
        BY <1>5, <2>2 DEF Verified
      <3>2. Goes("start")
        BY <1>1, <3>1, Going DEF Await, locks
      <3>3. device.session = "idle" /\ device.mode = plan.mode /\ report.mode = plan.mode
        BY <1>1, <1>5, <3>1 DEF StartInv, ReadInv, AdvancedInv, At
      <3>4. /\ RememberMode /\ desired.mode # None => plan.mode = desired.mode
            /\ KeepsPower(plan.mode) /\ desired.power # None => plan.power = desired.power
        BY <1>1, <2>2 DEF StartInv, PreparedInv, At
      <3>5. Ready
        BY <1>5, <3>3, <3>4 DEF Ready, PowerKept, ReadPower
      <3>6. Ready' /\ ReadInv'
        BY <3>1, <3>5 DEF Ready, KeepsPower, StartInv, ReadInv
      <3> QED
        BY <3>2, <3>6, GoesAt DEF StartInv, PreparedInv, AdvancedInv, ReadyInv
    <2> QED
      BY <1>1, <2>1, <2>2
  <1> QED
    BY <1>2, <1>3, <1>4, <1>5 DEF Fail, Over

LEMMA ReturnKeepsStart ==
  ASSUME TypeOK, Inv, StartInv, Return
  PROVE  StartInv'
  <1>1. queue # <<>> /\ pc[Holder] \in Working /\ UNCHANGED <<device, report>>
    BY DEF Return, Inv, LockInv, At
  <1>2. ASSUME NEW o \in Over, Leave(o) PROVE StartInv'
    BY <1>1, <1>2, LeaveLeaves, LeavingKeeps
  <1>3. CASE Superseded
    BY <1>1, <1>3, SupersededLeaves, LeavingKeeps
  <1>4. CASE Unanswered
    BY <1>2, <1>3, <1>4 DEF Unanswered, Fail, Over
  <1>5. CASE job = "answered" /\ Continue
    <2>1. CASE pc[Holder] = "read" /\ Valid
      BY <1>1, <1>5, <2>1, FirstReadKeeps DEF Continue, At
    <2>2. CASE pc[Holder] = "confirm" /\ Valid
      BY <1>1, <1>5, <2>2, NextReadKeeps DEF Continue, At
    <2>3. CASE pc[Holder] = "write" /\ Valid
      <3>1. Await("confirm", FALSE) /\ UNCHANGED <<desired, plan, advanced>>
        BY <1>5, <2>3 DEF Continue
      <3>2. Goes("confirm")
        BY <1>1, <3>1, Going DEF Await, locks, scope
      <3>3. /\ At({"write", "confirm"}) /\ At({"write"}) /\ ~At({"write"})' /\ ~At({"start"})'
            /\ Kind(Holder)' = Kind(Holder)
        <4>1. At({"write", "confirm"}) /\ At({"write"})
          BY <1>1, <2>3 DEF At
        <4>2. ~At({"write"})' /\ ~At({"start"})' /\ Kind(Holder)' = Kind(Holder)
          BY <3>2, GoesAt
        <4> QED
          BY <4>1, <4>2
      <3>4. ReadInv' /\ AdvancedInv' /\ ReadyInv'
        BY <1>1, <1>5, <3>1, <3>3 DEF StartInv, ReadInv, AdvancedInv, ReadyInv
      <3>5. PreparedInv'
        BY <3>1, <3>3 DEF StartInv, PreparedInv, KeepsPower
      <3> QED
        BY <3>4, <3>5 DEF StartInv
    <2>4. CASE pc[Holder] = "capture" /\ Valid
      <3>1. Goto("adoptSave") /\ UNCHANGED <<calls, ver, fence, locks>>
        BY <1>5, <2>4 DEF Continue
      <3>2. Goes("adoptSave")
        BY <1>1, <3>1, Going DEF locks
      <3> QED
        BY <1>1, <3>2, GoingKeeps DEF Verifying
    <2>5. CASE pc[Holder] \in {"read", "write", "confirm", "capture"} /\ ~Valid
      BY <1>3, <1>5, <2>5 DEF Continue
    <2>6. CASE pc[Holder] \notin {"read", "write", "confirm", "capture"}
      BY <1>2, <1>5, <2>6 DEF Continue, Over
    <2> QED
      BY <2>1, <2>2, <2>3, <2>4, <2>5, <2>6
  <1> QED
    BY <1>4, <1>5 DEF Return

LEMMA SendKeepsStart ==
  ASSUME TypeOK, Inv, StartInv, Send
  PROVE  StartInv'
  <1>1. /\ queue # <<>> /\ pc[Holder] \in Working /\ job' \in {"answered", "lost"}
        /\ device' \in Effect(device) \cup {device}
        /\ job' = "answered" => device' \in Effect(device)
        /\ report' = IF RequiresAdvance THEN report ELSE device'
        /\ UNCHANGED <<calls, pc, ver, fence, locks, desired, plan, advanced>>
    BY DEF Send, Inv, LockInv, At
  <1>2. \A S : At(S)' = At(S)
    BY <1>1 DEF At, Holder, locks
  <1>3. device \in Charger /\ plan \in Intent
    BY DEF TypeOK
  <1>4. ReadInv' /\ ReadyInv'
    BY <1>1 DEF ReadInv, ReadyInv
  <1>5. PreparedInv'
    BY <1>1, <1>2 DEF StartInv, PreparedInv, KeepsPower, Kind, Holder, calls, locks
  <1>6. pc[Holder] = "confirm" => device' = device
    BY <1>1 DEF Effect
  <1>7. pc[Holder] = "write" => /\ device'.session = device.session
                                /\ job' = "answered" => device'.mode = plan.mode
    BY <1>1, <1>3 DEF Effect, Charger
  <1>8. AdvancedInv'
    <2>1. pc[Holder] \in {"write", "confirm"} /\ advanced => report'.session = device'.session
      BY <1>1, <1>6, <1>7 DEF StartInv, AdvancedInv, At
    <2>2. pc[Holder] = "confirm" /\ advanced => device'.mode \in {report'.mode, plan.mode}
      BY <1>1, <1>6 DEF StartInv, AdvancedInv, At
    <2> QED
      BY <1>1, <1>2, <1>7, <2>1, <2>2 DEF AdvancedInv, At
  <1> QED
    BY <1>4, <1>5, <1>8 DEF StartInv

LEMMA StartStep ==
  ASSUME TypeOK, Inv, StartInv, [Next]_vars
  PROVE  StartInv'
  <1>1. CASE CallStart \/ CallOther \/ CallPower
    BY <1>1, CallDoes, QuietKeeps
  <1>2. CASE BeginStart
    BY <1>2, BeginStays, QuietKeeps DEF BeginStart
  <1>3. CASE Acquire
    <2>1. queue # <<>> /\ UNCHANGED <<device, report>>
      BY <1>3 DEF Acquire, At, box
    <2>2. CASE Fail \/ Superseded \/ Leave("done")
      BY <2>1, <2>2, LeaveLeaves, SupersededLeaves, LeavingKeeps DEF Fail, Over
    <2>3. ASSUME NEW place, NEW b, Await(place, b), place \notin Verifying PROVE StartInv'
      BY <2>1, <2>3, Going, GoingKeeps DEF Await, locks
    <2>4. CASE Goto("save") /\ UNCHANGED <<calls, ver, fence, locks>>
      BY <2>1, <2>4, Going, GoingKeeps DEF locks, Verifying
    <2> QED
      BY <1>3, <2>2, <2>3, <2>4 DEF Acquire, Verifying
  <1>4. CASE Save \/ AdoptSave
    <2>1. queue # <<>> /\ UNCHANGED <<device, report>>
      BY <1>4 DEF Save, AdoptSave, At, box
    <2>2. CASE Leave("failed") \/ Leave("done")
      BY <2>1, <2>2, LeaveLeaves, LeavingKeeps DEF Over
    <2>3. ASSUME NEW place, NEW b, Await(place, b), place \notin Verifying PROVE StartInv'
      BY <2>1, <2>3, Going, GoingKeeps DEF Await, locks
    <2> QED
      BY <1>4, <2>2, <2>3 DEF Save, AdoptSave, Fail, Verifying
  <1>5. CASE Commit \/ Expire \/ UNCHANGED vars
    <2>1. /\ UNCHANGED <<calls, pc, queue, desired, plan, box>>
          /\ job' = job \/ (job = "queued" /\ job' \in {"refused", "committed"})
      BY <1>5 DEF Commit, Expire, vars, locks
    <2>2. /\ \A S : At(S)' = At(S)
          /\ Kind(Holder)' = Kind(Holder)
      BY <2>1 DEF At, Holder, Kind, calls
    <2>3. ReadInv' /\ PreparedInv' /\ AdvancedInv'
      BY <2>1, <2>2 DEF StartInv, ReadInv, PreparedInv, AdvancedInv, KeepsPower, box
    <2>4. ReadyInv'
      BY <2>1, <2>2 DEF StartInv, ReadyInv, Ready, KeepsPower, box
    <2> QED
      BY <2>3, <2>4 DEF StartInv
  <1>6. CASE Refresh
    <2>1. /\ UNCHANGED <<calls, pc, queue, job, desired, plan, device>>
          /\ RequiresAdvance /\ report' = device /\ advanced' = TRUE
      BY <1>6 DEF Refresh, locks
    <2>2. /\ \A S : At(S)' = At(S)
          /\ Kind(Holder)' = Kind(Holder)
      BY <2>1 DEF At, Holder, Kind, calls
    <2>3. ReadInv' /\ PreparedInv' /\ AdvancedInv'
      BY <2>1, <2>2 DEF StartInv, ReadInv, PreparedInv, AdvancedInv, KeepsPower
    <2>4. ReadyInv'
      BY <2>1, <2>2 DEF StartInv, ReadyInv, Ready, KeepsPower
    <2> QED
      BY <2>3, <2>4 DEF StartInv
  <1> QED
    BY <1>1, <1>2, <1>3, <1>4, <1>5, <1>6, SendKeepsStart, ReturnKeepsStart DEF Next, HolderNext

\* A Start goes out only to an idle charger in the wanted mode with the wanted
\* ceiling, however late the cloud's reports are and whatever was asked for in
\* between (_verify_inner, _wait_for_mode).
THEOREM StartsFindTheWantedMode == Spec => StartAsWanted
  <1>1. Init => StartInv
    BY DEF Init, StartInv, ReadInv, PreparedInv, AdvancedInv, ReadyInv, At
  <1>2. IInv /\ StartInv /\ [Next]_vars => StartInv'
    BY StartStep DEF IInv
  <1>3. IInv /\ StartInv =>
          (job = "committed" /\ pc[Holder] = "start" =>
             /\ device.session = "idle"
             /\ RememberMode => desired.mode \in {None, device.mode}
             /\ KeepsPower(device.mode) => desired.power \in {None, device.power})
    BY DEF IInv, Inv, LockInv, At, StartInv, ReadyInv, Ready
  <1> QED
    BY <1>1, <1>2, <1>3, PolicyInvariant, PTL DEF Spec, StartAsWanted

-----------------------------------------------------------------------------
(* The power that was asked for last is the one remembered *)

\* The holder of the lock passes to x, in the lock or out of it.
Passes(x) ==
    /\ queue # <<>> /\ x \in Running \cup Over \cup {"retry"}
    /\ pc' = [pc EXCEPT ![Holder] = x]
    /\ powerRequest' = IF /\ x \notin Running /\ Kind(Holder) = "power"
                          /\ powerRequest = <<ver[Holder], Arg(Holder)>>
                       THEN None ELSE powerRequest
    /\ \/ desired'.power = desired.power
       \/ desired'.power = Arg(Holder) /\ Kind(Holder) = "power" /\ x = "save"
    /\ Kind(Holder) = "power" /\ pc[Holder] = "lockWait" =>
          x = "failed" \/ (x = "save" /\ desired'.power = Arg(Holder) /\ ver[Holder] = version)
    /\ desired'.power # desired.power => pc[Holder] = "lockWait"
    /\ At({"adoptSave"})' => plan'.power = desired'.power
    /\ UNCHANGED <<calls, ver, fence>>

LEMMA LeavePasses ==
  ASSUME TypeOK, Inv, queue # <<>>, NEW o \in Over, Leave(o), desired'.power = desired.power,
         pc[Holder] = "lockWait" /\ Kind(Holder) = "power" => o = "failed"
  PROVE  Passes(o)
  <1>1. ~At({"adoptSave"})'
    BY LeaveLeaves, LeavesAt
  <1>2. o \notin Running
    BY DEF Over, Running, Working, Budgeted
  <1> QED
    BY <1>1, <1>2 DEF Passes, Leave, Goto

LEMMA SupersededPasses ==
  ASSUME TypeOK, Inv, queue # <<>>, Superseded
  PROVE  \E x : Passes(x)
  <1>1. CASE Leave("failed") /\ UNCHANGED <<desired, plan>>
    BY <1>1, LeavePasses DEF Over
  <1>2. CASE /\ Kind(Holder) = "start" /\ Goto("retry")
             /\ UNCHANGED <<calls, ver, fence, powerRequest, desired, plan>>
    <2>1. ~At({"adoptSave"})'
      BY SupersededLeaves, LeavesAt
    <2> QED
      BY <1>2, <2>1 DEF Passes, Goto
  <1> QED
    BY <1>1, <1>2 DEF Superseded

LEMMA AwaitPasses ==
  ASSUME TypeOK, Inv, queue # <<>>, NEW place \in Working, NEW b, Await(place, b),
         desired'.power = desired.power,
         pc[Holder] = "lockWait" => Kind(Holder) # "power"
  PROVE  Passes(place)
  <1>1. Goes(place) /\ place # "adoptSave" /\ place \in Running
    BY Going DEF Await, locks, Running, Working, Budgeted
  <1>2. ~At({"adoptSave"})'
    BY <1>1, GoesAt
  <1> QED
    BY <1>1, <1>2 DEF Passes, Await, Goto

LEMMA AcquirePasses ==
  ASSUME TypeOK, Inv, Acquire
  PROVE  \E x : Passes(x)
  <1> DEFINE kind == Kind(Holder)
  <1>1. queue # <<>> /\ pc[Holder] = "lockWait" /\ op[Holder] \in Ops /\ desired \in Intent
    BY HolderFacts DEF Acquire, At, TypeOK
  <1>2. CASE Fail
    BY <1>1, <1>2, LeavePasses DEF Fail, Over
  <1>3. CASE Superseded
    BY <1>1, <1>3, SupersededPasses
  <1>4. CASE Leave("done") /\ kind = "close" /\ UNCHANGED <<desired, plan>>
    BY <1>1, <1>4, LeavePasses DEF Over
  <1>5. ASSUME NEW place \in Working, NEW b, Await(place, b), kind # "power", UNCHANGED <<desired, plan>>
        PROVE  \E x : Passes(x)
    BY <1>1, <1>5, AwaitPasses
  <1>6. CASE /\ Valid
             /\ desired' = IF kind = "power" THEN [desired EXCEPT !.power = Arg(Holder)]
                           ELSE [desired EXCEPT !.mode = Arg(Holder)]
             /\ Goto("save")
             /\ UNCHANGED <<calls, ver, fence, locks, powerRequest, scope, job, plan>>
    <2>1. Goes("save")
      BY <1>1, <1>6, Going DEF locks
    <2>2. ~At({"adoptSave"})'
      BY <2>1, GoesAt
    <2>3. desired'.power = IF kind = "power" THEN Arg(Holder) ELSE desired.power
      BY <1>1, <1>6 DEF Intent
    <2> QED
      BY <1>1, <1>6, <2>2, <2>3 DEF Passes, Goto, Valid, Running
  <1>7. CASE kind = "start"
    BY <1>2, <1>3, <1>5, <1>7 DEF Acquire, Working, Budgeted
  <1>8. CASE kind = "stop"
    BY <1>5, <1>8 DEF Acquire, Working
  <1>9. CASE kind = "close"
    BY <1>4, <1>9 DEF Acquire
  <1>10. CASE kind \notin {"start", "stop", "close"}
    BY <1>2, <1>5, <1>6, <1>10 DEF Acquire, Working, Budgeted
  <1> QED
    BY <1>7, <1>8, <1>9, <1>10

LEMMA SavePasses ==
  ASSUME TypeOK, Inv, AdoptInv, Save \/ AdoptSave
  PROVE  \E x : Passes(x)
  <1>1. queue # <<>> /\ pc[Holder] # "lockWait" /\ desired'.power = desired.power
    BY DEF Save, AdoptSave, At, Fail, AdoptInv
  <1>2. CASE Leave("failed") \/ Leave("done")
    BY <1>1, <1>2, LeavePasses DEF Over
  <1>3. CASE Await("read", TRUE) \/ Await("operate", TRUE)
    BY <1>1, <1>3, AwaitPasses DEF Working, Budgeted
  <1> QED
    BY <1>2, <1>3 DEF Save, AdoptSave, Fail

LEMMA ReturnPasses ==
  ASSUME TypeOK, Inv, Return
  PROVE  \E x : Passes(x)
  <1>1. queue # <<>> /\ pc[Holder] \in Working /\ pc[Holder] # "lockWait" /\ desired \in Intent
    BY DEF Return, Inv, LockInv, At, Working, Budgeted, TypeOK
  <1>2. ASSUME NEW o \in Over, Leave(o), desired' = desired PROVE \E x : Passes(x)
    BY <1>1, <1>2, LeavePasses
  <1>3. CASE Superseded
    BY <1>1, <1>3, SupersededPasses
  <1>4. ASSUME NEW place \in Working, NEW b, Await(place, b), desired' = desired
        PROVE  \E x : Passes(x)
    BY <1>1, <1>4, AwaitPasses
  <1>5. CASE Unanswered
    BY <1>2, <1>3, <1>5 DEF Unanswered, Fail, Over
  <1>6. ASSUME NEW c, Verified(c) PROVE \E x : Passes(x)
    BY <1>2, <1>4, <1>6 DEF Verified, Over, Working, Budgeted
  <1>7. CASE Continue
    <2>1. CASE pc[Holder] = "read" /\ Valid
      <3>1. FirstRead
        BY <1>7, <2>1 DEF Continue
      <3>2. \/ Fail
            \/ \E place \in {"write", "confirm"} : Await(place, FALSE) /\ desired' = desired
            \/ \E c : Verified(c)
        BY <3>1 DEF FirstRead
      <3> QED
        BY <1>2, <1>4, <1>6, <3>2 DEF Fail, Over, Working, Budgeted
    <2>2. CASE pc[Holder] = "confirm" /\ Valid
      <3>1. NextRead
        BY <1>7, <2>2 DEF Continue
      <3> QED
        BY <1>2, <1>4, <1>6, <3>1 DEF NextRead, Fail, Over, Working, Budgeted
    <2>3. CASE pc[Holder] = "write" /\ Valid
      BY <1>4, <1>7, <2>3 DEF Continue, Working, Budgeted
    <2>4. CASE pc[Holder] = "capture" /\ Valid
      <3>1. /\ Goto("adoptSave") /\ desired' = [desired EXCEPT !.mode = report.mode]
            /\ plan' = desired /\ UNCHANGED <<calls, ver, fence, locks, powerRequest>>
        BY <1>7, <2>4 DEF Continue
      <3>2. desired'.power = desired.power /\ plan'.power = desired.power
        BY <1>1, <3>1 DEF Intent
      <3> QED
        BY <1>1, <3>1, <3>2 DEF Passes, Goto, Running
    <2>5. CASE pc[Holder] \in {"read", "write", "confirm", "capture"} /\ ~Valid
      BY <1>3, <1>7, <2>5 DEF Continue
    <2>6. CASE pc[Holder] \notin {"read", "write", "confirm", "capture"}
      BY <1>2, <1>7, <2>6 DEF Continue, Over
    <2> QED
      BY <2>1, <2>2, <2>3, <2>4, <2>5, <2>6
  <1> QED
    BY <1>5, <1>7 DEF Return

\* Which requests are current, taken or coming does not change.
Alike ==
    /\ UNCHANGED <<called, version, powerRequest>> /\ desired'.power = desired.power
    /\ \A r \in 1..called :
          /\ op'[r] = op[r]
          /\ Current(r)' <=> Current(r)
          /\ Kind(r) = "power" => pc'[r] = pc[r]

LEMMA AlikeKeeps ==
  ASSUME NewestInv, PendingInv, TakenInv, Alike
  PROVE  NewestInv' /\ PendingInv' /\ TakenInv'
  <1>1. \A r \in 1..called : /\ Kind(r)' = Kind(r) /\ Arg(r)' = Arg(r) /\ Unopposed(r)' = Unopposed(r)
                             /\ Coming(r)' <=> Coming(r)
                             /\ Taken(r)' <=> Taken(r)
    BY DEF Alike, Kind, Arg, Unopposed, Coming, Taken
  <1>2. NewestInv'
    BY DEF Alike, NewestInv
  <1>3. PendingInv'
    BY <1>1 DEF Alike, PendingInv
  <1>4. ASSUME NEW r \in 1..called, Stands(r), Taken(r) PROVE Stands(r)'
    <2>1. CASE desired.power = Arg(r) /\ \A q \in 1..called : Coming(q) => op[q] = op[r]
      BY <1>1, <2>1 DEF Alike, Stands
    <2>2. ASSUME NEW q \in 1..called, op[q] = op[r], Coming(q) \/ pc[q] = "failed"
          PROVE  Stands(r)'
      <3>1. Kind(q) = "power"
        BY <1>4, <2>2 DEF Taken, Kind
      <3>2. op'[q] = op'[r] /\ (Coming(q)' \/ pc'[q] = "failed")
        BY <1>1, <2>2, <3>1 DEF Alike
      <3> QED
        BY <3>2 DEF Alike, Stands
    <2> QED
      BY <1>4, <2>1, <2>2 DEF Stands
  <1>5. TakenInv'
    BY <1>1, <1>4 DEF Alike, TakenInv
  <1> QED
    BY <1>2, <1>3, <1>5

\* When the holder passes on, only its own request changes.
LEMMA PassFacts ==
  ASSUME TypeOK, Inv, NEW x, Passes(x)
  PROVE  /\ Holder \in Requests /\ Holder \in 1..called /\ pc[Holder] \in InLock
         /\ pc'[Holder] = x /\ called' = called /\ op' = op /\ ver' = ver /\ version' = version
         /\ \A r \in 1..called : r \in Requests
         /\ \A r \in 1..called : r # Holder => pc'[r] = pc[r]
         /\ \A r : Kind(r)' = Kind(r) /\ Arg(r)' = Arg(r) /\ Unopposed(r)' = Unopposed(r)
         /\ \A r \in 1..called : Current(r)' => Current(r)
         /\ \A r \in 1..called : r # Holder => (Current(r)' <=> Current(r))
         /\ x \in Running => \A r \in 1..called : Current(r)' <=> Current(r)
         /\ \A r \in 1..called : Coming(r)' <=> Coming(r) /\ r # Holder
         /\ \A r \in 1..called : r # Holder => (Taken(r)' <=> Taken(r))
  <1>1. /\ Holder \in Requests /\ Holder \in 1..called /\ pc[Holder] \in InLock
    BY HolderFacts DEF Passes
  <1>2. \A r \in 1..called : r \in Requests
    BY PolicyAssumption DEF TypeOK, Requests
  <1>3. /\ pc'[Holder] = x /\ called' = called /\ op' = op /\ ver' = ver /\ version' = version
        /\ \A r \in 1..called : r # Holder => pc'[r] = pc[r]
    BY <1>1, <1>2 DEF Passes, calls, fence, TypeOK
  <1>4. \A r : Kind(r)' = Kind(r) /\ Arg(r)' = Arg(r) /\ Unopposed(r)' = Unopposed(r)
    BY <1>3 DEF Kind, Arg, Unopposed
  <1>5. x # "lockWait" /\ (x \in Running => x \in InLock)
    BY DEF Passes, InLock, Running, Working, Budgeted, Over
  <1>6. /\ \A r \in 1..called : Current(r)' => Current(r)
        /\ \A r \in 1..called : r # Holder => (Current(r)' <=> Current(r))
        /\ x \in Running => \A r \in 1..called : Current(r)' <=> Current(r)
    BY <1>1, <1>3, <1>4, <1>5 DEF Current
  <1>7. /\ \A r \in 1..called : Coming(r)' <=> Coming(r) /\ r # Holder
        /\ \A r \in 1..called : r # Holder => (Taken(r)' <=> Taken(r))
    BY <1>3, <1>4, <1>5, <1>6 DEF Coming, Taken
  <1> QED
    BY <1>1, <1>2, <1>3, <1>4, <1>6, <1>7

LEMMA PassKeeps ==
  ASSUME TypeOK, Inv, NewestInv, PendingInv, TakenInv, NEW x, Passes(x)
  PROVE  NewestInv' /\ PendingInv' /\ TakenInv'
  <1> DEFINE h == Holder
  <1>0. /\ h \in 1..called /\ pc[h] \in InLock /\ pc'[h] = x /\ called' = called /\ op' = op
        /\ version' = version /\ ver' = ver
        /\ \A r \in 1..called : r # h => pc'[r] = pc[r]
        /\ \A r : Kind(r)' = Kind(r) /\ Arg(r)' = Arg(r) /\ Unopposed(r)' = Unopposed(r)
        /\ \A r \in 1..called : Current(r)' => Current(r)
        /\ \A r \in 1..called : r # h => (Current(r)' <=> Current(r))
        /\ x \in Running => \A r \in 1..called : Current(r)' <=> Current(r)
        /\ \A r \in 1..called : Coming(r)' <=> Coming(r) /\ r # h
        /\ \A r \in 1..called : r # h => (Taken(r)' <=> Taken(r))
    BY PassFacts
  <1>1. /\ powerRequest' = IF x \notin Running /\ Kind(h) = "power" /\ powerRequest = <<ver[h], Arg(h)>>
                           THEN None ELSE powerRequest
        /\ x \in Running \cup Over \cup {"retry"}
        /\ desired'.power = desired.power \/ (desired'.power = Arg(h) /\ Kind(h) = "power" /\ x = "save")
        /\ Kind(h) = "power" /\ pc[h] = "lockWait" =>
              x = "failed" \/ (x = "save" /\ desired'.power = Arg(h) /\ ver[h] = version)
        /\ desired'.power # desired.power => pc[h] = "lockWait"
    BY DEF Passes
  <1> HIDE DEF h
  <1>2. NewestInv'
    BY <1>0 DEF NewestInv
  <1>3. PendingInv'
    <2>1. ASSUME NEW q \in 1..called, Current(q)', Kind(q)' = "power"
          PROVE  powerRequest' = <<version', Arg(q)'>> /\ Unopposed(q)'
      <3>1. Current(q) /\ Kind(q) = "power" /\ powerRequest = <<version, Arg(q)>> /\ Unopposed(q)
        BY <1>0, <2>1 DEF PendingInv
      <3>2. ASSUME x \notin Running, Kind(h) = "power", powerRequest = <<ver[h], Arg(h)>> PROVE FALSE
        <4>1. Current(h)
          BY <1>0, <3>1, <3>2 DEF Current
        <4>2. q = h
          BY <1>0, <3>1, <4>1 DEF NewestInv
        <4>3. pc'[q] \in InLock /\ pc'[q] \in Over \cup {"retry"}
          BY <1>0, <1>1, <2>1, <3>2, <4>2 DEF Current
        <4> QED
          BY <4>3 DEF InLock, Running, Working, Budgeted, Over
      <3> QED
        BY <1>0, <1>1, <3>1, <3>2
    <2>2. powerRequest' # None => powerRequest' = powerRequest
      BY <1>1
    <2>3. ASSUME powerRequest' # None, powerRequest'[1] = version'
          PROVE  \E q \in 1..called : Current(q)' /\ Kind(q)' = "power" /\ Arg(q)' = powerRequest'[2]
      <3>1. PICK q \in 1..called : Current(q) /\ Kind(q) = "power" /\ Arg(q) = powerRequest[2]
        BY <1>0, <2>2, <2>3 DEF PendingInv
      <3>2. CASE q # h
        BY <1>0, <2>2, <2>3, <3>1, <3>2
      <3>3. CASE q = h
        <4>1. powerRequest = <<ver[h], Arg(h)>>
          BY <3>1, <3>3 DEF PendingInv, Current
        <4>2. x \in Running
          BY <1>1, <2>3, <3>1, <3>3, <4>1
        <4> QED
          BY <1>0, <2>2, <2>3, <3>1, <3>3, <4>2
      <3> QED
        BY <3>2, <3>3
    <2> QED
      BY <1>0, <2>1, <2>2, <2>3 DEF PendingInv
  <1>4. TakenInv'
    <2> SUFFICES ASSUME NEW r \in 1..called, Taken(r)', Unopposed(r)' PROVE Stands(r)'
      BY <1>0 DEF TakenInv
    <2>0. Unopposed(r)
      BY <1>0
    <2>1. CASE Kind(h) = "power" /\ pc[h] = "lockWait" /\ x = "save"
      <3>1. Coming(h) /\ Current(h) /\ desired'.power = Arg(h)
        BY <1>0, <1>1, <2>1 DEF Coming, Current
      <3>2. \A q \in 1..called : ~Coming(q)'
        BY <1>0, <3>1 DEF Coming, NewestInv
      <3>3. CASE r = h
        BY <1>0, <3>1, <3>2, <3>3 DEF Stands
      <3>4. CASE r # h
        <4>1. Stands(r)
          BY <1>0, <2>0, <3>4 DEF TakenInv
        <4>2. CASE op[h] = op[r]
          BY <1>0, <3>1, <3>2, <4>2 DEF Stands, Arg
        <4>3. CASE op[h] # op[r]
          <5>1. PICK q \in 1..called : op[q] = op[r] /\ (Coming(q) \/ pc[q] = "failed")
            BY <1>0, <3>1, <4>1, <4>3 DEF Stands
          <5>2. q # h
            BY <4>3, <5>1
          <5>3. pc'[q] = "failed"
            BY <1>0, <3>1, <5>1, <5>2 DEF Coming, NewestInv
          <5> QED
            BY <1>0, <5>1, <5>3 DEF Stands
        <4> QED
          BY <4>2, <4>3
      <3> QED
        BY <3>3, <3>4
    <2>2. CASE ~(Kind(h) = "power" /\ pc[h] = "lockWait" /\ x = "save")
      <3>1. desired'.power = desired.power
        BY <1>1, <2>2
      <3>2. Taken(r)
        <4>1. CASE r # h
          BY <1>0, <4>1
        <4>2. CASE r = h
          <5>1. Kind(h) = "power" /\ x \in Running \cup {"done"}
            BY <1>0, <4>2 DEF Taken
          <5>2. x # "failed"
            BY <5>1 DEF Running, Working, Budgeted
          <5>3. pc[h] # "lockWait"
            BY <1>1, <2>2, <5>1, <5>2
          <5> QED
            BY <1>0, <4>2, <5>1, <5>3 DEF Taken, InLock
        <4> QED
          BY <4>1, <4>2
      <3>3. Stands(r)
        BY <2>0, <3>2 DEF TakenInv
      <3>4. CASE desired.power = Arg(r) /\ \A q \in 1..called : Coming(q) => op[q] = op[r]
        BY <1>0, <3>1, <3>4 DEF Stands
      <3>5. ASSUME NEW q \in 1..called, op[q] = op[r], Coming(q) \/ pc[q] = "failed"
            PROVE  Stands(r)'
        <4>1. CASE q # h
          <5>1. op'[q] = op'[r] /\ (Coming(q)' \/ pc'[q] = "failed")
            BY <1>0, <3>5, <4>1
          <5> QED
            BY <1>0, <5>1 DEF Stands
        <4>2. CASE q = h
          <5>1. Coming(h)
            BY <1>0, <3>5, <4>2 DEF InLock, Running, Working, Budgeted
          <5>2. x = "failed"
            BY <1>1, <2>2, <5>1 DEF Coming
          <5>3. op'[q] = op'[r] /\ pc'[q] = "failed"
            BY <1>0, <3>5, <4>2, <5>2
          <5> QED
            BY <1>0, <5>3 DEF Stands
        <4> QED
          BY <4>1, <4>2
      <3> QED
        BY <3>3, <3>4, <3>5 DEF Stands
    <2> QED
      BY <2>1, <2>2
  <1> QED
    BY <1>2, <1>3, <1>4

\* A call changes nothing but its own request, and the version perhaps.
LEMMA CallChanges ==
  ASSUME TypeOK, Inv, NEW o \in Ops, NEW place, NEW v \in Nat, Called(o, place, v),
         NEW n, n = called + 1
  PROVE  /\ called' = n /\ n \in 1..n /\ op'[n] = o /\ pc'[n] = place /\ ver'[n] = v
         /\ \A r \in 1..n : r = n \/ r \in 1..called
         /\ \A r \in 1..called : /\ r # n /\ r \in 1..n
                                 /\ op'[r] = op[r] /\ pc'[r] = pc[r] /\ ver'[r] = ver[r]
                                 /\ Kind(r)' = Kind(r) /\ Arg(r)' = Arg(r)
         /\ \A r \in 1..called : Unopposed(r)' <=> Unopposed(r) /\ (o.kind = "start" \/ o = op[r])
         /\ Kind(n)' = o.kind /\ Arg(n)' = o.arg /\ Unopposed(n)'
         /\ desired' = desired /\ plan' = plan
  <1>1. /\ called' = n /\ n \in 1..n /\ op'[n] = o /\ pc'[n] = place /\ ver'[n] = v /\ called \in Nat
        /\ \A r \in 1..n : r = n \/ r \in 1..called
        /\ \A r \in 1..called : /\ r # n /\ r \in 1..n
                                /\ op'[r] = op[r] /\ pc'[r] = pc[r] /\ ver'[r] = ver[r]
    BY CalledFacts
  <1>2. /\ \A r \in 1..called : Kind(r)' = Kind(r) /\ Arg(r)' = Arg(r)
        /\ op'[n].kind = o.kind /\ op'[n].arg = o.arg
    BY <1>1 DEF Kind, Arg
  <1>3. ASSUME NEW r \in 1..called
        PROVE  Unopposed(r)' <=> Unopposed(r) /\ (o.kind = "start" \/ o = op[r])
    <2>1. (r + 1)..called' = ((r + 1)..called) \cup {n}
      BY <1>1
    <2>2. \A q \in (r + 1)..called : q \in 1..called
      BY <1>1
    <2> QED
      BY <1>1, <1>2, <2>1, <2>2 DEF Unopposed, Kind
  <1>4. \A q \in (n + 1)..n : FALSE
    BY <1>1
  <1>5. Unopposed(n)'
    BY <1>1, <1>4 DEF Unopposed
  <1> QED
    BY <1>1, <1>2, <1>3, <1>5 DEF Kind, Arg, Called

\* A call after which the version is the same: a Start, or a repetition of the
\* power that is asked for already.
LEMMA SameVersionKeeps ==
  ASSUME TypeOK, Inv, NewestInv, PendingInv, TakenInv,
         NEW n, n = called + 1, NEW o \in Ops, NEW place, Called(o, place, 0),
         UNCHANGED <<version, powerRequest>>, place \notin InLock,
         o.kind = "start" \/ (o.kind = "power" /\ Repeated(o.arg))
  PROVE  NewestInv' /\ PendingInv' /\ TakenInv'
  <1>0. /\ called' = n /\ n \in 1..n /\ op'[n] = o /\ pc'[n] = place
        /\ \A r \in 1..n : r = n \/ r \in 1..called
        /\ \A r \in 1..called : /\ r # n /\ r \in 1..n
                                /\ op'[r] = op[r] /\ pc'[r] = pc[r] /\ ver'[r] = ver[r]
                                /\ Kind(r)' = Kind(r) /\ Arg(r)' = Arg(r)
        /\ \A r \in 1..called : Unopposed(r)' <=> Unopposed(r) /\ (o.kind = "start" \/ o = op[r])
        /\ op'[n].kind = o.kind /\ op'[n].arg = o.arg
        /\ desired' = desired /\ plan' = plan
    BY CallChanges DEF Kind, Arg
  <1>1. /\ \A r \in 1..n : Current(r)' <=> r # n /\ Current(r)
        /\ \A r \in 1..called : Coming(r)' <=> Coming(r)
        /\ \A r \in 1..n : Coming(r)' => r \in 1..called
        /\ \A r \in 1..called : Taken(r)' <=> Taken(r)
    BY <1>0 DEF Current, Coming, Taken
  <1>2. NewestInv'
    BY <1>0, <1>1 DEF NewestInv
  <1>c. ASSUME NEW q \in 1..called, Current(q), Kind(q) = "power"
        PROVE  /\ op[q] \in Ops /\ powerRequest = <<version, Arg(q)>>
               /\ powerRequest # None /\ powerRequest[1] = version /\ powerRequest[2] = Arg(q)
    <2>1. op[q] \in Ops
      BY <1>0, PolicyAssumption DEF TypeOK, Requests, Inv, KindInv
    <2>2. powerRequest = <<version, Arg(q)>>
      BY <1>c DEF PendingInv
    <2>3. Arg(q) \in Powers /\ version \in Nat
      BY <1>c, <2>1, PolicyAssumption DEF Kind, Arg, TypeOK
    <2>4. <<version, Arg(q)>> \in Nat \X Powers
      BY <2>3
    <2> QED
      BY <2>1, <2>2, <2>4, PolicyAssumption
  <1>3. ASSUME NEW q \in 1..called, Current(q), Kind(q) = "power", o.kind = "power"
        PROVE  o = op[q]
    <2>1. /\ op[q] \in Ops /\ powerRequest = <<version, Arg(q)>>
          /\ powerRequest # None /\ powerRequest[1] = version /\ powerRequest[2] = Arg(q)
      BY <1>3, <1>c
    <2>2. o.arg = Arg(q)
      BY <1>3, <2>1 DEF Repeated
    <2> QED
      BY <1>3, <2>1, <2>2, PolicyAssumption DEF Kind, Arg
  <1>4. PendingInv'
    BY <1>0, <1>1, <1>3 DEF PendingInv
  <1>5. ASSUME NEW r \in 1..called, Stands(r) PROVE Stands(r)'
    BY <1>0, <1>1, <1>5 DEF Stands
  <1>6. ASSUME o.kind = "power" PROVE Stands(n)'
    <2>1. CASE powerRequest # None /\ powerRequest[1] = version
      <3>1. PICK q \in 1..called : Current(q) /\ Kind(q) = "power" /\ Arg(q) = powerRequest[2]
        BY <2>1 DEF PendingInv
      <3>2. o = op[q] /\ Unopposed(q)
        BY <1>3, <1>6, <3>1 DEF PendingInv
      <3>3. CASE Coming(q)
        BY <1>0, <1>1, <3>2, <3>3 DEF Stands
      <3>4. CASE ~Coming(q)
        <4>1. Stands(q)
          BY <3>1, <3>2, <3>4 DEF TakenInv, Taken, Coming, Current, InLock
        <4>2. Stands(q)'
          BY <1>5, <4>1
        <4> QED
          BY <1>0, <3>2, <4>2 DEF Stands, Arg
      <3> QED
        BY <3>3, <3>4
    <2>2. CASE ~(powerRequest # None /\ powerRequest[1] = version)
      <3>1. o.arg = desired.power
        BY <1>6, <2>2 DEF Repeated
      <3>2. \A q \in 1..called : ~Coming(q)
        BY <1>c, <2>2 DEF Coming
      <3> QED
        BY <1>0, <1>1, <3>1, <3>2 DEF Stands, Arg
    <2> QED
      BY <2>1, <2>2
  <1>7. TakenInv'
    <2> SUFFICES ASSUME NEW r \in 1..n, Taken(r)', Unopposed(r)' PROVE Stands(r)'
      BY <1>0 DEF TakenInv
    <2>1. CASE r = n
      BY <1>0, <1>6, <2>1 DEF Taken, Kind
    <2>2. CASE r \in 1..called
      BY <1>0, <1>1, <1>5, <2>2 DEF TakenInv
    <2> QED
      BY <1>0, <2>1, <2>2
  <1> QED
    BY <1>2, <1>4, <1>7

\* A call that invalidates what was asked for before.
LEMMA NewVersionKeeps ==
  ASSUME TypeOK, Inv, NewestInv, PendingInv, TakenInv,
         NEW n, n = called + 1, NEW o \in Ops, Called(o, "lockWait", version + 1),
         version' = version + 1, o.kind # "start",
         powerRequest' = IF o.kind = "power" THEN <<version + 1, o.arg>> ELSE powerRequest
  PROVE  NewestInv' /\ PendingInv' /\ TakenInv'
  <1>0. /\ version \in Nat /\ version + 1 \in Nat /\ version + 1 # version
        /\ \A r \in 1..called : r \in Requests /\ ver[r] # version + 1
    BY PolicyAssumption DEF TypeOK, Inv, FenceInv, Requests
  <1>1. /\ called' = n /\ n \in 1..n /\ op'[n] = o /\ pc'[n] = "lockWait" /\ ver'[n] = version + 1
        /\ \A r \in 1..n : r = n \/ r \in 1..called
        /\ \A r \in 1..called : /\ r # n /\ r \in 1..n
                                /\ op'[r] = op[r] /\ pc'[r] = pc[r] /\ ver'[r] = ver[r]
                                /\ Kind(r)' = Kind(r) /\ Arg(r)' = Arg(r)
        /\ \A r \in 1..called : Unopposed(r)' <=> Unopposed(r) /\ (o.kind = "start" \/ o = op[r])
        /\ op'[n].kind = o.kind /\ op'[n].arg = o.arg /\ Unopposed(n)'
        /\ desired' = desired /\ plan' = plan
    BY <1>0, CallChanges DEF Kind, Arg
  <1>2. \A r \in 1..n : /\ Current(r)' <=> r = n
                        /\ Coming(r)' <=> r = n /\ o.kind = "power"
    BY <1>0, <1>1 DEF Current, Coming, Kind, InLock
  <1>3. NewestInv'
    BY <1>1, <1>2 DEF NewestInv
  <1>4. PendingInv'
    <2>1. \A q \in 1..n : Current(q)' /\ Kind(q)' = "power" =>
                             powerRequest' = <<version', Arg(q)'>> /\ Unopposed(q)'
      BY <1>1, <1>2 DEF Kind, Arg
    <2>2. /\ powerRequest' # None => powerRequest'[1] <= version'
          /\ powerRequest' # None /\ powerRequest'[1] = version' => o.kind = "power"
      BY <1>0 DEF PendingInv, TypeOK
    <2>3. o.kind = "power" => Current(n)' /\ Kind(n)' = "power"
                              /\ Arg(n)' = powerRequest'[2]
      BY <1>1, <1>2 DEF Kind, Arg
    <2> QED
      BY <1>1, <2>1, <2>2, <2>3 DEF PendingInv
  <1>5. TakenInv'
    <2> SUFFICES ASSUME NEW r \in 1..n, Taken(r)', Unopposed(r)' PROVE Stands(r)'
      BY <1>1 DEF TakenInv
    <2>1. r \in 1..called /\ Kind(r) = "power"
      BY <1>1 DEF Taken, Running, Working, Budgeted
    <2>2. o = op[r] /\ o.kind = "power"
      BY <1>1, <2>1 DEF Kind
    <2>3. op'[n] = op'[r] /\ Coming(n)'
      BY <1>1, <1>2, <2>1, <2>2
    <2> QED
      BY <1>1, <2>3 DEF Stands
  <1> QED
    BY <1>3, <1>4, <1>5

LEMMA PowerStep ==
  ASSUME TypeOK, Inv, PowerInv, [Next]_vars
  PROVE  PowerInv'
  <1>0. "lockWait" \notin {"adoptSave"}
    OBVIOUS
  <1>n. PICK n : n = called + 1
    OBVIOUS
  <1>1. CASE CallStart
    <2>1. AdoptInv'
      BY <1>0, <1>1, CallDoes, StaysAt DEF PowerInv, AdoptInv
    <2>2. PICK o \in Ops, place \in {"failed", "done", "startWait"} :
            o.kind = "start" /\ Called(o, place, 0) /\ UNCHANGED <<version, powerRequest>>
      BY <1>1 DEF CallStart, fence
    <2>3. place \notin InLock
      BY DEF InLock, Running, Working, Budgeted
    <2> QED
      BY <2>1, <1>n, <2>2, <2>3, SameVersionKeeps DEF PowerInv
  <1>2. CASE CallOther
    <2>1. AdoptInv'
      BY <1>0, <1>2, CallDoes, StaysAt DEF PowerInv, AdoptInv
    <2>2. PICK o \in Ops : /\ o.kind \notin {"start", "power"} /\ version' = version + 1
                           /\ Called(o, "lockWait", version + 1) /\ powerRequest' = powerRequest
      BY <1>2 DEF CallOther, Invalidate
    <2> QED
      BY <2>1, <1>n, <2>2, NewVersionKeeps DEF PowerInv
  <1>3. CASE CallPower
    <2>1. AdoptInv'
      BY <1>0, <1>3, CallDoes, StaysAt DEF PowerInv, AdoptInv
    <2>2. PICK o \in Ops :
            /\ o.kind = "power"
            /\ \/ Repeated(o.arg) /\ Called(o, "done", 0) /\ UNCHANGED <<version, powerRequest>>
               \/ /\ Called(o, "lockWait", version + 1) /\ version' = version + 1
                  /\ powerRequest' = <<version + 1, o.arg>>
      BY <1>3 DEF CallPower, Invalidate, fence
    <2>3. "done" \notin InLock
      BY DEF InLock, Running, Working, Budgeted
    <2> QED
      BY <2>1, <2>2, <2>3, <1>n, SameVersionKeeps, NewVersionKeeps DEF PowerInv
  <1>4. CASE BeginStart
    <2>1. AdoptInv'
      BY <1>0, <1>4, BeginStays, StaysAt DEF PowerInv, AdoptInv, BeginStart
    <2>2. PICK s \in Requests :
            /\ startQueue # <<>> /\ s = Head(startQueue) /\ UNCHANGED <<calls, fence, powerRequest, desired>>
            /\ \E x : pc' = [pc EXCEPT ![s] = x]
            /\ ver' = ver \/ ver' = [ver EXCEPT ![s] = version]
      BY <1>4 DEF BeginStart
    <2>3. Kind(s) = "start"
      BY <2>2, TailFacts DEF TypeOK, Inv, StartLockInv
    <2>4. /\ called' = called /\ op' = op /\ version' = version
          /\ \A r \in 1..called : r # s => pc'[r] = pc[r] /\ ver'[r] = ver[r]
      <3>1. called' = called /\ op' = op /\ version' = version
        BY <2>2 DEF calls, fence
      <3>2. \A r \in 1..called : r \in Requests
        BY PolicyAssumption DEF TypeOK, Requests
      <3>3. \A r \in Requests : r # s => pc'[r] = pc[r] /\ ver'[r] = ver[r]
        BY <2>2 DEF TypeOK
      <3> QED
        BY <3>1, <3>2, <3>3
    <2>5. \A r \in 1..called : (Current(r)' <=> Current(r)) /\ (Kind(r) = "power" => pc'[r] = pc[r])
      BY <2>3, <2>4 DEF Current, Kind
    <2>6. Alike
      BY <2>2, <2>4, <2>5 DEF Alike
    <2> QED
      BY <2>1, <2>6, AlikeKeeps DEF PowerInv
  <1>5. CASE Acquire \/ Save \/ AdoptSave \/ Return
    <2>1. PICK x : Passes(x)
      BY <1>5, AcquirePasses, SavePasses, ReturnPasses DEF PowerInv
    <2>2. AdoptInv'
      BY <2>1 DEF Passes, AdoptInv
    <2> QED
      BY <2>1, <2>2, PassKeeps DEF PowerInv
  <1>6. CASE Commit \/ Send \/ Refresh \/ Expire \/ UNCHANGED vars
    <2>1. UNCHANGED <<calls, pc, ver, fence, queue, powerRequest, desired, plan>>
      BY <1>6 DEF Commit, Send, Refresh, Expire, vars, locks
    <2>2. Alike /\ AdoptInv'
      BY <2>1 DEF PowerInv, AdoptInv, At, Holder, Alike, Current, Kind, calls, fence
    <2> QED
      BY <2>2, AlikeKeeps DEF PowerInv
  <1> QED
    BY <1>1, <1>2, <1>3, <1>4, <1>5, <1>6 DEF Next, HolderNext

\* The power asked for last is the one that is remembered in the end, whether
\* its request wrote it or was told that it repeats one under way, unless that
\* one has failed (async_set_power_intent, _pending_power_request).
THEOREM NewestPowerIsRemembered == Spec => []PowerStands
  <1>1. Init => PowerInv
    <2>1. ASSUME Init PROVE \A r \in 1..called : FALSE
      BY <2>1 DEF Init
    <2> QED
      BY <2>1 DEF Init, PowerInv, NewestInv, PendingInv, TakenInv, AdoptInv, At
  <1>2. IInv /\ PowerInv /\ [Next]_vars => PowerInv'
    BY PowerStep DEF IInv
  <1>3. PowerInv => PowerStands
    <2> SUFFICES ASSUME TakenInv, \A r \in 1..called : pc[r] \in Over,
                        NEW r \in 1..called, Kind(r) = "power", pc[r] = "done",
                        \A q \in (r + 1)..called : Kind(q) = "start" \/ op[q] = op[r]
                 PROVE  desired.power = Arg(r) \/ \E q \in 1..called : op[q] = op[r] /\ pc[q] = "failed"
      BY DEF PowerInv, PowerStands
    <2>1. Stands(r)
      BY DEF TakenInv, Taken, Unopposed
    <2>2. \A q \in 1..called : ~Coming(q)
      BY DEF Coming, Over
    <2> QED
      BY <2>1, <2>2 DEF Stands
  <1> QED
    BY <1>1, <1>2, <1>3, PolicyInvariant, PTL DEF Spec

-----------------------------------------------------------------------------
(* The entities of MCPolicy *)

Entity == INSTANCE PresentationProofs
          WITH desired <- wanted, report <- reported, version <- calling, device <- sent

\* The newest write of an entity that waits for it is what the entity shows, for any
\* number of calls and of reports that lag, and whichever older writes fail or end late.
THEOREM NewestWriteIsShown ==
  ASSUME Entity!PresentationConstants
  PROVE  Entity!Spec => []NewestShown
  <1>1. Entity!NewestShown => NewestShown
    BY DEF NewestShown, Entities!NewestShown, Entity!NewestShown, Entities!Newest, Entity!Newest
  <1> QED
    BY <1>1, Entity!NewestIsShown, PTL

\* A write that failed leaves nothing of itself, neither on the entity nor in the data
\* that the coordinator shares.
THEOREM FailedWriteIsGone ==
  ASSUME Entity!PresentationConstants
  PROVE  Entity!Spec => []FailureLeavesNothing
  <1>1. Entity!FailureLeavesNothing => FailureLeavesNothing
    BY DEF FailureLeavesNothing, Entities!FailureLeavesNothing, Entity!FailureLeavesNothing,
       Entities!FailedNotShown, Entity!FailedNotShown, Entities!PowerReported, Entity!PowerReported,
       Entities!Rests, Entity!Rests, Entities!Ends, Entity!Ends, Entities!Newest, Entity!Newest,
       Entities!PowerNumber, Entity!PowerNumber, Entities!Class, Entity!Class
  <1> QED
    BY <1>1, Entity!FailuresLeaveNothing, PTL

\* The newest power that was chosen is the one the charger is left with, whichever Fast
\* request was under way with an older one.
THEOREM NewestPowerIsTheChargers ==
  ASSUME Entity!PresentationConstants
  PROVE  Entity!Spec => []NewestPowerStands
  <1>1. Entity!NewestPowerStands => NewestPowerStands
    BY DEF NewestPowerStands, Entities!NewestPowerStands, Entity!NewestPowerStands, Entities!Rests,
       Entity!Rests, Entities!Ends, Entity!Ends, Entities!PowerNumber, Entity!PowerNumber,
       Entities!ModeSelect, Entity!ModeSelect, Entities!Class, Entity!Class
  <1> QED
    BY <1>1, Entity!NewestPowerIsLeft, PTL
=============================================================================

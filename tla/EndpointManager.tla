--------------------------- MODULE EndpointManager ---------------------------
(***************************************************************************)
(* native_endpoint.py: redirecting the wallbox's Socket A to this host and  *)
(* giving it back.  One task at a time holds EndpointManager._lock; the UDP *)
(* conversation runs in a worker thread that cancellation cannot stop.  The *)
(* journal is kept in memory and, through Home Assistant's Store, on disk.  *)
(*                                                                         *)
(* Environment: a set-destination datagram is applied or lost, and a module *)
(* answers a command only after it has dealt with the earlier ones.  Other  *)
(* owners move Socket A to destinations that are not this host's.           *)
(***************************************************************************)
EXTENDS Naturals

CONSTANTS Locals,      \* endpoints this host advertises, one per configuration
          Remotes,     \* every other destination: the cloud, other owners
          None,
          MaxForeign   \* bound on what other owners do

Journal == [local : Locals, original : Remotes]
Move    == [from : Locals \cup Remotes, to : Locals \cup Remotes]
Sent    == [to : Locals \cup Remotes, over : Locals \cup Remotes]

ASSUME EndpointAssumption ==
    /\ Locals \cap Remotes = {}
    /\ None \notin Locals \cup Remotes \cup Journal \cup Move \cup Sent
    /\ MaxForeign \in Nat

VARIABLES socketA,    \* on the wallbox: its destination
          socketB,    \* on the wallbox: TRUE when another owner uses Socket B
          wire,       \* the datagram under way, with the value it was meant to replace
          store,      \* durable journal
          config,     \* self.local
          journal,    \* self.journal
          pc,         \* the task that holds self._lock
          cancelled,  \* that task was cancelled while it waits for the thread
          worker,     \* the management thread
          move,       \* arguments of _change; None for _inspect
          seen,       \* the thread's reading of Socket A
          seenB,      \* and of Socket B
          foreign     \* actions of other owners so far

device == <<socketA, socketB, wire, foreign>>
thread == <<worker, move, seen, seenB>>
memory == <<journal, pc, cancelled>>
vars   == <<device, thread, memory, store, config>>

Waiting == {"inspecting", "activating", "restoring"}
Reading == {"readA", "readB", "confirm"}

TypeOK ==
    /\ socketA \in Locals \cup Remotes
    /\ socketB \in BOOLEAN
    /\ wire \in Sent \cup {None}
    /\ store \in Journal \cup {None}
    /\ config \in Locals
    /\ journal \in Journal \cup {None}
    /\ pc \in Waiting \cup {"down", "idle", "saving", "clearing"}
    /\ cancelled \in BOOLEAN
    /\ worker \in Reading \cup {"none", "write", "done", "failed"}
    /\ move \in Move \cup {None}
    /\ seen \in Locals \cup Remotes \cup {None}
    /\ seenB \in BOOLEAN
    /\ foreign \in Nat

Init ==
    /\ socketA \in Remotes /\ socketB \in BOOLEAN /\ wire = None /\ foreign = 0
    /\ store = None /\ config \in Locals
    /\ journal = None /\ pc = "down" /\ cancelled = FALSE
    /\ worker = "none" /\ move = None /\ seen = None /\ seenB = FALSE

-----------------------------------------------------------------------------
(* The worker thread: one step per management command. *)

\* asyncio.to_thread(operation): a fresh session, nothing read yet.
StartThread(arguments) ==
    /\ worker' = "readA" /\ move' = arguments /\ seen' = None /\ seenB' = FALSE

ThreadGone ==
    /\ worker' = "none" /\ move' = None /\ seen' = None /\ seenB' = FALSE

ReadSocketA ==
    /\ worker = "readA" /\ wire = None
    /\ seen' = socketA /\ worker' = "readB"
    /\ UNCHANGED <<device, memory, store, config, move, seenB>>

InspectSocketB ==
    /\ worker = "readB" /\ wire = None /\ move = None
    /\ seenB' = socketB /\ worker' = "done"
    /\ UNCHANGED <<device, memory, store, config, move, seen>>

\* Mutant: the value read is not compared with the two expected ones.
CheckSocketBOnly ==
    /\ worker = "readB" /\ wire = None /\ move # None
    /\ worker' = IF socketB THEN "failed"
                 ELSE IF seen = move.to THEN "confirm" ELSE "write"
    /\ UNCHANGED <<device, memory, store, config, move, seen, seenB>>

\* Another owner's settings end the change before anything is written.
CheckOwner ==
    /\ worker = "readB" /\ wire = None /\ move # None
    /\ \/ /\ socketB \/ seen \notin {move.from, move.to}
          /\ worker' = "failed"
       \/ /\ ~socketB /\ seen = move.to
          /\ worker' = "confirm"
       \/ /\ ~socketB /\ seen = move.from /\ seen # move.to
          /\ worker' = "write"
    /\ UNCHANGED <<device, memory, store, config, move, seen, seenB>>

\* The acknowledgement may be lost, which is not an error, or be unusable.
WriteSocketA ==
    /\ worker = "write"
    /\ wire' = [to |-> move.to, over |-> seen]
    /\ worker' \in {"confirm", "failed"}
    /\ UNCHANGED <<socketA, socketB, foreign, memory, store, config, move, seen, seenB>>

ConfirmSocketA ==
    /\ worker = "confirm" /\ wire = None
    /\ worker' = IF socketA = move.to THEN "done" ELSE "failed"
    /\ UNCHANGED <<device, memory, store, config, move, seen, seenB>>

\* No answer in time, a wrong serial, an answer from elsewhere, a socket error.
SessionFails ==
    /\ worker \in Reading \cup {"write"}
    /\ worker' = "failed"
    /\ UNCHANGED <<device, memory, store, config, move, seen, seenB>>

ThreadNext == \/ ReadSocketA \/ InspectSocketB \/ CheckOwner
              \/ WriteSocketA \/ ConfirmSocketA \/ SessionFails

-----------------------------------------------------------------------------
(* The event loop. *)

\* The configuration is edited while no manager exists (an entry reload).
Reconfigure ==
    /\ pc = "down"
    /\ config' \in Locals
    /\ UNCHANGED <<device, thread, memory, store>>

\* A record of another configuration makes the load, and the setup, fail.
Load ==
    /\ pc = "down"
    /\ store # None => store.local = config
    /\ journal' = store /\ pc' = "idle" /\ cancelled' = FALSE
    /\ UNCHANGED <<device, thread, store, config>>

BeginActivate ==
    /\ pc = "idle" /\ journal = None
    /\ pc' = "inspecting" /\ StartThread(None)
    /\ UNCHANGED <<device, journal, cancelled, store, config>>

AcceptBaseline ==
    /\ pc = "inspecting" /\ worker = "done" /\ ~cancelled
    /\ ~seenB /\ seen # config
    /\ journal' = [local |-> config, original |-> seen]
    /\ pc' = "saving" /\ ThreadGone
    /\ UNCHANGED <<device, cancelled, store, config>>

\* Mutant: the save is scheduled, not awaited.
SaveScheduled ==
    /\ pc = "saving"
    /\ pc' = "activating"
    /\ StartThread([from |-> journal.original, to |-> config])
    /\ UNCHANGED <<device, journal, cancelled, store, config>>

SaveReturns ==
    /\ pc = "saving"
    /\ store' = journal
    /\ pc' = "activating"
    /\ StartThread([from |-> journal.original, to |-> config])
    /\ UNCHANGED <<device, journal, cancelled, config>>

\* An error or a cancellation, before or after the file was replaced.
SaveFails ==
    /\ pc = "saving"
    /\ store' \in {store, journal}
    /\ pc' = "idle"
    /\ UNCHANGED <<device, thread, journal, cancelled, config>>

BeginRestore ==
    /\ pc = "idle" /\ journal # None
    /\ pc' = "restoring"
    /\ StartThread([from |-> config, to |-> journal.original])
    /\ UNCHANGED <<device, journal, cancelled, store, config>>

\* Mutant: the journal is cleared although the change raised.
RestoreAttempted ==
    /\ pc = "restoring" /\ worker \in {"done", "failed"} /\ ~cancelled
    /\ pc' = "clearing" /\ ThreadGone
    /\ UNCHANGED <<device, journal, cancelled, store, config>>

RestoreConfirmed ==
    /\ pc = "restoring" /\ worker = "done" /\ ~cancelled
    /\ pc' = "clearing" /\ ThreadGone
    /\ UNCHANGED <<device, journal, cancelled, store, config>>

ClearReturns ==
    /\ pc = "clearing"
    /\ store' = None /\ journal' = None /\ pc' = "idle"
    /\ UNCHANGED <<device, thread, cancelled, config>>

ClearFails ==
    /\ pc = "clearing"
    /\ store' \in {store, None}
    /\ pc' = "idle"
    /\ UNCHANGED <<device, thread, journal, cancelled, config>>

\* _io waits for the thread however often the task is cancelled.
Cancel ==
    /\ pc \in Waiting /\ ~cancelled
    /\ cancelled' = TRUE
    /\ UNCHANGED <<device, thread, journal, pc, store, config>>

\* Mutant: a cancelled wait never notices that its thread finished.
EndsUnlessCancelled ==
    /\ pc \in Waiting
    /\ \/ worker = "failed"
       \/ worker = "done" /\ pc = "inspecting" /\ (seenB \/ seen = config)
       \/ worker = "done" /\ pc = "activating"
    /\ pc' = "idle" /\ cancelled' = FALSE /\ ThreadGone
    /\ UNCHANGED <<device, journal, store, config>>

\* The operation ends with nothing more to do: the thread failed, the task was
\* cancelled, the baseline is another owner's, or the activation is complete.
OperationEnds ==
    /\ pc \in Waiting
    /\ \/ worker = "failed"
       \/ worker = "done" /\ cancelled
       \/ worker = "done" /\ pc = "inspecting" /\ (seenB \/ seen = config)
       \/ worker = "done" /\ pc = "activating"
    /\ pc' = "idle" /\ cancelled' = FALSE /\ ThreadGone
    /\ UNCHANGED <<device, journal, store, config>>

Crash ==
    /\ pc # "down"
    /\ pc' = "down" /\ journal' = None /\ cancelled' = FALSE /\ ThreadGone
    /\ UNCHANGED <<device, store, config>>

TaskNext == \/ AcceptBaseline \/ SaveReturns \/ SaveFails
            \/ RestoreConfirmed \/ ClearReturns \/ ClearFails \/ OperationEnds

-----------------------------------------------------------------------------
(* The wallbox and the other owners of its sockets. *)

DatagramApplied ==
    /\ wire # None
    /\ socketA' = wire.to /\ wire' = None
    /\ UNCHANGED <<socketB, foreign, thread, memory, store, config>>

DatagramLost ==
    /\ wire # None
    /\ wire' = None
    /\ UNCHANGED <<socketA, socketB, foreign, thread, memory, store, config>>

ForeignSocketA ==
    /\ foreign < MaxForeign
    /\ foreign' = foreign + 1
    /\ socketA' \in Remotes
    /\ UNCHANGED <<socketB, wire, thread, memory, store, config>>

ForeignSocketB ==
    /\ foreign < MaxForeign
    /\ foreign' = foreign + 1
    /\ socketB' = ~socketB
    /\ UNCHANGED <<socketA, wire, thread, memory, store, config>>

Next == \/ ThreadNext \/ TaskNext
        \/ Reconfigure \/ Load \/ BeginActivate \/ BeginRestore
        \/ Cancel \/ Crash
        \/ DatagramApplied \/ DatagramLost \/ ForeignSocketA \/ ForeignSocketB

Spec == Init /\ [][Next]_vars

\* Every socket operation has a timeout, a datagram is applied or gone before
\* the next timeout, and the event loop resumes a task whose awaited work ended.
Fairness == /\ WF_vars(ThreadNext)
            /\ WF_vars(TaskNext)
            /\ WF_vars(DatagramApplied \/ DatagramLost)

FairSpec == Spec /\ Fairness

-----------------------------------------------------------------------------
(* Correctness. *)

\* Whenever the wallbox points at this host, under whatever configuration and
\* whatever happened since (lost answers, cancellation, a crash), the disk says
\* where to send it back: async_activate saves before it redirects and
\* async_restore clears only after a confirmed readback.
RecoverableOwnership ==
    socketA \in Locals => /\ store # None
                          /\ store.local = socketA

\* A datagram, even one that arrives after its sender died, swaps only the two
\* ends of the record on disk: the thread sent it over a value of its own.
OnlyOwnValuesReplaced ==
    wire # None => /\ store # None
                   /\ \/ wire.to = store.local /\ wire.over = store.original
                      \/ wire.to = store.original /\ wire.over = store.local

\* A running manager knows of every pending recovery, so it cannot start a new
\* ownership over one: self.journal is set before the save, cleared after it.
MemoryCoversStore ==
    pc # "down" /\ store # None => journal = store

C == INSTANCE Custody WITH record <- store, NoRecord <- None

\* The manager implements the abstract promise about Socket A.
ImplementsCustody == C!CustodySpec

\* An operation, cancelled or not, gives the lock back: _io waits only for
\* a thread whose every socket call is bounded.
LockReturned == (pc \in Waiting \cup {"saving", "clearing"}) ~> (pc \in {"idle", "down"})
=============================================================================

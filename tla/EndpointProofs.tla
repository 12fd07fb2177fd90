--------------------------- MODULE EndpointProofs ---------------------------
(* Theorems about EndpointManager, for every value of its constants. *)
EXTENDS EndpointManager, TLAPS

\* A running manager's journal names its own configuration, and a pc other than
\* "down" is the only place where there is a journal.
JournalInv ==
    /\ journal # None => pc # "down" /\ journal.local = config
    /\ pc = "inspecting" => journal = None
    /\ pc \in {"saving", "activating", "restoring", "clearing"} => journal # None
    /\ pc = "saving" => store = None
    /\ pc = "activating" => store = journal

\* Which thread runs for which task, and what it has established so far.
ThreadInv ==
    /\ (worker # "none") <=> (pc \in Waiting)
    /\ pc = "inspecting" => move = None /\ worker \notin {"write", "confirm"}
    /\ pc = "activating" => move = [from |-> journal.original, to |-> config]
    /\ pc = "restoring" => move = [from |-> config, to |-> journal.original]
    /\ worker \in {"readB", "write", "confirm", "done"} => seen # None
    /\ worker = "write" => wire = None /\ seen = move.from
    /\ pc = "inspecting" /\ seen # None => seen \in Remotes
    /\ pc = "restoring" /\ seen # None /\ seen \in Locals => store = journal
    /\ pc = "restoring" /\ worker = "done" => wire = None /\ socketA \notin Locals
    /\ pc = "clearing" => wire = None /\ socketA \notin Locals

IInv == /\ TypeOK /\ RecoverableOwnership /\ OnlyOwnValuesReplaced
        /\ MemoryCoversStore /\ JournalInv /\ ThreadInv

LoopNext == Reconfigure \/ Load \/ BeginActivate \/ BeginRestore \/ Cancel \/ Crash

DeviceNext == DatagramApplied \/ DatagramLost \/ ForeignSocketA \/ ForeignSocketB

-----------------------------------------------------------------------------
\* A step of the management thread keeps the invariant: it writes only after it
\* has read one of the record's two values, and confirms only what it then reads.
LEMMA ThreadStep == IInv /\ ThreadNext => IInv'
<1> USE EndpointAssumption DEF Journal, Move, Sent, Waiting, Reading, device, thread,
        memory, StartThread, ThreadGone, TypeOK, RecoverableOwnership,
        OnlyOwnValuesReplaced, MemoryCoversStore, JournalInv, ThreadInv
<1>1. IInv /\ ReadSocketA => IInv'
  BY DEF ReadSocketA, IInv
<1>2. IInv /\ InspectSocketB => IInv'
  BY DEF InspectSocketB, IInv
<1>3. IInv /\ CheckOwner => IInv'
  BY DEF CheckOwner, IInv
<1>4. ASSUME IInv, WriteSocketA PROVE IInv'
  <2>1. /\ pc \in {"activating", "restoring"} /\ move \in Move /\ seen = move.from
        /\ journal \in Journal /\ store = journal
    BY <1>4 DEF WriteSocketA, IInv
  <2>2. TypeOK'
    BY <1>4, <2>1 DEF WriteSocketA, IInv
  <2>3. RecoverableOwnership'
    BY <1>4, <2>1 DEF WriteSocketA, IInv
  <2>4. OnlyOwnValuesReplaced'
    BY <1>4, <2>1 DEF WriteSocketA, IInv
  <2>5. MemoryCoversStore'
    BY <1>4, <2>1 DEF WriteSocketA, IInv
  <2>6. JournalInv'
    BY <1>4, <2>1 DEF WriteSocketA, IInv
  <2>7. ThreadInv'
    BY <1>4, <2>1 DEF WriteSocketA, IInv
  <2> QED
    BY <2>2, <2>3, <2>4, <2>5, <2>6, <2>7 DEF IInv
<1>5. IInv /\ ConfirmSocketA => IInv'
  BY DEF ConfirmSocketA, IInv
<1>6. IInv /\ SessionFails => IInv'
  BY DEF SessionFails, IInv
<1> QED
  BY <1>1, <1>2, <1>3, <1>4, <1>5, <1>6 DEF ThreadNext

\* A step of the task that holds the lock keeps the invariant: it saves before
\* it writes and clears after the confirmed readback.
LEMMA TaskStep == IInv /\ TaskNext => IInv'
<1> USE EndpointAssumption DEF Journal, Move, Sent, Waiting, Reading, device, thread,
        memory, StartThread, ThreadGone, TypeOK, RecoverableOwnership,
        OnlyOwnValuesReplaced, MemoryCoversStore, JournalInv, ThreadInv
<1>1. ASSUME IInv, AcceptBaseline PROVE IInv'
  <2>1. journal' \in Journal /\ journal' # None /\ journal'.local = config
    BY <1>1 DEF AcceptBaseline, IInv
  <2>2. TypeOK'
    BY <1>1, <2>1 DEF AcceptBaseline, IInv
  <2>3. RecoverableOwnership'
    BY <1>1, <2>1 DEF AcceptBaseline, IInv
  <2>4. OnlyOwnValuesReplaced'
    BY <1>1, <2>1 DEF AcceptBaseline, IInv
  <2>5. MemoryCoversStore'
    BY <1>1, <2>1 DEF AcceptBaseline, IInv
  <2>6. JournalInv'
    BY <1>1, <2>1 DEF AcceptBaseline, IInv
  <2>7. ThreadInv'
    BY <1>1, <2>1 DEF AcceptBaseline, IInv
  <2> QED
    BY <2>2, <2>3, <2>4, <2>5, <2>6, <2>7 DEF IInv
<1>2. ASSUME IInv, SaveReturns PROVE IInv'
  <2>1. /\ journal \in Journal /\ move' \in Move /\ journal.local = config
        /\ move' = [from |-> journal.original, to |-> config] /\ wire = None
    BY <1>2 DEF SaveReturns, IInv
  <2>2. TypeOK'
    BY <1>2, <2>1 DEF SaveReturns, IInv
  <2>3. RecoverableOwnership'
    BY <1>2, <2>1 DEF SaveReturns, IInv
  <2>4. OnlyOwnValuesReplaced'
    BY <1>2, <2>1 DEF SaveReturns, IInv
  <2>5. MemoryCoversStore'
    BY <1>2, <2>1 DEF SaveReturns, IInv
  <2>6. JournalInv'
    BY <1>2, <2>1 DEF SaveReturns, IInv
  <2>7. ThreadInv'
    BY <1>2, <2>1 DEF SaveReturns, IInv
  <2> QED
    BY <2>2, <2>3, <2>4, <2>5, <2>6, <2>7 DEF IInv
<1>3. IInv /\ SaveFails => IInv'
  BY DEF SaveFails, IInv
<1>4. IInv /\ RestoreConfirmed => IInv'
  BY DEF RestoreConfirmed, IInv
<1>5. IInv /\ ClearReturns => IInv'
  BY DEF ClearReturns, IInv
<1>6. IInv /\ ClearFails => IInv'
  BY DEF ClearFails, IInv
<1>7. IInv /\ OperationEnds => IInv'
  BY DEF OperationEnds, IInv
<1> QED
  BY <1>1, <1>2, <1>3, <1>4, <1>5, <1>6, <1>7 DEF TaskNext

\* Starting, stopping, killing and reconfiguring the manager keep the invariant.
LEMMA LoopStep == IInv /\ LoopNext => IInv'
<1> USE EndpointAssumption DEF Journal, Move, Sent, Waiting, Reading, device, thread,
        memory, StartThread, ThreadGone, TypeOK, RecoverableOwnership,
        OnlyOwnValuesReplaced, MemoryCoversStore, JournalInv, ThreadInv
<1>1. IInv /\ Reconfigure => IInv'
  BY DEF Reconfigure, IInv
<1>2. IInv /\ Load => IInv'
  BY DEF Load, IInv
<1>3. IInv /\ BeginActivate => IInv'
  BY DEF BeginActivate, IInv
<1>4. ASSUME IInv, BeginRestore PROVE IInv'
  <2>1. /\ journal \in Journal /\ journal.local = config
        /\ move' \in Move /\ move' = [from |-> config, to |-> journal.original]
    BY <1>4 DEF BeginRestore, IInv
  <2> QED
    BY <1>4, <2>1 DEF BeginRestore, IInv
<1>5. IInv /\ Cancel => IInv'
  BY DEF Cancel, IInv
<1>6. IInv /\ Crash => IInv'
  BY DEF Crash, IInv
<1> QED
  BY <1>1, <1>2, <1>3, <1>4, <1>5, <1>6 DEF LoopNext

\* The wallbox and the other owners keep the invariant.
LEMMA DeviceStep == IInv /\ DeviceNext => IInv'
<1> USE EndpointAssumption DEF Journal, Move, Sent, Waiting, Reading, device, thread,
        memory, StartThread, ThreadGone, TypeOK, RecoverableOwnership,
        OnlyOwnValuesReplaced, MemoryCoversStore, JournalInv, ThreadInv
<1>1. IInv /\ DatagramApplied => IInv'
  BY DEF DatagramApplied, IInv
<1>2. IInv /\ DatagramLost => IInv'
  BY DEF DatagramLost, IInv
<1>3. IInv /\ ForeignSocketA => IInv'
  BY DEF ForeignSocketA, IInv
<1>4. IInv /\ ForeignSocketB => IInv'
  BY DEF ForeignSocketB, IInv
<1> QED
  BY <1>1, <1>2, <1>3, <1>4 DEF DeviceNext

-----------------------------------------------------------------------------
\* The invariant holds in every reachable state.
THEOREM EndpointInvariant == Spec => []IInv
<1>1. Init => IInv
  <2> SUFFICES ASSUME Init PROVE IInv
    OBVIOUS
  <2>1. TypeOK
    BY DEF Init, TypeOK, Waiting, Reading
  <2>2. RecoverableOwnership /\ OnlyOwnValuesReplaced /\ MemoryCoversStore
    BY EndpointAssumption DEF Init, RecoverableOwnership, OnlyOwnValuesReplaced,
       MemoryCoversStore
  <2>3. JournalInv /\ ThreadInv
    BY DEF Init, JournalInv, ThreadInv, Waiting
  <2> QED
    BY <2>1, <2>2, <2>3 DEF IInv
<1>2. IInv /\ [Next]_vars => IInv'
  <2>1. IInv /\ UNCHANGED vars => IInv'
    BY DEF vars, device, thread, memory, IInv, TypeOK, RecoverableOwnership,
       OnlyOwnValuesReplaced, MemoryCoversStore, JournalInv, ThreadInv
  <2> QED
    BY <2>1, ThreadStep, TaskStep, LoopStep, DeviceStep DEF Next, LoopNext, DeviceNext
<1> QED
  BY <1>1, <1>2, PTL DEF Spec

\* Journals, moves and datagrams are always made of real endpoints.
THEOREM EndpointTypes == Spec => []TypeOK
BY EndpointInvariant, PTL DEF IInv

\* For any number of configurations and other owners, with crashes, cancelled
\* operations and lost answers anywhere: while the wallbox points at this host
\* the disk says where to send it back.
THEOREM Recoverable == Spec => []RecoverableOwnership
BY EndpointInvariant, PTL DEF IInv

\* A datagram under way always swaps the two ends of the durable record.
THEOREM OwnValues == Spec => []OnlyOwnValuesReplaced
BY EndpointInvariant, PTL DEF IInv

\* A running manager always knows of the pending recovery on disk.
THEOREM MemoryCovers == Spec => []MemoryCoversStore
BY EndpointInvariant, PTL DEF IInv

\* Every step of the manager is a step of the abstract custody of Socket A or
\* leaves both the socket and the record alone.
THEOREM CustodyImplemented == Spec => ImplementsCustody
<1>1. Init => C!CustodyInit
  BY DEF Init, C!CustodyInit
<1>2. IInv /\ [Next]_vars => [C!CustodyNext]_(C!custodyVars)
  <2> SUFFICES ASSUME IInv, [Next]_vars PROVE [C!CustodyNext]_(C!custodyVars)
    OBVIOUS
  <2> USE DEF C!custodyVars, C!CustodyNext, device, thread, memory
  <2>1. CASE ThreadNext
    BY <2>1 DEF ThreadNext, ReadSocketA, InspectSocketB, CheckOwner, WriteSocketA,
       ConfirmSocketA, SessionFails
  <2>2. CASE SaveReturns \/ SaveFails
    <3>1. store = None /\ journal \in C!Record
      BY <2>2 DEF SaveReturns, SaveFails, IInv, TypeOK, JournalInv, Journal, C!Record
    <3> QED
      BY <2>2, <3>1 DEF SaveReturns, SaveFails, C!NoteBaseline
  <2>3. CASE ClearReturns \/ ClearFails
    BY <2>3 DEF ClearReturns, ClearFails, IInv, ThreadInv, C!Forget
  <2>4. CASE AcceptBaseline \/ RestoreConfirmed \/ OperationEnds \/ LoopNext
    BY <2>4 DEF AcceptBaseline, RestoreConfirmed, OperationEnds, LoopNext, Reconfigure,
       Load, BeginActivate, BeginRestore, Cancel, Crash
  <2>5. CASE DatagramApplied
    BY <2>5 DEF DatagramApplied, IInv, TypeOK, OnlyOwnValuesReplaced, Journal,
       C!Take, C!PointAway
  <2>6. CASE DatagramLost \/ ForeignSocketA \/ ForeignSocketB
    BY <2>6 DEF DatagramLost, ForeignSocketA, ForeignSocketB, C!PointAway
  <2>7. CASE UNCHANGED vars
    BY <2>7 DEF vars
  <2> QED
    BY <2>1, <2>2, <2>3, <2>4, <2>5, <2>6, <2>7 DEF Next, TaskNext, LoopNext
<1> QED
  BY <1>1, <1>2, EndpointInvariant, PTL DEF Spec, ImplementsCustody, C!CustodySpec
=============================================================================

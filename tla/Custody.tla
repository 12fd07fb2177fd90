------------------------------ MODULE Custody ------------------------------
(***************************************************************************)
(* What the endpoint manager promises about the wallbox's Socket A, without *)
(* saying how: the wallbox is redirected to this host only while a durable  *)
(* record says where to send it back, and that record is dropped only once  *)
(* the wallbox no longer points here.  Other owners may move the socket.    *)
(***************************************************************************)
CONSTANTS Locals,   \* endpoints of this host, one per listener configuration
          Remotes,  \* every other destination: the cloud and other owners
          NoRecord

VARIABLES socketA,  \* where the wallbox connects
          record    \* durable recovery record

custodyVars == <<socketA, record>>

Record == [local : Locals, original : Remotes]

CustodyInit == socketA \in Remotes /\ record = NoRecord

\* The baseline is written down before anything on the wallbox is touched.  It
\* need not be where the socket is now: another owner may have moved it since.
NoteBaseline == /\ record = NoRecord
                /\ record' \in Record
                /\ UNCHANGED socketA

Take == /\ record # NoRecord
        /\ socketA' = record.local
        /\ UNCHANGED record

\* Another owner, or this host giving the socket back.
PointAway == /\ socketA' \in Remotes
             /\ UNCHANGED record

Forget == /\ socketA \notin Locals
          /\ record' = NoRecord
          /\ UNCHANGED socketA

CustodyNext == NoteBaseline \/ Take \/ PointAway \/ Forget

CustodySpec == CustodyInit /\ [][CustodyNext]_custodyVars
=============================================================================

---------------------------- MODULE StatePublisher ----------------------------
(***************************************************************************)
(* The controller's Now Playing publisher (state_tx.py): one record, and   *)
(* what a source observation or a tick makes of it.  The 40 ms     *)
(* frame gap is a budget of frames per unit of time, kept by the module    *)
(* that composes this one.                                                 *)
(***************************************************************************)
EXTENDS NowPlayingWire

CONSTANTS
    Period,     \* SNAPSHOT_PERIOD_MS, in units of time
    Deadline,   \* SNAPSHOT_DEADLINE_MS
    MaxAux,     \* auxiliary frames before a snapshot is due (10)
    MaxNumber   \* bound on the snapshots of a session

ASSUME TimingAssumption ==
    Period \in Nat \ {0} /\ Deadline \in Nat \ {0} /\ MaxAux \in Nat
ASSUME NumberAssumption == MaxNumber \in Nat /\ MaxNumber >= Modulus

(* index = 0 when no snapshot is in flight; wait = 0 when one is due. *)
InitPublisher(session) ==
    [session |-> session, number |-> 0, source |-> AnyContent,
     content |-> AnyContent, index |-> 0, started |-> 0, wait |-> 0, aux |-> 0]

(* _dirty: a boundary drops the snapshot in flight, new timing does not. *)
Observed(tx, source, restart) ==
    [tx EXCEPT !.source = source, !.index = IF restart THEN 0 ELSE @, !.wait = 0]

(* A snapshot older than its deadline is given up, ready or not. *)
Lapsed(tx) ==
    IF tx.index > 0 /\ tx.started >= Deadline THEN [tx EXCEPT !.index = 0, !.wait = 0] ELSE tx

AuxiliaryDue(tx) == tx.index = 0 /\ tx.aux < MaxAux
SnapshotDue(tx) == tx.index > 0 \/ tx.wait = 0

(* MaxNumber is folded onto its residue, which the wire cannot tell. *)
NextNumber(tx) == IF tx.number = MaxNumber THEN MaxNumber + 1 - Modulus ELSE tx.number + 1

Encoded(tx) ==
    IF tx.index > 0 THEN tx
    ELSE [tx EXCEPT !.number = NextNumber(tx), !.content = tx.source, !.started = 0]

(* The frame the tick hands to the radio, for an encoded snapshot. *)
FrameOf(tx) == Fragment(tx.session, tx.number, tx.content, tx.index, tx.started)

Queued(tx) ==
    IF tx.index + 1 = Count[tx.content]
    THEN [tx EXCEPT !.index = 0, !.aux = 0, !.wait = Period]
    ELSE [tx EXCEPT !.index = @ + 1]

Refused(tx) == [tx EXCEPT !.index = 0, !.wait = Period]

(* The sequence number of a snapshot that cannot be encoded is spent. *)
Unencodable(tx) == [tx EXCEPT !.number = NextNumber(tx), !.wait = Period]

AgedPublisher(tx) ==
    [tx EXCEPT !.started = IF tx.index > 0 /\ @ < Deadline THEN @ + 1 ELSE @,
               !.wait = IF @ > 0 THEN @ - 1 ELSE 0]
=============================================================================

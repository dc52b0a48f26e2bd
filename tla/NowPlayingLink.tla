---------------------------- MODULE NowPlayingLink ----------------------------
(***************************************************************************)
(* The Now Playing path: the controller's publisher, the ESP-NOW channel   *)
(* with the panel's receive ring, and the panel's decoder.  While the link *)
(* is disturbed the channel loses, repeats and reorders frames, either     *)
(* side restarts, the source changes and the send slot refuses frames; a   *)
(* frame is never delayed by more than Transit.  Once calm, none of that   *)
(* happens and the loops run many times per unit of time.                  *)
(***************************************************************************)
EXTENDS StatePublisher, NowPlayingModel, Sequences, SequencesExt

CONSTANTS
    MaxSessions,    \* bound on controller boots
    Budget,         \* frames the gap admits per unit of time
    Transit,        \* longest delay of a frame
    Capacity,       \* frames on the air and in the receive ring
    CalmBy          \* bound on the snapshots of a disturbed session

ASSUME LinkAssumption ==
    /\ MaxSessions \in Nat \ {0} /\ Budget \in Nat \ {0} /\ Capacity \in Nat \ {0}
    /\ Transit \in Nat /\ Transit < Fresh /\ CalmBy \in Nat /\ CalmBy <= MaxNumber

(* A sequence comes round only after everything of its last use is gone;    *)
(* the snapshots of a disturbed session stay within half the sequence space. *)
ASSUME SequenceAssumption ==
    /\ MaxNumber = Modulus \/ CalmBy + Budget * (Fresh + Deadline + Transit) < Modulus
    /\ CalmBy < Modulus /\ 2 * CalmBy <= Modulus + 2

VARIABLES
    tx,         \* the publisher
    air,        \* frames sent and not yet decoded, oldest first
    rx,         \* the decoder
    born,       \* time since the snapshot shown was encoded
    slots,      \* frames the gap still admits in this unit of time
    calm        \* the disturbance is over

vars == <<tx, air, rx, born, slots, calm>>

(* The longest a snapshot can have been on its way and shown as fresh. *)
Horizon == Deadline + Transit + Fresh

Init ==
    /\ tx = InitPublisher(1)
    /\ air = <<>>
    /\ rx = ResetModel
    /\ born = 0
    /\ slots = Budget
    /\ calm = FALSE

-------------------------------------------------------------------------------
(* The publisher *)

Observe(source, restart) ==
    /\ ~calm
    /\ tx' = Observed(tx, source, restart)
    /\ UNCHANGED <<air, rx, born, slots, calm>>

(* A tick that finds the send slot busy still gives up a late snapshot. *)
TickBusy ==
    /\ ~calm
    /\ tx' = Lapsed(tx)
    /\ UNCHANGED <<air, rx, born, slots, calm>>

TickAuxiliary ==
    /\ slots > 0 /\ AuxiliaryDue(Lapsed(tx))
    /\ tx' = [Lapsed(tx) EXCEPT !.aux = @ + 1]
    /\ slots' = slots - 1
    /\ UNCHANGED <<air, rx, born, calm>>

MayEncode == Lapsed(tx).index = 0 => calm \/ tx.number < CalmBy

(* The receive ring drops its oldest frame. *)
Onto(frames, f) == Append(IF Len(frames) = Capacity THEN Tail(frames) ELSE frames, f)

TickSnapshot ==
    LET sending == Encoded(Lapsed(tx))
    IN  /\ slots > 0 /\ SnapshotDue(Lapsed(tx)) /\ MayEncode
        /\ tx' = Queued(sending)
        /\ air' = Onto(air, FrameOf(sending))
        /\ slots' = slots - 1
        /\ UNCHANGED <<rx, born, calm>>

TickRefused ==
    /\ ~calm /\ slots > 0 /\ SnapshotDue(Lapsed(tx)) /\ MayEncode
    /\ tx' = Refused(Encoded(Lapsed(tx)))
    /\ slots' = slots - 1
    /\ UNCHANGED <<air, rx, born, calm>>

TickUnencodable ==
    /\ ~calm /\ slots > 0 /\ Lapsed(tx).index = 0 /\ SnapshotDue(Lapsed(tx)) /\ MayEncode
    /\ tx' = Unencodable(Lapsed(tx))
    /\ UNCHANGED <<air, rx, born, slots, calm>>

(* A boot draws a new session; what it sent before may still arrive. *)
RestartController ==
    /\ ~calm /\ tx.session < MaxSessions
    /\ tx' = InitPublisher(tx.session + 1)
    /\ UNCHANGED <<air, rx, born, slots, calm>>

-------------------------------------------------------------------------------
(* The channel and the panel *)

Lose(i) ==
    /\ ~calm
    /\ air' = RemoveAt(air, i)
    /\ UNCHANGED <<tx, rx, born, slots, calm>>

(* A boot takes longer than any frame's flight: frames of one boot overtake *)
(* each other, and those of the boot the panel shows, or showed before the  *)
(* frame's own, may come later still.                                       *)
Deliverable(i) ==
    /\ \A j \in 1..(i - 1) :
          \/ air[j].session \in {air[i].session, rx.session}
          \/ air[i].session = rx.session /\ air[j].session = rx.retired
    /\ calm => i = 1

(* "repeated" leaves a second copy of the frame; a commit takes its age.   *)
Deliver(i, repeated) ==
    /\ Deliverable(i) /\ (calm => ~repeated)
    /\ rx' = Accept(rx, air[i])
    /\ born' = IF rx'.have /\ <<rx'.have, rx'.session, rx'.number>> # <<rx.have, rx.session, rx.number>>
               THEN air[i].born ELSE born
    /\ air' = IF repeated THEN air ELSE RemoveAt(air, i)
    /\ UNCHANGED <<tx, slots, calm>>

RestartPanel ==
    /\ ~calm /\ rx # ResetModel
    /\ rx' = ResetModel /\ born' = 0
    /\ UNCHANGED <<tx, air, slots, calm>>

AgedFrame(f) == [f EXCEPT !.delay = @ + 1, !.born = @ + 1]
Timely(f) == f.delay < Transit

(* A unit of time passes; once calm not before the loops have served what   *)
(* the gap admits.  What has been under way too long was sent first.        *)
Elapse ==
    /\ calm => air = <<>> /\ (slots = 0 \/ ~SnapshotDue(Lapsed(tx)))
    /\ tx' = AgedPublisher(tx)
    /\ \E late \in 0..Len(air) :
          /\ \A i \in 1..Len(air) : Timely(air[i]) <=> i > late
          /\ air' = [i \in 1..(Len(air) - late) |-> AgedFrame(air[late + i])]
    /\ rx' = AgedModel(rx)
    /\ born' = IF rx.have /\ born < Horizon THEN born + 1 ELSE born
    /\ slots' = Budget
    /\ UNCHANGED calm

CalmDown == ~calm /\ calm' = TRUE /\ UNCHANGED <<tx, air, rx, born, slots>>

Next ==
    \/ \E source \in Contents, restart \in BOOLEAN : Observe(source, restart)
    \/ TickBusy \/ TickAuxiliary \/ TickSnapshot \/ TickRefused \/ TickUnencodable
    \/ RestartController
    \/ \E i \in 1..Len(air) : Lose(i)
    \/ \E i \in 1..Len(air), repeated \in BOOLEAN : Deliver(i, repeated)
    \/ RestartPanel
    \/ Elapse
    \/ CalmDown

Spec == Init /\ [][Next]_vars

(* Both main loops keep running and time passes. *)
FairSpec ==
    Spec /\ WF_vars(TickSnapshot) /\ WF_vars(\E i \in 1..Len(air) : Deliver(i, FALSE)) /\ WF_vars(Elapse)

-------------------------------------------------------------------------------

TypeOK ==
    /\ tx \in [session : 1..MaxSessions, number : 0..MaxNumber, source : Contents,
               content : Contents, index : Nat, started : 0..Deadline, wait : 0..Period,
               aux : 0..MaxAux]
    /\ tx.index < Count[tx.content]
    /\ Len(air) <= Capacity
    /\ rx.have => rx.content \in Contents /\ rx.age \in 0..Fresh
    /\ born \in 0..Horizon /\ slots \in 0..Budget

(* A snapshot is shown only whole: every fragment of what is displayed was  *)
(* cut from the one snapshot named, in spite of loss, repetition, reordered *)
(* snapshots and wrapping sequence numbers.                                 *)
SnapshotIsWhole ==
    rx.have =>
        /\ {p.index : p \in rx.pieces} = 0..(Count[rx.content] - 1)
        /\ \A p \in rx.pieces : <<p.session, p.number, p.content>> = <<rx.session, rx.number, rx.content>>

(* The display never goes back: not to an older snapshot, not to an earlier *)
(* boot, not even through the resynchronization after a long loss.          *)
NeverBackward ==
    [][rx.have /\ rx'.have /\ ~calm =>
          \/ rx'.session > rx.session
          \/ rx'.session = rx.session /\ rx'.number >= rx.number]_vars

(* What is shown as fresh was encoded by the controller a bounded time ago: *)
(* neither repeated nor partial frames keep a silent controller alive.      *)
FreshIsRecent == IsFresh(rx) => born < Horizon

(* Liveness: once the link is calm the panel shows the present source, and  *)
(* from then on for ever, whatever it had accepted, retired or half         *)
(* assembled before and however far the sequence had run away.              *)
Synchronized == IsFresh(rx) /\ rx.session = tx.session /\ rx.content = tx.source
Repaired == calm ~> []Synchronized
=============================================================================

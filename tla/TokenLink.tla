------------------------------- MODULE TokenLink -------------------------------
(***************************************************************************)
(* Control tokens from the CrowPanel to the controller: the sender's       *)
(* bounded retries and its send callback (espnow_link.cpp), and the        *)
(* controller's receive ring, duplicate window and error back-off          *)
(* (espnow_rx.py).  A token is named by the remote's boot and its BMR1     *)
(* sequence; the wire carries the sequence only.  The sender gives up its  *)
(* wait while the driver may still transmit, so a frame handed over is on  *)
(* its way for a while and lands late, again, behind a newer one, or never *)
(* (being on another channel is the loss of every frame).  A unit of time  *)
(* covers all attempts of a token.                                         *)
(***************************************************************************)
EXTENDS Naturals, Sequences, SequencesExt

CONSTANTS
    MaxSeq,     \* bound on the tokens of a boot
    MaxBoots,   \* bound on the remote's boots
    Tries,      \* TOKEN_TRIES
    Ring,       \* frames the native receive ring holds
    Window,     \* DUP_WINDOW_S
    Backoff,    \* ERROR_BACKOFF_S
    MaxRecent,  \* MAX_RECENT_SEQS
    Flight,     \* longest time the driver keeps a frame it was handed
    Stall,      \* longest time the main loop takes to empty the ring
    Reboot      \* shortest time a boot of the remote takes

ASSUME TokenAssumption ==
    /\ {MaxSeq, MaxBoots, Tries, Ring, Window, Backoff, MaxRecent, Reboot} \subseteq Nat \ {0}
    /\ {Flight, Stall} \subseteq Nat
    /\ 1 + Flight + Stall < Window /\ Window + Stall < Reboot

VARIABLES
    remote,     \* the sender: boot, sequence, attempt under way
    flying,     \* frames the driver has and has not reported sent
    ring,       \* frames received by the radio and not yet read
    unit,       \* the receiver: recent sequences, back-off, time unread
    fired,      \* how often each token was executed: never, once, more than once
    history     \* tokens dropped unexecuted, cut by and held over a pause; others since

tokenVars == <<remote, flying, ring, unit, fired, history>>

Tokens == (1..MaxBoots) \X (1..MaxSeq)
Current == <<remote.boot, remote.seq>>

TokenInit ==
    /\ remote = [boot |-> 1, seq |-> 0, attempt |-> 0, sending |-> FALSE,
                 wait_ack |-> FALSE, late |-> 0, rest |-> 0]
    /\ flying = {}
    /\ ring = <<>>
    /\ unit = [recent |-> <<>>, paused |-> 0, poisoned |-> FALSE, unread |-> 0]
    /\ fired = [t \in Tokens |-> 0]
    /\ history = [dropped |-> {}, paused |-> {}, held |-> {}, since |-> [t \in Tokens |-> 0]]

-------------------------------------------------------------------------------
(* The sender.  attempt = 0 when no token is under way. *)

Press ==
    /\ remote.attempt = 0 /\ remote.rest = 0 /\ remote.seq < MaxSeq
    /\ remote' = [remote EXCEPT !.seq = @ + 1, !.attempt = 1, !.late = 0]
    /\ UNCHANGED <<flying, ring, unit, fired, history>>

(* send_once hands the frame to the driver, which takes it ... *)
SendAttempt ==
    /\ remote.attempt > 0 /\ ~remote.sending
    /\ remote' = [remote EXCEPT !.sending = TRUE, !.wait_ack = FALSE]
    /\ flying' = flying \cup {[token |-> Current, try |-> remote.attempt, age |-> 0]}
    /\ UNCHANGED <<ring, unit, fired, history>>

NextAttempt == IF remote.attempt = Tries THEN 0 ELSE remote.attempt + 1
GoOn(attempt) ==
    [remote EXCEPT !.sending = FALSE, !.wait_ack = FALSE, !.attempt = attempt,
                   !.late = IF attempt = 0 THEN 0 ELSE remote.late]

(* ... or does not: the attempt fails at once. *)
SendRefused ==
    /\ remote.attempt > 0 /\ ~remote.sending
    /\ remote' = GoOn(NextAttempt)
    /\ UNCHANGED <<flying, ring, unit, fired, history>>

(* on_sent says only how a send ended, not which one, and nobody looks unless *)
(* one waits.  The receiver's hardware acknowledges, whatever becomes of the *)
(* frame behind it.                                                         *)
OnSent(frame, ack) ==
    /\ flying' = flying \ {frame}
    /\ remote' = [remote EXCEPT !.wait_ack = ack /\ remote.sending]
    /\ UNCHANGED <<ring, unit, fired, history>>

(* The wait ends with a callback or after ACK_WAIT_MS, here at any time. *)
AttemptOver ==
    /\ remote.sending
    /\ remote' = GoOn(IF remote.wait_ack THEN 0 ELSE NextAttempt)
    /\ UNCHANGED <<flying, ring, unit, fired, history>>

(* g_seq restarts with the remote and its driver; the ring keeps what landed. *)
RemoteRestart ==
    /\ remote.boot < MaxBoots
    /\ remote' = [boot |-> remote.boot + 1, seq |-> 0, attempt |-> 0, sending |-> FALSE,
                  wait_ack |-> FALSE, late |-> 0, rest |-> Reboot]
    /\ flying' = {}
    /\ UNCHANGED <<ring, unit, fired, history>>

-------------------------------------------------------------------------------
(* The receiver *)

(* It is pausing after an error. *)
Resting == unit.paused > 0 \/ unit.poisoned

(* Its radio hears a frame, perhaps again, and the ring drops what it cannot *)
(* hold.                                                                    *)
Land(frame) ==
    /\ ring' = IF Len(ring) < Ring THEN Append(ring, frame.token) ELSE ring
    /\ history' = [history EXCEPT !.held = IF Resting THEN history.held \cup {frame.token} ELSE history.held]
    /\ UNCHANGED <<remote, flying, unit, fired>>

Reading == ~Resting /\ ring # <<>>

(* Mutation: nothing expires. *)
RemembersAll(recent) == recent

(* Entries older than the window expire first: newest last, the oldest go.  *)
Remembered(recent) ==
    LET fresh == {i \in 1..Len(recent) : recent[i].age < Window}
    IN  IF fresh = {} THEN <<>> ELSE SubSeq(recent, Min(fresh), Len(recent))
SeenRecently(recent, seq) == \E i \in 1..Len(recent) : recent[i].seq = seq

(* Mutation: only the last sequence is remembered. *)
NotesLast(recent, seq) == <<[seq |-> seq, age |-> 0]>>
Noted(recent, seq) ==
    LET all == Append(recent, [seq |-> seq, age |-> 0])
    IN  IF Len(all) > MaxRecent THEN Tail(all) ELSE all

(* History of an execution: how many others were executed since each token. *)
(* What MaxRecent others followed counts as overrun for good.               *)
Overrun(t) == history.since[t] = MaxRecent
Following(token) ==
    [t \in Tokens |-> IF Overrun(t) THEN MaxRecent
                      ELSE IF t = token \/ fired[t] = 0 THEN 0 ELSE history.since[t] + 1]

Fired == {t \in Tokens : fired[t] > 0}

(* A repeat is dropped; anything else is executed and remembered.           *)
AcceptFrame ==
    LET token == Head(ring)
        recent == Remembered(unit.recent)
        repeat == SeenRecently(recent, token[2])
    IN  /\ Reading
        /\ ring' = Tail(ring)
        /\ unit' = [unit EXCEPT !.recent = IF repeat THEN recent ELSE Noted(recent, token[2]),
                                !.unread = IF Len(ring) = 1 THEN 0 ELSE unit.unread]
        /\ fired' = IF repeat THEN fired ELSE [fired EXCEPT ![token] = IF fired[token] = 0 THEN 1 ELSE 2]
        /\ history' = IF repeat THEN [history EXCEPT !.dropped = history.dropped \cup ({token} \ Fired)]
                                ELSE [history EXCEPT !.since = Following(token)]
        /\ UNCHANGED <<remote, flying>>

(* History of a pause: the tokens executed before it, those it holds back. *)
Pausing == [history EXCEPT !.paused = history.paused \cup Fired,
                           !.held = history.held \cup ToSet(ring)]

(* A read error pauses polling, with or without having consumed a frame. *)
ReadError(consumed) ==
    /\ Reading
    /\ unit' = [unit EXCEPT !.paused = Backoff, !.unread = 0]
    /\ ring' = IF consumed THEN Tail(ring) ELSE ring
    /\ history' = Pausing
    /\ UNCHANGED <<remote, flying, fired>>

(* An invalid buffer is rebuilt, which empties the ring and nothing else.  A *)
(* rebuild that fails, or comes within the back-off of the last, is deferred.*)
InvalidBuffer(pause) ==
    /\ Reading \/ (unit.poisoned /\ unit.paused = 0)
    /\ unit' = [unit EXCEPT !.poisoned = pause > 0, !.paused = pause, !.unread = 0]
    /\ ring' = IF pause = 0 THEN <<>> ELSE ring
    /\ history' = IF pause = 0 THEN history ELSE Pausing
    /\ UNCHANGED <<remote, flying, fired>>

Aged(entry) == [entry EXCEPT !.age = IF entry.age < Window THEN entry.age + 1 ELSE entry.age]

(* A unit of time.  A token's attempts span one, the driver keeps a frame    *)
(* for no longer than the flight, and a ring that holds frames is emptied    *)
(* within the stall unless polling is paused.                                *)
TokenElapse ==
    /\ remote.attempt > 0 => remote.late = 0
    /\ \A frame \in flying : frame.age < Flight
    /\ Reading => unit.unread < Stall
    /\ remote' = [remote EXCEPT !.late = IF remote.attempt > 0 THEN 1 ELSE 0,
                                !.rest = IF remote.rest > 0 THEN remote.rest - 1 ELSE 0]
    /\ unit' = [unit EXCEPT !.recent = [i \in 1..Len(unit.recent) |-> Aged(unit.recent[i])],
                            !.unread = IF Reading THEN unit.unread + 1 ELSE 0,
                            !.paused = IF unit.paused > 0 THEN unit.paused - 1 ELSE 0]
    /\ flying' = {[frame EXCEPT !.age = frame.age + 1] : frame \in flying}
    /\ UNCHANGED <<ring, fired, history>>

TokenNext ==
    \/ Press
    \/ SendAttempt \/ SendRefused \/ AttemptOver \/ RemoteRestart
    \/ \E frame \in flying : Land(frame) \/ \E ack \in BOOLEAN : OnSent(frame, ack)
    \/ AcceptFrame
    \/ \E consumed \in BOOLEAN : ReadError(consumed)
    \/ \E pause \in 0..Backoff : InvalidBuffer(pause)
    \/ TokenElapse

TokenSpec == TokenInit /\ [][TokenNext]_tokenVars

-------------------------------------------------------------------------------

TokenTypeOK ==
    /\ remote.boot \in 1..MaxBoots /\ remote.seq \in 0..MaxSeq /\ remote.attempt \in 0..Tries
    /\ \A f \in flying : f.token \in Tokens /\ f.try \in 1..Tries /\ f.age \in 0..Flight
    /\ Len(ring) <= Ring /\ \A i \in 1..Len(ring) : ring[i] \in Tokens
    /\ Len(unit.recent) <= MaxRecent /\ unit.paused \in 0..Backoff /\ unit.unread \in 0..Stall
    /\ fired \in [Tokens -> 0..2]

(* A press is executed once, however often the sender retries, the radio    *)
(* repeats a frame and a copy lands behind a newer token: unless reception  *)
(* was paused between two of its copies, or as many other tokens as the     *)
(* receiver remembers were executed between them.                           *)
ExecutedOnce == \A t \in Tokens : fired[t] > 1 => t \in history.paused \/ Overrun(t)

(* What is dropped as a repeat was executed: the first press after a reboot *)
(* of the remote is never taken for an old one with the same sequence,      *)
(* unless a pause held the old one back.                                    *)
DropsOnlyRepeats ==
    \A t \in history.dropped : \E old \in history.held : old[1] < t[1] /\ old[2] = t[2]
=============================================================================

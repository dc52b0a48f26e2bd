--------------------------- MODULE HostPolicyProofs ---------------------------
(***************************************************************************)
(* Proofs about HostPolicy for every set of hosts and every bound.  One    *)
(* lemma per operation of the core says that it keeps the core's type and  *)
(* coherence, one per kind of operation what it does to the link; the      *)
(* theorems combine them.                                                  *)
(***************************************************************************)
EXTENDS HostPolicy, FiniteSetTheorems, TLAPS

-------------------------------------------------------------------------------
(* What an operation needs to end in hp_fail with a coherent core: less    *)
(* than coherence, since handlers fail half way.                           *)
Failable(s) ==
    /\ s \in Cores
    /\ s.terminate_sent => s.handle
    /\ s.handle /\ s.connected_id # NoHost => s.connected_id = s.connected_address
    /\ s.candidate_store_started => s.candidate # NoHost

(* A core that has just closed admission, about to terminate its link.     *)
Closing(s, store) ==
    /\ s \in Cores
    /\ ~s.filter_ready /\ s.applied_mode # "AUTO"
    /\ s.terminate_sent => s.handle
    /\ s.applied_mode = "ENROLL" /\ s.handle => s.enrollment_rejected
    /\ s.enrollment_rejected /\ s.handle => ~s.input_subscribed
    /\ s.advertising => s.state = "ERROR"
    /\ s.applied_mode = "ENROLL" => s.accept = NoHost
    /\ IntentCoherent(s) /\ ProofCoherent(s, store) /\ WindowCoherent(s, store)

(* The link after an operation that may have terminated it.                *)
SameLink(s, t, io) ==
    /\ t.connection_generation = s.connection_generation
    /\ t.connected_address = s.connected_address
    /\ io.term # "absent" => t.handle = s.handle

Sound(s, store) == s \in Cores /\ CoreCoherent(s, store)

LEMMA CommitType ==
    ASSUME NEW s \in Cores, NEW mode \in {"PAUSED", "AUTO"}, NEW selected \in Labels, NEW result
    PROVE  Commit(s, mode, selected, result) \in Cores
  <1> DEFINE next == [valid |-> TRUE, mode |-> mode, selected |-> selected]
  <1>1. next \in Blobs
    BY DEF Blobs
  <1> HIDE DEF next
  <1>2. [s EXCEPT !.blob = next, !.flash = next, !.persisted = TRUE] \in Cores
    BY <1>1 DEF Cores
  <1>3. [s EXCEPT !.flash = IF result = "torn" THEN next ELSE @, !.persisted = FALSE] \in Cores
    BY <1>1 DEF Cores
  <1>4. QED
    BY <1>2, <1>3 DEF Commit, next

LEMMA TerminateOnceType ==
    ASSUME NEW s \in Cores, NEW term
    PROVE  TerminateOnce(s, term) \in Cores
  <1> DEFINE state == IF term = "refused" THEN "ERROR" ELSE s.state
             failed == s.terminate_failed \/ term = "refused"
  <1>1. state \in States /\ failed \in BOOLEAN
    BY DEF Cores, States
  <1>2. TerminateOnce(s, term) =
          IF ~s.handle \/ s.terminate_sent THEN s
          ELSE IF term = "absent"
          THEN [s EXCEPT !.handle = FALSE, !.connected_id = NoHost, !.encrypted = FALSE,
                   !.bonded = FALSE, !.hid_ready = FALSE, !.terminate_failed = FALSE]
          ELSE [s EXCEPT !.terminate_sent = TRUE, !.terminate_failed = failed, !.state = state]
    BY DEF TerminateOnce
  <1> HIDE DEF state, failed
  <1>3. [s EXCEPT !.terminate_sent = TRUE, !.terminate_failed = failed, !.state = state] \in Cores
    BY <1>1 DEF Cores
  <1>4. [s EXCEPT !.handle = FALSE, !.connected_id = NoHost, !.encrypted = FALSE, !.bonded = FALSE,
                  !.hid_ready = FALSE, !.terminate_failed = FALSE] \in Cores
    BY DEF Cores, Labels
  <1>5. QED
    BY <1>2, <1>3, <1>4

LEMMA StopType ==
    ASSUME NEW s \in Cores, NEW io
    PROVE  StopAdvertising(s, io) \in Cores
  BY DEF StopAdvertising, Cores

LEMMA StopStops ==
    ASSUME NEW s \in Cores, NEW io, io.fails # "stop"
    PROVE  StopAdvertising(s, io) = [s EXCEPT !.advertising = FALSE]
  <1>1. (s.advertising /\ io.fails = "stop") = FALSE
    OBVIOUS
  <1>2. QED
    BY <1>1, Zenon DEF StopAdvertising

LEMMA RefreshType ==
    ASSUME NEW s \in Cores, NEW store
    PROVE  Refresh(s, store) \in Cores
  BY DEF Refresh, Cores, Known

-------------------------------------------------------------------------------
(* terminate_once: the link a closing core still has is terminating.       *)
LEMMA TerminateSound ==
    ASSUME NEW s, NEW store, Closing(s, store), NEW io
    PROVE  /\ Sound(TerminateOnce(s, io.term), store)
           /\ SameLink(s, TerminateOnce(s, io.term), io)
  <1> DEFINE t == TerminateOnce(s, io.term)
  <1>1. t \in Cores
    BY TerminateOnceType DEF Closing
  <1>2. SameLink(s, t, io)
    BY DEF SameLink, TerminateOnce, Closing, Cores
  <1>3. LinkCoherent(t)
    BY DEF LinkCoherent, TerminateOnce, Closing, Cores
  <1>4. IntentCoherent(t)
    BY DEF IntentCoherent, TerminateOnce, Closing, Cores
  <1>5. ProofCoherent(t, store)
    BY DEF ProofCoherent, TerminateOnce, Closing, Cores
  <1>6. AdvertiseCoherent(t)
    BY DEF AdvertiseCoherent, TerminateOnce, Closing, Cores
  <1>7. WindowCoherent(t, store)
    BY DEF WindowCoherent, TerminateOnce, Closing, Cores
  <1>8. QED
    BY <1>1, <1>2, <1>3, <1>4, <1>5, <1>6, <1>7 DEF Sound, CoreCoherent

(* hp_fail: coherent whatever the handler had done. *)
LEMMA FailSound ==
    ASSUME NEW s, Failable(s), NEW io, NEW store
    PROVE  Sound(Fail(s, io), store) /\ SameLink(s, Fail(s, io), io)
  <1> DEFINE closed == [s EXCEPT !.filter_ready = FALSE, !.hid_ready = FALSE,
                                 !.input_subscribed = FALSE, !.applied_mode = "PAUSED",
                                 !.state = "ERROR", !.deadline = FALSE]
             written == Commit(closed, "PAUSED", s.blob.selected, io.pause)
             stopped == StopAdvertising(written, io)
  <1>1. closed \in Cores /\ s.blob.selected \in Labels
    BY DEF Failable, Cores, Modes, States, Blobs
  <1>2. written \in Cores
    BY <1>1, CommitType
  <1>3. stopped \in Cores
    BY <1>2, StopType
  <1>4. /\ ~stopped.filter_ready /\ ~stopped.hid_ready /\ ~stopped.input_subscribed
        /\ stopped.applied_mode = "PAUSED" /\ stopped.state = "ERROR"
        /\ stopped.persisted => stopped.flash = stopped.blob
        /\ stopped.handle = s.handle /\ stopped.terminate_sent = s.terminate_sent
        /\ stopped.connected_id = s.connected_id
        /\ stopped.connected_address = s.connected_address
        /\ stopped.connection_generation = s.connection_generation
        /\ stopped.candidate = s.candidate
        /\ stopped.candidate_store_started = s.candidate_store_started
    BY <1>1 DEF Failable, StopAdvertising, Commit, Cores
  <1>5. Fail(s, io) = TerminateOnce(stopped, io.term)
    BY DEF Fail
  <1> HIDE DEF stopped
  <1>6. Closing(stopped, store)
    BY <1>3, <1>4 DEF Closing, IntentCoherent, ProofCoherent, WindowCoherent, Failable
  <1>7. QED
    BY <1>4, <1>5, <1>6, TerminateSound DEF SameLink

(* Every coherent core may fail. *)
LEMMA SoundFails ==
    ASSUME NEW s, NEW store, Sound(s, store)
    PROVE  Failable(s)
  BY DEF Sound, CoreCoherent, LinkCoherent, ProofCoherent, WindowCoherent, Failable

-------------------------------------------------------------------------------
(* hp_tick *)

LEMMA RefreshSound ==
    ASSUME NEW s, NEW store, Sound(s, store), NEW known
    PROVE  Sound(Refresh(s, known), store) /\ Failable(Refresh(s, known))
  <1>1. Refresh(s, known) \in Cores
    BY RefreshType DEF Sound
  <1>2. CoreCoherent(Refresh(s, known), store)
    BY DEF Sound, CoreCoherent, LinkCoherent, IntentCoherent, ProofCoherent, AdvertiseCoherent,
           WindowCoherent, AdvertisingAllowed, Refresh, Cores
  <1>3. QED
    BY <1>1, <1>2, SoundFails DEF Sound

LEMMA CloseEnrollmentSound ==
    ASSUME NEW s, NEW store, Sound(s, store), NEW io,
           s.state # "ERROR", s.requested_mode = "ENROLL"
    PROVE  Sound(CloseEnrollment(s, io), store) /\ SameLink(s, CloseEnrollment(s, io), io)
  <1> DEFINE ended == [s EXCEPT !.requested_mode = "PAUSED", !.deadline = FALSE]
             stopped == StopAdvertising(ended, io)
             closed == [stopped EXCEPT !.filter_ready = FALSE, !.hid_ready = FALSE,
                                       !.applied_mode = "PAUSED", !.state = "PAUSED"]
  <1>1. ended \in Cores
    BY DEF Sound, Cores, Modes
  <1>2. stopped \in Cores
    BY <1>1, StopType
  <1>3. closed \in Cores
    BY <1>2 DEF Cores, Modes, States
  <1>4. CASE io.fails = "stop"
    <2>1. Failable(stopped) /\ SameLink(s, stopped, io)
      BY <1>1, <1>2, SoundFails DEF StopAdvertising, Failable, SameLink, Sound, Cores
    <2>2. QED
      BY <1>4, <2>1, FailSound DEF CloseEnrollment, SameLink
  <1>5. CASE io.fails # "stop"
    <2>1. /\ ~closed.filter_ready /\ closed.applied_mode = "PAUSED" /\ closed.state = "PAUSED"
          /\ ~closed.advertising /\ ~closed.hid_ready /\ closed.requested_mode = "PAUSED"
          /\ closed.handle = s.handle /\ closed.terminate_sent = s.terminate_sent
          /\ closed.enrollment_rejected = s.enrollment_rejected
          /\ closed.input_subscribed = s.input_subscribed
          /\ closed.persisted = s.persisted /\ closed.flash = s.flash /\ closed.blob = s.blob
          /\ closed.target_id = s.target_id /\ closed.connected_id = s.connected_id
          /\ closed.connected_address = s.connected_address
          /\ closed.connection_generation = s.connection_generation
          /\ closed.candidate = s.candidate
          /\ closed.candidate_store_started = s.candidate_store_started
      <3>1. stopped = [ended EXCEPT !.advertising = FALSE]
        BY <1>1, <1>5, StopStops
      <3>2. closed = [[ended EXCEPT !.advertising = FALSE]
                         EXCEPT !.filter_ready = FALSE, !.hid_ready = FALSE,
                                !.applied_mode = "PAUSED", !.state = "PAUSED"]
        BY <3>1
      <3> HIDE DEF stopped, closed
      <3>3. QED
        BY <3>2 DEF Sound, Cores
    <2>2. CloseEnrollment(s, io) = TerminateOnce(closed, io.term)
      BY <1>5 DEF CloseEnrollment
    <2> HIDE DEF closed
    <2>3. Closing(closed, store)
      BY <1>3, <2>1 DEF Closing, Sound, CoreCoherent, LinkCoherent, IntentCoherent,
                        ProofCoherent, WindowCoherent
    <2>4. QED
      BY <2>1, <2>2, <2>3, TerminateSound DEF SameLink
  <1>6. QED
    BY <1>4, <1>5

LEMMA ApplyModeSound ==
    ASSUME NEW s, NEW store, Sound(s, store), NEW io, s.state = "SWITCHING", ~s.handle
    PROVE  Sound(ApplyMode(s, store, io), store) /\ SameLink(s, ApplyMode(s, store, io), io)
  <1> DEFINE read == Refresh(s, store)
             auto == s.requested_mode = "AUTO"
             state == IF auto THEN "WAITING" ELSE "ENROLLING"
             accept == IF auto THEN s.target_id ELSE NoHost
             paused == [s EXCEPT !.state = "PAUSED"]
             applied == [read EXCEPT !.applied_mode = s.requested_mode, !.filter_ready = TRUE,
                                     !.accept = accept, !.state = state]
  <1>1. Sound(read, store) /\ Failable(read) /\ Failable(s)
    BY RefreshSound, SoundFails
  <1>2. SameLink(s, Fail(s, io), io) /\ Sound(Fail(s, io), store)
    BY <1>1, FailSound
  <1>3. SameLink(s, Fail(read, io), io) /\ Sound(Fail(read, io), store)
    BY <1>1, FailSound DEF SameLink, Refresh, Sound, Cores
  <1>4. CASE s.requested_mode = "PAUSED"
    <2>1. paused \in Cores
      BY DEF Sound, Cores, States
    <2>2. CoreCoherent(paused, store)
      BY <1>4 DEF Sound, CoreCoherent, LinkCoherent, IntentCoherent, ProofCoherent,
                  AdvertiseCoherent, WindowCoherent, AdvertisingAllowed, Cores
    <2>3. SameLink(s, paused, io)
      BY DEF SameLink, Sound, Cores
    <2>4. QED
      BY <1>4, <2>1, <2>2, <2>3 DEF ApplyMode, Sound
  <1>5. CASE s.requested_mode # "PAUSED" /\ (auto => Resumable(store, s.target_id))
    <2>1. s \in Cores /\ state \in States /\ accept \in Labels /\ s.requested_mode \in Modes
          /\ state # "ERROR" /\ state # "PAUSED"
      BY DEF Sound, Cores, States, Labels
    <2>2. auto => s.target_id \in Hosts
      BY <1>5 DEF Resumable
    <2>3. (auto => accept = s.target_id) /\ (~auto => accept = NoHost)
      OBVIOUS
    <2>4. s.handle = FALSE /\ s.hid_ready = FALSE /\ s.terminate_sent = FALSE
      BY DEF Sound, CoreCoherent, ProofCoherent, LinkCoherent, Cores
    <2> HIDE DEF state, accept
    <2>5. applied \in Cores
      BY <1>1, <2>1 DEF Sound, Cores
    <2>6. /\ applied.filter_ready = TRUE /\ applied.applied_mode = s.requested_mode
          /\ applied.requested_mode = s.requested_mode /\ applied.state = state
          /\ applied.accept = accept /\ applied.advertising = s.advertising
          /\ applied.handle = FALSE /\ applied.hid_ready = FALSE /\ applied.terminate_sent = FALSE
          /\ applied.flash = s.flash /\ applied.blob = s.blob /\ applied.persisted = s.persisted
          /\ applied.target_id = s.target_id /\ applied.candidate = s.candidate
          /\ applied.candidate_store_started = s.candidate_store_started
          /\ applied.enrollment_existing = s.enrollment_existing
          /\ applied.connection_generation = s.connection_generation
          /\ applied.connected_address = s.connected_address
      BY <2>1, <2>4 DEF Refresh, Cores
    <2> HIDE DEF applied
    <2>7. LinkCoherent(applied) /\ ProofCoherent(applied, store)
      BY <2>1, <2>6 DEF LinkCoherent, ProofCoherent
    <2>8. IntentCoherent(applied)
      BY <2>1, <2>2, <2>6 DEF Sound, CoreCoherent, IntentCoherent
    <2>9. AdvertiseCoherent(applied)
      BY <1>5, <2>1, <2>3, <2>6 DEF AdvertiseCoherent, AdvertisingAllowed
    <2>10. WindowCoherent(applied, store)
      BY <2>1, <2>6 DEF Sound, CoreCoherent, WindowCoherent
    <2>11. Sound(applied, store) /\ SameLink(s, applied, io)
      BY <2>4, <2>5, <2>6, <2>7, <2>8, <2>9, <2>10 DEF Sound, CoreCoherent, SameLink
    <2>12. ApplyMode(s, store, io) \in {Fail(s, io), Fail(read, io), applied}
      BY <1>5 DEF ApplyMode, applied, accept, state
    <2>13. QED
      BY <1>2, <1>3, <2>11, <2>12
  <1>6. CASE s.requested_mode # "PAUSED" /\ auto /\ ~Resumable(store, s.target_id)
    BY <1>2, <1>3, <1>6 DEF ApplyMode
  <1>7. QED
    BY <1>4, <1>5, <1>6

(* A commit that fails leaves something hp_fail closes. *)
LEMMA CommitFails ==
    ASSUME NEW s, Failable(s), NEW mode \in {"PAUSED", "AUTO"}, NEW selected \in Labels, NEW result
    PROVE  /\ Failable(Commit(s, mode, selected, result))
           /\ \A io : SameLink(s, Commit(s, mode, selected, result), io)
  <1> DEFINE written == Commit(s, mode, selected, result)
  <1>1. written \in Cores
    BY CommitType DEF Failable
  <1>2. /\ written.terminate_sent = s.terminate_sent /\ written.handle = s.handle
        /\ written.connected_id = s.connected_id
        /\ written.connected_address = s.connected_address
        /\ written.connection_generation = s.connection_generation
        /\ written.candidate = s.candidate
        /\ written.candidate_store_started = s.candidate_store_started
    BY DEF Commit, Failable, Cores
  <1>3. QED
    BY <1>1, <1>2 DEF Failable, SameLink

(* A failure after part of a handler has run. *)
LEMMA LateFail ==
    ASSUME NEW s, NEW t, NEW store, NEW io, Failable(t), SameLink(s, t, io)
    PROVE  Sound(Fail(t, io), store) /\ SameLink(s, Fail(t, io), io)
  BY FailSound DEF SameLink

LEMMA SelectNewcomerSound ==
    ASSUME NEW s, NEW store, Sound(s, store), NEW io,
           s.state # "ERROR", s.applied_mode = "ENROLL", s.handle, s.input_subscribed,
           Complete(store, s.connected_address)
    PROVE  Sound(SelectNewcomer(s, io), store) /\ SameLink(s, SelectNewcomer(s, io), io)
  <1> DEFINE peer == s.connected_address
             written == Commit(s, "AUTO", peer, CommitResult(io))
             won == [written EXCEPT !.requested_mode = "AUTO", !.applied_mode = "AUTO",
                             !.target_id = peer, !.accept = peer, !.deadline = FALSE,
                             !.hid_ready = TRUE, !.state = "CONNECTED"]
  <1>1. s \in Cores /\ Failable(s) /\ peer \in Hosts /\ peer \in Labels
    BY SoundFails DEF Sound, Complete, Labels
  <1>2. written \in Cores /\ Failable(written) /\ SameLink(s, written, io)
    BY <1>1, CommitType, CommitFails
  <1>3. Sound(Fail(written, io), store) /\ SameLink(s, Fail(written, io), io)
    BY <1>2, LateFail
  <1>4. CASE CommitResult(io) = "ok" /\ io.fails # "filter"
    <2> DEFINE next == [valid |-> TRUE, mode |-> "AUTO", selected |-> peer]
    <2>1. written = [s EXCEPT !.blob = next, !.flash = next, !.persisted = TRUE]
      BY <1>4 DEF Commit
    <2>2. next.mode = "AUTO" /\ next.selected = peer
      OBVIOUS
    <2> HIDE DEF next, written
    <2>3. won \in Cores
      BY <1>1, <1>2 DEF Cores, Modes, States
    <2>4. /\ won.requested_mode = "AUTO" /\ won.applied_mode = "AUTO" /\ won.target_id = peer
          /\ won.accept = peer /\ won.hid_ready = TRUE /\ won.state = "CONNECTED"
          /\ won.blob = next /\ won.flash = next /\ won.handle = s.handle
          /\ won.terminate_sent = s.terminate_sent /\ won.filter_ready = s.filter_ready
          /\ won.enrollment_rejected = s.enrollment_rejected
          /\ won.input_subscribed = s.input_subscribed /\ won.advertising = s.advertising
          /\ won.connected_id = s.connected_id /\ won.connected_address = peer
          /\ won.connection_generation = s.connection_generation
          /\ won.candidate = s.candidate
          /\ won.candidate_store_started = s.candidate_store_started
      BY <1>1, <2>1 DEF Cores
    <2>5. SelectNewcomer(s, io) = won
      BY <1>4 DEF SelectNewcomer, written
    <2> HIDE DEF won
    <2>6. LinkCoherent(won) /\ ProofCoherent(won, store) /\ WindowCoherent(won, store)
      BY <1>1, <2>4 DEF Sound, CoreCoherent, LinkCoherent, ProofCoherent, WindowCoherent
    <2>7. IntentCoherent(won)
      BY <1>1, <2>2, <2>4 DEF IntentCoherent
    <2>8. AdvertiseCoherent(won)
      BY <1>1, <2>4 DEF Sound, CoreCoherent, AdvertiseCoherent, AdvertisingAllowed
    <2>9. QED
      BY <1>1, <2>3, <2>4, <2>5, <2>6, <2>7, <2>8 DEF Sound, CoreCoherent, SameLink
  <1>5. CASE CommitResult(io) # "ok" \/ io.fails = "filter"
    BY <1>3, <1>5 DEF SelectNewcomer
  <1>6. QED
    BY <1>4, <1>5

LEMMA PromoteLinkSound ==
    ASSUME NEW s, NEW store, Sound(s, store), NEW io, s.state # "ERROR", LinkProved(s)
    PROVE  Sound(PromoteLink(s, store, io), store) /\ SameLink(s, PromoteLink(s, store, io), io)
  <1> DEFINE read == Refresh(s, store)
             ready == [read EXCEPT !.hid_ready = TRUE, !.state = "CONNECTED"]
  <1>1. Sound(read, store) /\ Failable(read) /\ Failable(s)
    BY RefreshSound, SoundFails
  <1>2. SameLink(s, Fail(s, io), io) /\ Sound(Fail(s, io), store)
    BY <1>1, FailSound
  <1>3. /\ SameLink(s, read, io) /\ read.state = s.state /\ read.applied_mode = s.applied_mode
        /\ read.handle = s.handle /\ read.input_subscribed = s.input_subscribed
        /\ read.connected_address = s.connected_address
    BY DEF SameLink, Refresh, Sound, Cores
  <1>4. CASE Complete(store, s.connected_address) /\ s.applied_mode = "ENROLL"
    <2>1. Sound(SelectNewcomer(read, io), store) /\ SameLink(read, SelectNewcomer(read, io), io)
      BY <1>1, <1>3, <1>4, SelectNewcomerSound DEF LinkProved
    <2>2. QED
      BY <1>2, <1>3, <1>4, <2>1 DEF PromoteLink, SameLink
  <1>5. CASE Complete(store, s.connected_address) /\ s.applied_mode # "ENROLL"
    <2>1. ready \in Cores
      BY <1>1 DEF Sound, Cores, States
    <2>2. CoreCoherent(ready, store)
      BY <1>1, <1>3, <1>5 DEF Sound, CoreCoherent, LinkCoherent, IntentCoherent, ProofCoherent,
         AdvertiseCoherent, WindowCoherent, AdvertisingAllowed, LinkProved, Cores
    <2>3. SameLink(s, ready, io)
      BY DEF SameLink, Refresh, Sound, Cores
    <2>4. QED
      BY <1>2, <1>5, <2>1, <2>2, <2>3 DEF PromoteLink, Sound
  <1>6. CASE ~Complete(store, s.connected_address)
    BY <1>1, <1>2, <1>3, <1>6 DEF PromoteLink
  <1>7. QED
    BY <1>4, <1>5, <1>6

LEMMA TickSound ==
    ASSUME NEW s, NEW store, Sound(s, store), NEW expired, NEW io
    PROVE  Sound(Tick(s, expired, store, io), store) /\ SameLink(s, Tick(s, expired, store, io), io)
  <1>1. SameLink(s, s, io)
    BY DEF SameLink
  <1>2. QED
    BY <1>1, CloseEnrollmentSound, ApplyModeSound, PromoteLinkSound DEF Tick

-------------------------------------------------------------------------------
(* hp_request *)

LEMMA BeginSwitchSound ==
    ASSUME NEW s, Failable(s), NEW store, NEW io, NEW mode \in Modes, NEW selected \in Labels,
           s.requested_mode = mode, mode = "AUTO" => selected \in Hosts,
           ~s.filter_ready, ~s.hid_ready, ~s.input_subscribed, ~s.candidate_store_started,
           mode = "ENROLL" => Known(store) \subseteq s.enrollment_existing
    PROVE  /\ Sound(BeginSwitch(s, mode, selected, store, io), store)
           /\ SameLink(s, BeginSwitch(s, mode, selected, store, io), io)
  <1> DEFINE result == CommitResult(io)
             durable == IF mode = "AUTO" THEN "AUTO" ELSE "PAUSED"
             written == Commit(s, durable, selected, result)
             aimed == [written EXCEPT !.target_id = selected]
             stopped == StopAdvertising(aimed, io)
             closed == [stopped EXCEPT !.state = "SWITCHING", !.applied_mode = "PAUSED"]
  <1>1. durable \in {"PAUSED", "AUTO"} /\ (durable = "AUTO" <=> mode = "AUTO")
    OBVIOUS
  <1> HIDE DEF durable
  <1>2. s \in Cores /\ written \in Cores /\ Failable(written) /\ SameLink(s, written, io)
    BY <1>1, CommitType, CommitFails DEF Failable
  <1>3. Sound(Fail(written, io), store) /\ SameLink(s, Fail(written, io), io)
    BY <1>2, LateFail
  <1>4. aimed \in Cores /\ Failable(aimed) /\ SameLink(s, aimed, io)
    <2> HIDE DEF written
    <2>1. QED
      BY <1>2 DEF Failable, SameLink, Cores
  <1>5. stopped \in Cores /\ Failable(stopped) /\ SameLink(s, stopped, io)
    <2> HIDE DEF aimed
    <2>1. stopped \in Cores
      BY <1>4, StopType
    <2>2. QED
      BY <1>4, <2>1 DEF Failable, SameLink, StopAdvertising, Cores
  <1>6. Sound(Fail(stopped, io), store) /\ SameLink(s, Fail(stopped, io), io)
    <2> HIDE DEF stopped
    <2>1. QED
      BY <1>5, LateFail
  <1>7. CASE result = "ok" /\ io.fails # "stop"
    <2> DEFINE next == [valid |-> TRUE, mode |-> durable, selected |-> selected]
    <2>1. written = [s EXCEPT !.blob = next, !.flash = next, !.persisted = TRUE]
      BY <1>7 DEF Commit
    <2>2. stopped = [aimed EXCEPT !.advertising = FALSE]
      BY <1>4, <1>7, StopStops
    <2>3. next.mode = durable /\ next.selected = selected
      OBVIOUS
    <2>4. closed \in Cores
      <3> HIDE DEF stopped
      <3>1. QED
        BY <1>5 DEF Cores, Modes, States
    <2>5. closed = [[[s EXCEPT !.blob = next, !.flash = next, !.persisted = TRUE]
                        EXCEPT !.target_id = selected]
                        EXCEPT !.advertising = FALSE, !.state = "SWITCHING",
                               !.applied_mode = "PAUSED"]
      BY <2>1, <2>2
    <2>6. BeginSwitch(s, mode, selected, store, io)
             = Tick(TerminateOnce(closed, io.term), FALSE, store, io)
      BY <1>7 DEF BeginSwitch, durable
    <2> HIDE DEF next, closed
    <2>7. /\ closed.blob = next /\ closed.flash = next /\ closed.target_id = selected
          /\ ~closed.advertising /\ closed.state = "SWITCHING" /\ closed.applied_mode = "PAUSED"
          /\ closed.requested_mode = s.requested_mode /\ closed.filter_ready = s.filter_ready
          /\ closed.hid_ready = s.hid_ready /\ closed.input_subscribed = s.input_subscribed
          /\ closed.handle = s.handle /\ closed.terminate_sent = s.terminate_sent
          /\ closed.connected_id = s.connected_id
          /\ closed.connected_address = s.connected_address
          /\ closed.connection_generation = s.connection_generation
          /\ closed.candidate_store_started = s.candidate_store_started
          /\ closed.enrollment_existing = s.enrollment_existing
      BY <1>2, <2>5 DEF Cores
    <2>8. IntentCoherent(closed)
      BY <1>1, <2>3, <2>7 DEF IntentCoherent
    <2>9. ProofCoherent(closed, store) /\ WindowCoherent(closed, store)
      BY <2>7 DEF ProofCoherent, WindowCoherent, Failable
    <2>10. Closing(closed, store)
      BY <2>4, <2>7, <2>8, <2>9 DEF Closing, Failable
    <2>11. /\ Sound(TerminateOnce(closed, io.term), store)
           /\ SameLink(closed, TerminateOnce(closed, io.term), io)
      BY <2>10, TerminateSound
    <2> DEFINE ended == TerminateOnce(closed, io.term)
    <2>12. SameLink(s, closed, io)
      BY <2>7 DEF SameLink
    <2> HIDE DEF ended
    <2>13. /\ Sound(Tick(ended, FALSE, store, io), store)
           /\ SameLink(ended, Tick(ended, FALSE, store, io), io)
      BY <2>11, TickSound DEF ended
    <2>14. QED
      BY <2>6, <2>11, <2>12, <2>13 DEF SameLink, ended
  <1>8. CASE result # "ok" \/ io.fails = "stop"
    BY <1>3, <1>6, <1>8 DEF BeginSwitch, durable
  <1>9. QED
    BY <1>7, <1>8

LEMMA RequestSound ==
    ASSUME NEW s, NEW store, Sound(s, store), NEW io, NEW mode \in Modes, NEW target \in Labels,
           NEW operation \in Nat
    PROVE  /\ Sound(Request(s, mode, target, operation, store, io), store)
           /\ SameLink(s, Request(s, mode, target, operation, store, io), io)
  <1> DEFINE intent == NewIntent(s, mode, operation)
             read == Refresh(intent, store)
             window == [read EXCEPT !.deadline = TRUE, !.enrollment_existing = Known(store)]
             selected == IF mode = "AUTO" /\ target # NoHost THEN target ELSE s.blob.selected
             sent == s.terminate_sent /\ ~s.terminate_failed
  <1>1. s \in Cores /\ Failable(s) /\ selected \in Labels /\ sent \in BOOLEAN
        /\ NoHost \in Labels /\ Known(store) \subseteq Hosts
    BY SoundFails DEF Sound, Cores, Blobs, Labels, Known
  <1>2. intent = [s EXCEPT !.operation_id = operation, !.requested_mode = mode,
                           !.terminate_sent = sent, !.terminate_failed = FALSE,
                           !.filter_ready = FALSE, !.hid_ready = FALSE,
                           !.input_subscribed = FALSE, !.candidate = NoHost,
                           !.candidate_store_started = FALSE, !.deadline = FALSE]
    BY DEF NewIntent
  <1>3. sent => s.terminate_sent
    OBVIOUS
  <1> HIDE DEF intent, sent, selected
  <1>4. intent \in Cores
    <2> DEFINE part == [s EXCEPT !.operation_id = operation, !.requested_mode = mode,
                                 !.terminate_sent = sent, !.terminate_failed = FALSE,
                                 !.candidate = NoHost]
    <2>1. part \in Cores
      BY <1>1 DEF Cores
    <2>2. intent = [part EXCEPT !.filter_ready = FALSE, !.hid_ready = FALSE,
                                !.input_subscribed = FALSE, !.candidate_store_started = FALSE,
                                !.deadline = FALSE]
      BY <1>2 DEF Cores, part
    <2> HIDE DEF part
    <2>3. QED
      BY <2>1, <2>2 DEF Cores
  <1>5. /\ intent.requested_mode = mode /\ intent.terminate_sent = sent
        /\ ~intent.filter_ready /\ ~intent.hid_ready /\ ~intent.input_subscribed
        /\ ~intent.candidate_store_started /\ intent.handle = s.handle
        /\ intent.connected_id = s.connected_id
        /\ intent.connected_address = s.connected_address
        /\ intent.connection_generation = s.connection_generation
    BY <1>1, <1>2 DEF Cores
  <1>6. Failable(intent) /\ SameLink(s, intent, io)
    BY <1>1, <1>3, <1>4, <1>5 DEF Failable, SameLink
  <1>7. /\ read \in Cores /\ Failable(read) /\ SameLink(s, read, io)
        /\ read.requested_mode = mode /\ ~read.filter_ready /\ ~read.hid_ready
        /\ ~read.input_subscribed /\ ~read.candidate_store_started
    BY <1>1, <1>4, <1>5, <1>6 DEF Refresh, Failable, SameLink, Cores
  <1> HIDE DEF read
  <1>8. /\ window \in Cores /\ Failable(window) /\ SameLink(s, window, io)
        /\ window.requested_mode = mode /\ ~window.filter_ready /\ ~window.hid_ready
        /\ ~window.input_subscribed /\ ~window.candidate_store_started
        /\ window.enrollment_existing = Known(store)
    BY <1>1, <1>7 DEF Failable, SameLink, Cores
  <1> HIDE DEF window
  <1>9. /\ Sound(Fail(intent, io), store) /\ SameLink(s, Fail(intent, io), io)
        /\ Sound(Fail(read, io), store) /\ SameLink(s, Fail(read, io), io)
    BY <1>6, <1>7, LateFail
  <1>10. mode = "ENROLL" =>
            /\ Sound(BeginSwitch(window, mode, selected, store, io), store)
            /\ SameLink(s, BeginSwitch(window, mode, selected, store, io), io)
    <2>1. SUFFICES ASSUME mode = "ENROLL"
                   PROVE  /\ Sound(BeginSwitch(window, mode, selected, store, io), store)
                          /\ SameLink(window, BeginSwitch(window, mode, selected, store, io), io)
      BY <1>8 DEF SameLink
    <2>2. (mode = "AUTO" => selected \in Hosts) /\ Known(store) \subseteq window.enrollment_existing
      BY <1>8, <2>1
    <2>3. QED
      BY <1>1, <1>8, <2>2, BeginSwitchSound
  <1>11. mode = "PAUSED" \/ (mode = "AUTO" /\ Resumable(store, selected)) =>
            /\ Sound(BeginSwitch(read, mode, selected, store, io), store)
            /\ SameLink(s, BeginSwitch(read, mode, selected, store, io), io)
    BY <1>1, <1>7, BeginSwitchSound DEF SameLink, Resumable
  <1>12. QED
    BY <1>9, <1>10, <1>11 DEF Request, intent, read, window, selected, Modes

-------------------------------------------------------------------------------
(* Link callbacks *)

LEMMA ConnectSound ==
    ASSUME NEW s, NEW store, Sound(s, store), NEW address \in Addresses
    PROVE  LET stopped == [s EXCEPT !.advertising = FALSE]
               t == Connect(stopped, address)
           IN  /\ Sound(t, store)
               /\ t.handle /\ ~s.handle =>
                     /\ t.connection_generation = s.connection_generation + 1
                     /\ t.connected_address = address
               /\ t.handle = s.handle =>
                     /\ t.connection_generation = s.connection_generation
                     /\ t.connected_address = s.connected_address
               /\ s.handle => t.handle
  <1> DEFINE stopped == [s EXCEPT !.advertising = FALSE]
             known == address \in Hosts
             id == IF known THEN address ELSE NoHost
             candidate == IF s.applied_mode = "ENROLL" /\ known THEN address ELSE s.candidate
             t == Connect(stopped, address)
             up == [stopped EXCEPT !.handle = TRUE, !.terminate_sent = FALSE,
                       !.terminate_failed = FALSE, !.input_subscribed = FALSE,
                       !.enrollment_rejected = FALSE, !.connection_generation = @ + 1,
                       !.connected_address = address, !.connected_id = id,
                       !.encrypted = FALSE, !.bonded = FALSE, !.hid_ready = FALSE,
                       !.candidate = candidate]
  <1>1. /\ s \in Cores /\ id \in Labels /\ candidate \in Labels
        /\ id # NoHost => id = address
    BY DEF Sound, Cores, Labels
  <1>2. stopped \in Cores /\ Sound(stopped, store) /\ stopped.applied_mode = s.applied_mode
        /\ stopped.candidate = s.candidate
    <2>1. stopped \in Cores
      BY <1>1 DEF Cores
    <2>2. CoreCoherent(stopped, store)
      BY <1>1 DEF Sound, CoreCoherent, LinkCoherent, IntentCoherent, ProofCoherent,
                  AdvertiseCoherent, WindowCoherent, AdvertisingAllowed, Cores
    <2>3. QED
      BY <1>1, <2>1, <2>2 DEF Sound, Cores
  <1>3. t = IF Admits(stopped, address) THEN up ELSE stopped
    BY <1>2 DEF Connect
  <1>4. candidate # s.candidate =>
           s.applied_mode = "ENROLL" /\ known /\ candidate = address
    OBVIOUS
  <1> HIDE DEF id, candidate
  <1>5. CASE Admits(stopped, address)
    <2> DEFINE next == stopped.connection_generation + 1
               part == [stopped EXCEPT !.handle = TRUE, !.terminate_sent = FALSE,
                           !.terminate_failed = FALSE, !.input_subscribed = FALSE,
                           !.enrollment_rejected = FALSE, !.connection_generation = next]
    <2>1. part \in Cores
      <3>1. next \in Nat
        BY <1>2 DEF Cores
      <3> HIDE DEF next, stopped
      <3>2. QED
        BY <1>2, <3>1 DEF Cores
    <2>2. up = [part EXCEPT !.connected_address = address, !.connected_id = id,
                   !.encrypted = FALSE, !.bonded = FALSE, !.hid_ready = FALSE,
                   !.candidate = candidate]
      BY <1>2 DEF Cores
    <2>3. /\ up.handle /\ ~up.terminate_sent /\ ~up.input_subscribed
          /\ ~up.enrollment_rejected /\ up.connected_address = address /\ up.connected_id = id
          /\ ~up.hid_ready /\ up.candidate = candidate /\ ~up.advertising
          /\ up.connection_generation = s.connection_generation + 1
          /\ up.requested_mode = s.requested_mode /\ up.applied_mode = s.applied_mode
          /\ up.state = s.state /\ up.target_id = s.target_id
          /\ up.filter_ready = s.filter_ready /\ up.persisted = s.persisted
          /\ up.blob = s.blob /\ up.flash = s.flash /\ up.accept = s.accept
          /\ up.candidate_store_started = s.candidate_store_started
          /\ up.enrollment_existing = s.enrollment_existing
      BY <1>1 DEF Cores
    <2>4. up \in Cores
      <3> HIDE DEF part, up
      <3>1. QED
        BY <1>1, <2>1, <2>2 DEF Cores
    <2>5. /\ s.filter_ready /\ s.state # "ERROR" /\ ~s.handle
          /\ s.applied_mode = "ENROLL" /\ known => ~Mismatched(stopped, address)
      BY <1>1, <1>5 DEF Admits, AdvertisingAllowed, Cores
    <2> HIDE DEF up
    <2>6. LinkCoherent(up) /\ ProofCoherent(up, store) /\ AdvertiseCoherent(up)
      BY <1>1, <2>3, <2>5 DEF LinkCoherent, ProofCoherent, AdvertiseCoherent,
                              Sound, CoreCoherent
    <2>7. IntentCoherent(up)
      BY <2>3 DEF IntentCoherent, Sound, CoreCoherent
    <2>8. s.candidate_store_started => candidate = s.candidate
      BY <1>2, <1>4, <2>5 DEF Mismatched, Sound, CoreCoherent, WindowCoherent
    <2>9. WindowCoherent(up, store)
      BY <2>3, <2>8 DEF WindowCoherent, Sound, CoreCoherent
    <2>10. Sound(up, store)
      BY <2>4, <2>6, <2>7, <2>9 DEF Sound, CoreCoherent
    <2>11. QED
      BY <1>3, <1>5, <2>3, <2>5, <2>10
  <1>6. CASE ~Admits(stopped, address)
    BY <1>1, <1>2, <1>3, <1>6 DEF Cores
  <1>7. QED
    BY <1>5, <1>6

LEMMA RejectSound ==
    ASSUME NEW s, NEW store, Sound(s, store), NEW io, NEW generation, RejectApplies(s, generation)
    PROVE  /\ Sound(RejectEnrollmentLink(s, io), store)
           /\ SameLink(s, RejectEnrollmentLink(s, io), io)
  <1> DEFINE candidate == IF s.candidate_store_started THEN s.candidate ELSE NoHost
             cut == [s EXCEPT !.enrollment_rejected = TRUE, !.candidate = candidate,
                              !.connected_id = NoHost, !.encrypted = FALSE, !.bonded = FALSE,
                              !.filter_ready = FALSE, !.hid_ready = FALSE,
                              !.input_subscribed = FALSE, !.state = "SWITCHING"]
  <1>1. s \in Cores /\ candidate \in Labels /\ (s.candidate_store_started => candidate = s.candidate)
    BY DEF Sound, Cores, Labels
  <1>2. RejectEnrollmentLink(s, io) = IF s.enrollment_rejected THEN s
                                      ELSE TerminateOnce(cut, io.term)
    BY DEF RejectEnrollmentLink
  <1> HIDE DEF candidate
  <1>3. cut \in Cores
    <2> DEFINE part == [s EXCEPT !.enrollment_rejected = TRUE, !.candidate = candidate,
                                 !.connected_id = NoHost, !.state = "SWITCHING"]
    <2>1. part \in Cores
      BY <1>1 DEF Cores, Labels, States
    <2>2. cut = [part EXCEPT !.encrypted = FALSE, !.bonded = FALSE, !.filter_ready = FALSE,
                             !.hid_ready = FALSE, !.input_subscribed = FALSE]
      BY <1>1 DEF Cores
    <2> HIDE DEF part, cut
    <2>3. QED
      BY <2>1, <2>2 DEF Cores
  <1>4. /\ cut.enrollment_rejected /\ cut.candidate = candidate /\ cut.connected_id = NoHost
        /\ ~cut.filter_ready /\ ~cut.hid_ready /\ ~cut.input_subscribed
        /\ cut.state = "SWITCHING" /\ cut.handle = s.handle
        /\ cut.terminate_sent = s.terminate_sent /\ cut.advertising = s.advertising
        /\ cut.requested_mode = s.requested_mode /\ cut.applied_mode = s.applied_mode
        /\ cut.target_id = s.target_id /\ cut.accept = s.accept
        /\ cut.persisted = s.persisted /\ cut.blob = s.blob /\ cut.flash = s.flash
        /\ cut.candidate_store_started = s.candidate_store_started
        /\ cut.enrollment_existing = s.enrollment_existing
        /\ cut.connected_address = s.connected_address
        /\ cut.connection_generation = s.connection_generation
    BY <1>1 DEF Cores
  <1>5. /\ s.handle /\ s.state # "ERROR" /\ s.applied_mode = "ENROLL"
        /\ s.requested_mode = "ENROLL"
    BY DEF RejectApplies, Current
  <1> HIDE DEF cut
  <1>6. IntentCoherent(cut) /\ ProofCoherent(cut, store)
    BY <1>4, <1>5 DEF IntentCoherent, ProofCoherent, Sound, CoreCoherent
  <1>7. WindowCoherent(cut, store)
    BY <1>1, <1>4, <1>5 DEF WindowCoherent, Sound, CoreCoherent
  <1>8. cut.advertising => cut.state = "ERROR"
    BY <1>1, <1>4, <1>5 DEF Sound, CoreCoherent, AdvertiseCoherent, AdvertisingAllowed
  <1>9. Closing(cut, store)
    BY <1>3, <1>4, <1>5, <1>6, <1>7, <1>8
       DEF Closing, Sound, CoreCoherent, LinkCoherent, AdvertiseCoherent
  <1>10. SameLink(s, s, io)
    BY DEF SameLink
  <1>11. QED
    BY <1>2, <1>4, <1>9, <1>10, TerminateSound DEF SameLink

(* An identity update names the link's host, under an address that may be  *)
(* the one already known.                                                  *)
LEMMA IdentitySound ==
    ASSUME NEW s, NEW store, Sound(s, store), NEW io, NEW generation, NEW address \in Addresses,
           s.hid_ready /\ address \in Hosts => address = s.connected_address
    PROVE  LET t == Identity(s, generation, address, io)
           IN  /\ Sound(t, store)
               /\ t.connection_generation = s.connection_generation
               /\ t.connected_address \in {s.connected_address, address}
               /\ io.term # "absent" => t.handle = s.handle
  <1> DEFINE resolved == [s EXCEPT !.connected_address = address, !.connected_id = address]
             chosen == [resolved EXCEPT !.candidate = address]
             t == Identity(s, generation, address, io)
  <1>1. Failable(s) /\ s \in Cores
    BY SoundFails DEF Sound
  <1>2. Sound(Fail(s, io), store) /\ SameLink(s, Fail(s, io), io)
    BY <1>1, FailSound
  <1>3. RejectApplies(s, generation) => /\ Sound(RejectEnrollmentLink(s, io), store)
                                        /\ SameLink(s, RejectEnrollmentLink(s, io), io)
    BY RejectSound
  <1>4. CASE Current(s, generation) /\ s.state # "ERROR" /\ ~s.enrollment_rejected
             /\ address \in Hosts
    <2>1. resolved \in Cores /\ chosen \in Cores
      BY <1>1, <1>4 DEF Cores, Labels
    <2>2. CoreCoherent(resolved, store)
      BY <1>1, <1>4 DEF Sound, CoreCoherent, LinkCoherent, IntentCoherent, ProofCoherent,
                 AdvertiseCoherent, WindowCoherent, AdvertisingAllowed, Cores
    <2>3. address # NoHost
      BY <1>4, HostAssumption
    <2>4. ~Mismatched(s, address) => CoreCoherent(chosen, store)
      BY <1>1, <1>4, <2>3 DEF Mismatched, Sound, CoreCoherent, LinkCoherent, IntentCoherent,
                 ProofCoherent, AdvertiseCoherent, WindowCoherent, AdvertisingAllowed, Cores
    <2>5. /\ resolved.connection_generation = s.connection_generation
          /\ resolved.connected_address = address /\ resolved.handle = s.handle
          /\ chosen.connection_generation = s.connection_generation
          /\ chosen.connected_address = address /\ chosen.handle = s.handle
      BY <1>1 DEF Cores
    <2>6. \/ t = Fail(s, io) \/ t = resolved
          \/ ~Mismatched(s, address) /\ t = chosen
          \/ RejectApplies(s, generation) /\ t = RejectEnrollmentLink(s, io)
      BY <1>4 DEF Identity
    <2> HIDE DEF resolved, chosen
    <2>7. QED
      BY <1>2, <1>3, <2>1, <2>2, <2>4, <2>5, <2>6 DEF Sound, SameLink
  <1>5. CASE ~Current(s, generation) \/ s.state = "ERROR" \/ s.enrollment_rejected
    BY <1>5 DEF Identity
  <1>6. CASE address \notin Hosts
    <2>1. t \in {s, Fail(s, io)}
      BY <1>6 DEF Identity
    <2>2. QED
      BY <1>2, <2>1 DEF SameLink
  <1>7. QED
    BY <1>4, <1>5, <1>6

LEMMA SecuritySound ==
    ASSUME NEW s, NEW store, Sound(s, store), NEW io, NEW generation,
           NEW encrypted \in BOOLEAN, NEW bonded \in BOOLEAN, NEW error
    PROVE  LET t == Security(s, generation, encrypted, bonded, error, io)
           IN  Sound(t, store) /\ SameLink(s, t, io)
  <1> DEFINE ready == s.hid_ready /\ encrypted /\ bonded
             seen == [s EXCEPT !.encrypted = encrypted, !.bonded = bonded, !.hid_ready = ready]
             t == Security(s, generation, encrypted, bonded, error, io)
  <1>1. s \in Cores /\ ready \in BOOLEAN /\ (ready => s.hid_ready)
    BY DEF Sound, Cores
  <1>2. t \in {s, seen, Fail(seen, io)}
    BY DEF Security
  <1> HIDE DEF ready
  <1>3. seen \in Cores
    BY <1>1 DEF Cores
  <1>4. CoreCoherent(seen, store) /\ SameLink(s, seen, io) /\ SameLink(s, s, io)
    BY <1>1 DEF Sound, CoreCoherent, LinkCoherent, IntentCoherent, ProofCoherent,
                AdvertiseCoherent, WindowCoherent, AdvertisingAllowed, SameLink, Cores
  <1> HIDE DEF seen
  <1>5. Sound(seen, store) /\ Failable(seen)
    BY <1>3, <1>4, SoundFails DEF Sound
  <1>6. QED
    BY <1>2, <1>4, <1>5, LateFail

LEMMA SubscribeSound ==
    ASSUME NEW s, NEW store, Sound(s, store), NEW generation, NEW enabled \in BOOLEAN, NEW io
    PROVE  LET t == Subscribe(s, generation, enabled)
           IN  Sound(t, store) /\ SameLink(s, t, io) /\ t.handle = s.handle
  <1> DEFINE ready == s.hid_ready /\ s.input_subscribed = enabled
             t == [s EXCEPT !.hid_ready = ready, !.input_subscribed = enabled]
  <1>1. s \in Cores /\ ready \in BOOLEAN /\ (ready => s.hid_ready /\ enabled = s.input_subscribed)
    BY DEF Sound, Cores
  <1>2. Subscribe(s, generation, enabled) = IF ~Current(s, generation) \/ s.enrollment_rejected
                                            THEN s ELSE t
    BY DEF Subscribe
  <1> HIDE DEF ready
  <1>3. t \in Cores
    BY <1>1 DEF Cores
  <1>4. ~s.enrollment_rejected => CoreCoherent(t, store)
    BY <1>1 DEF Sound, CoreCoherent, LinkCoherent, IntentCoherent, ProofCoherent,
                AdvertiseCoherent, WindowCoherent, AdvertisingAllowed, Cores
  <1>5. SameLink(s, t, io) /\ SameLink(s, s, io) /\ t.handle = s.handle
    BY <1>1 DEF SameLink, Cores
  <1> HIDE DEF t
  <1>6. QED
    BY <1>2, <1>3, <1>4, <1>5 DEF Sound

LEMMA DisconnectSound ==
    ASSUME NEW s, NEW store, Sound(s, store), NEW generation
    PROVE  LET t == Disconnect(s, generation)
           IN  /\ Sound(t, store)
               /\ t.connection_generation = s.connection_generation
               /\ generation # s.connection_generation => t = s
  <1> DEFINE state == IF s.state = "ERROR" THEN s.state ELSE "SWITCHING"
             t == [s EXCEPT !.handle = FALSE, !.connected_id = NoHost, !.encrypted = FALSE,
                            !.bonded = FALSE, !.hid_ready = FALSE, !.input_subscribed = FALSE,
                            !.terminate_sent = FALSE, !.terminate_failed = FALSE,
                            !.state = state]
  <1>1. /\ s \in Cores /\ NoHost \in Labels /\ state \in States /\ state # "PAUSED"
        /\ (state = "ERROR" <=> s.state = "ERROR")
    BY DEF Sound, Cores, Labels, States
  <1>2. Disconnect(s, generation) = IF ~Current(s, generation) THEN s ELSE t
    BY DEF Disconnect
  <1> HIDE DEF state
  <1>3. t \in Cores
    <2> DEFINE part == [s EXCEPT !.handle = FALSE, !.connected_id = NoHost, !.state = state]
    <2>1. part \in Cores
      BY <1>1 DEF Cores
    <2>2. t = [part EXCEPT !.encrypted = FALSE, !.bonded = FALSE, !.hid_ready = FALSE,
                           !.input_subscribed = FALSE, !.terminate_sent = FALSE,
                           !.terminate_failed = FALSE]
      BY <1>1 DEF Cores
    <2> HIDE DEF part, t
    <2>3. QED
      BY <2>1, <2>2 DEF Cores
  <1>4. /\ ~t.handle /\ ~t.hid_ready /\ ~t.input_subscribed /\ ~t.terminate_sent
        /\ t.state = state /\ t.advertising = s.advertising
        /\ t.requested_mode = s.requested_mode /\ t.applied_mode = s.applied_mode
        /\ t.target_id = s.target_id /\ t.accept = s.accept /\ t.filter_ready = s.filter_ready
        /\ t.persisted = s.persisted /\ t.blob = s.blob /\ t.flash = s.flash
        /\ t.candidate = s.candidate
        /\ t.candidate_store_started = s.candidate_store_started
        /\ t.enrollment_existing = s.enrollment_existing
        /\ t.connection_generation = s.connection_generation
    BY <1>1 DEF Cores
  <1> HIDE DEF t
  <1>5. LinkCoherent(t) /\ ProofCoherent(t, store) /\ WindowCoherent(t, store)
    BY <1>1, <1>4 DEF Sound, CoreCoherent, LinkCoherent, ProofCoherent, WindowCoherent
  <1>6. IntentCoherent(t) /\ AdvertiseCoherent(t)
    BY <1>1, <1>4 DEF Sound, CoreCoherent, IntentCoherent, AdvertiseCoherent, AdvertisingAllowed
  <1>7. QED
    BY <1>2, <1>3, <1>4, <1>5, <1>6 DEF Sound, CoreCoherent, Current

-------------------------------------------------------------------------------
(* The bond store *)

(* A store that only grows, and in an open window grows for the candidate, *)
(* keeps the core coherent.                                                *)
LEMMA GrowingStore ==
    ASSUME NEW s, NEW store, NEW more, Sound(s, store),
           \A h \in Hosts : store[h] \subseteq more[h],
           s.requested_mode = "ENROLL" /\ (s.state # "ERROR" \/ s.applied_mode # "PAUSED") =>
              \A h \in Known(more) \ Known(store) : s.candidate_store_started /\ h = s.candidate
    PROVE  Sound(s, more)
  <1>1. \A h : Complete(store, h) => Complete(more, h)
    BY DEF Complete
  <1>2. ProofCoherent(s, more) /\ WindowCoherent(s, more)
    BY <1>1 DEF Sound, CoreCoherent, ProofCoherent, WindowCoherent
  <1>3. QED
    BY <1>2 DEF Sound, CoreCoherent

(* hp_store_allowed: a record that is new to the store belongs, in an open *)
(* window, to the candidate it latches.                                    *)
LEMMA StoreStartedSound ==
    ASSUME NEW s, NEW store, Sound(s, store), NEW h \in Hosts, NEW security, NEW exists,
           NEW same, StoreAllowed(s, h, security, exists, same)
    PROVE  LET t == StoreStarted(s, h, security, exists)
           IN  /\ Sound(t, store)
               /\ t.connection_generation = s.connection_generation
               /\ t.connected_address = s.connected_address /\ t.handle = s.handle
               /\ ~(exists /\ security) /\ t.requested_mode = "ENROLL" =>
                     t.candidate_store_started /\ h = t.candidate
  <1> DEFINE t == [s EXCEPT !.candidate = h, !.candidate_store_started = TRUE]
  <1>1. s \in Cores /\ h \in Labels /\ h # NoHost
    BY HostAssumption DEF Sound, Labels
  <1>2. t \in Cores
    BY <1>1 DEF Cores
  <1>3. CASE exists /\ security
    BY <1>3 DEF StoreStarted
  <1>4. CASE s.applied_mode = "AUTO"
    BY <1>4 DEF StoreStarted, Sound, CoreCoherent, IntentCoherent
  <1>5. CASE ~(exists /\ security) /\ s.applied_mode # "AUTO"
    <2>1. EnrollsRecord(s, h)
      BY <1>5 DEF StoreAllowed
    <2>2. WindowCoherent(t, store)
      BY <1>1, <2>1 DEF EnrollsRecord, Sound, CoreCoherent, WindowCoherent, Cores
    <2>3. LinkCoherent(t) /\ IntentCoherent(t) /\ ProofCoherent(t, store) /\ AdvertiseCoherent(t)
      BY <1>1 DEF Sound, CoreCoherent, LinkCoherent, IntentCoherent, ProofCoherent,
                  AdvertiseCoherent, AdvertisingAllowed, Cores
    <2>4. /\ t.candidate_store_started /\ t.candidate = h /\ t.handle = s.handle
          /\ t.connection_generation = s.connection_generation
          /\ t.connected_address = s.connected_address
      BY <1>1 DEF Cores
    <2>5. QED
      BY <1>2, <1>5, <2>2, <2>3, <2>4 DEF StoreStarted, Sound, CoreCoherent
  <1>6. QED
    BY <1>3, <1>4, <1>5

LEMMA SetAliasSound ==
    ASSUME NEW s, NEW store, Sound(s, store), NEW h, NEW operation \in Nat, NEW io
    PROVE  LET t == SetAlias(s, h, operation, store, io)
           IN  Sound(t, store) /\ SameLink(s, t, io)
  <1> DEFINE begun == [s EXCEPT !.operation_id = operation]
             result == CommitResult(io)
             written == Commit(begun, s.blob.mode, s.blob.selected, result)
             t == SetAlias(s, h, operation, store, io)
  <1>1. s \in Cores /\ s.blob.mode \in {"PAUSED", "AUTO"} /\ s.blob.selected \in Labels
    BY DEF Sound, Cores, Blobs
  <1>2. begun \in Cores
    BY <1>1 DEF Cores
  <1>3. CoreCoherent(begun, store) /\ SameLink(s, begun, io)
    BY <1>1 DEF Sound, CoreCoherent, LinkCoherent, IntentCoherent, ProofCoherent,
                AdvertiseCoherent, WindowCoherent, AdvertisingAllowed, SameLink, Cores
  <1>4. Sound(begun, store) /\ Failable(begun)
    BY <1>2, <1>3, SoundFails DEF Sound
  <1>5. begun.blob = s.blob
    BY <1>1 DEF Cores
  <1>6. t \in {Fail(begun, io), Fail(written, io)} \/ (result = "ok" /\ t = Refresh(written, store))
    BY DEF SetAlias
  <1> HIDE DEF begun
  <1>7. Failable(written) /\ SameLink(s, written, io) /\ written \in Cores
    BY <1>1, <1>2, <1>3, <1>4, CommitFails, CommitType DEF SameLink
  <1>8. result = "ok" => Sound(written, store)
    <2> DEFINE next == [valid |-> TRUE, mode |-> s.blob.mode, selected |-> s.blob.selected]
    <2>1. result = "ok" => written = [begun EXCEPT !.blob = next, !.flash = next, !.persisted = TRUE]
      BY DEF Commit
    <2>2. next.mode = begun.blob.mode /\ next.selected = begun.blob.selected
      BY <1>5
    <2> HIDE DEF next, written
    <2>3. result = "ok" => LinkCoherent(written) /\ ProofCoherent(written, store)
      BY <1>2, <1>4, <2>1 DEF Sound, CoreCoherent, LinkCoherent, ProofCoherent, Cores
    <2>4. result = "ok" => AdvertiseCoherent(written)
      BY <1>2, <1>4, <2>1 DEF Sound, CoreCoherent, AdvertiseCoherent, AdvertisingAllowed, Cores
    <2>5. result = "ok" => WindowCoherent(written, store)
      BY <1>2, <1>4, <2>1 DEF Sound, CoreCoherent, WindowCoherent, Cores
    <2>6. result = "ok" =>
             /\ written.blob = next /\ written.flash = next
             /\ written.state = begun.state /\ written.applied_mode = begun.applied_mode
             /\ written.requested_mode = begun.requested_mode
             /\ written.target_id = begun.target_id
      BY <1>2, <2>1 DEF Cores
    <2>7. result = "ok" => IntentCoherent(written)
      BY <1>4, <2>2, <2>6 DEF Sound, CoreCoherent, IntentCoherent
    <2>8. QED
      BY <1>7, <2>3, <2>4, <2>5, <2>7 DEF Sound, CoreCoherent
  <1> HIDE DEF written
  <1>9. result = "ok" => Sound(Refresh(written, store), store) /\ SameLink(s, Refresh(written, store), io)
    BY <1>7, <1>8, RefreshSound DEF Refresh, SameLink, Cores
  <1>10. /\ Sound(Fail(begun, io), store) /\ SameLink(s, Fail(begun, io), io)
         /\ Sound(Fail(written, io), store) /\ SameLink(s, Fail(written, io), io)
    BY <1>3, <1>4, <1>7, LateFail
  <1>11. QED
    BY <1>6, <1>9, <1>10

-------------------------------------------------------------------------------
(* Power cycles *)

LEMMA InitCoreSound ==
    ASSUME NEW flash \in Blobs, NEW loaded \in BOOLEAN, NEW store
    PROVE  LET t == InitCore(flash, loaded)
           IN  Sound(t, store) /\ ~t.handle /\ t.connection_generation = 0
  <1> DEFINE blob == IF loaded THEN flash ELSE EmptyBlob
             t == InitCore(flash, loaded)
  <1>1. EmptyBlob \in Blobs /\ EmptyBlob.valid = FALSE /\ EmptyBlob.mode = "PAUSED"
    BY DEF EmptyBlob, Blobs, Labels
  <1>2. blob \in Blobs /\ (loaded => blob = flash) /\ (~loaded => blob.valid = FALSE)
    BY <1>1
  <1>3. blob.mode \in {"PAUSED", "AUTO"} /\ blob.selected \in Labels /\ blob.valid \in BOOLEAN
    BY <1>2 DEF Blobs
  <1> DEFINE state == IF ~loaded THEN "ERROR" ELSE IF blob.mode = "AUTO" THEN "SWITCHING" ELSE "PAUSED"
  <1>4. /\ state \in States /\ blob.mode \in Modes /\ "PAUSED" \in Modes
        /\ NoHost \in Labels /\ Rpa \in Addresses
        /\ (state # "ERROR" => loaded) /\ (state = "PAUSED" => blob.mode = "PAUSED")
    BY <1>3 DEF States, Modes, Labels, Addresses
  <1>5. t = [requested_mode |-> blob.mode, applied_mode |-> "PAUSED", state |-> state,
             target_id |-> blob.selected, connected_id |-> NoHost,
             operation_id |-> 0, connection_generation |-> 0,
             filter_ready |-> FALSE, encrypted |-> FALSE, bonded |-> FALSE,
             hid_ready |-> FALSE, persisted |-> blob.valid, blob |-> blob,
             connected_address |-> Rpa, candidate |-> NoHost,
             candidate_store_started |-> FALSE, terminate_sent |-> FALSE,
             terminate_failed |-> FALSE, enrollment_rejected |-> FALSE,
             handle |-> FALSE, input_subscribed |-> FALSE, deadline |-> FALSE,
             peers |-> {}, enrollment_existing |-> {},
             flash |-> flash, accept |-> NoHost, advertising |-> FALSE]
    BY DEF InitCore
  <1> HIDE DEF blob, state, t
  <1>6. t \in Cores
    BY <1>2, <1>3, <1>4, <1>5 DEF Cores
  <1>7. /\ t.requested_mode = blob.mode /\ t.applied_mode = "PAUSED" /\ t.state = state
        /\ t.target_id = blob.selected /\ t.persisted = blob.valid /\ t.blob = blob
        /\ t.flash = flash /\ ~t.handle /\ ~t.terminate_sent /\ ~t.hid_ready
        /\ ~t.candidate_store_started /\ ~t.advertising /\ t.connection_generation = 0
    BY <1>5
  <1>8. LinkCoherent(t) /\ ProofCoherent(t, store) /\ AdvertiseCoherent(t)
    BY <1>7 DEF LinkCoherent, ProofCoherent, AdvertiseCoherent
  <1>9. IntentCoherent(t) /\ WindowCoherent(t, store)
    BY <1>2, <1>3, <1>4, <1>7 DEF IntentCoherent, WindowCoherent
  <1>10. QED
    BY <1>6, <1>7, <1>8, <1>9 DEF Sound, CoreCoherent, t

LEMMA SyncSound ==
    ASSUME NEW s, NEW store, Sound(s, store), ~s.handle, NEW io
    PROVE  LET t == Sync(s, store, io)
           IN  /\ Sound(t, store) /\ ~t.handle
               /\ t.connection_generation = s.connection_generation
  <1> DEFINE idle == [s EXCEPT !.filter_ready = FALSE, !.hid_ready = FALSE, !.advertising = FALSE]
             read == Refresh(idle, store)
             begun == [read EXCEPT !.applied_mode = "PAUSED", !.state = "SWITCHING"]
             t == Sync(s, store, io)
  <1>1. s \in Cores /\ idle \in Cores /\ Known(store) \subseteq Hosts
    BY DEF Sound, Cores, Known
  <1>2. Failable(idle) /\ SameLink(s, idle, io) /\ ~idle.handle
    BY <1>1 DEF Failable, SameLink, Sound, CoreCoherent, LinkCoherent, WindowCoherent, Cores
  <1>3. s.state = "ERROR" => CoreCoherent(idle, store)
    BY <1>1 DEF Sound, CoreCoherent, LinkCoherent, IntentCoherent, ProofCoherent,
                AdvertiseCoherent, WindowCoherent, AdvertisingAllowed, Cores
  <1>4. read.handle = s.handle /\ read.connection_generation = s.connection_generation
    BY <1>1 DEF Refresh, Cores
  <1>5. t = Fail(idle, io) \/ (s.state = "ERROR" /\ t = read) \/ (s.state # "ERROR" /\ t = begun)
    BY DEF Sync
  <1>6. begun \in Cores
    <2>1. read \in Cores
      BY <1>1, RefreshType
    <2> HIDE DEF read
    <2>2. QED
      BY <2>1 DEF Cores, Modes, States
  <1>7. /\ begun.applied_mode = "PAUSED" /\ begun.state = "SWITCHING"
        /\ ~begun.filter_ready /\ ~begun.hid_ready /\ ~begun.advertising
        /\ begun.handle = s.handle /\ begun.terminate_sent = s.terminate_sent
        /\ begun.requested_mode = s.requested_mode /\ begun.target_id = s.target_id
        /\ begun.persisted = s.persisted /\ begun.blob = s.blob /\ begun.flash = s.flash
        /\ begun.candidate = s.candidate
        /\ begun.candidate_store_started = s.candidate_store_started
        /\ begun.enrollment_existing = s.enrollment_existing
        /\ begun.connection_generation = s.connection_generation
    BY <1>1 DEF Refresh, Cores
  <1> HIDE DEF begun
  <1>8. s.state # "ERROR" => Sound(begun, store)
    <2>1. LinkCoherent(begun) /\ ProofCoherent(begun, store) /\ AdvertiseCoherent(begun)
      BY <1>1, <1>7 DEF Sound, CoreCoherent, LinkCoherent, ProofCoherent, AdvertiseCoherent
    <2>2. s.state # "ERROR" => IntentCoherent(begun) /\ WindowCoherent(begun, store)
      BY <1>1, <1>7 DEF Sound, CoreCoherent, IntentCoherent, WindowCoherent
    <2>3. QED
      BY <1>6, <2>1, <2>2 DEF Sound, CoreCoherent
  <1> HIDE DEF idle
  <1>9. s.state = "ERROR" => Sound(read, store)
    BY <1>1, <1>3, RefreshSound DEF Sound
  <1>10. /\ Sound(Fail(idle, io), store)
         /\ Fail(idle, io).connection_generation = s.connection_generation
    BY <1>2, LateFail DEF SameLink
  <1>11. ~Fail(idle, io).handle
    <2> DEFINE closed == [idle EXCEPT !.filter_ready = FALSE, !.hid_ready = FALSE,
                                      !.input_subscribed = FALSE, !.applied_mode = "PAUSED",
                                      !.state = "ERROR", !.deadline = FALSE]
               stopped == StopAdvertising(Commit(closed, "PAUSED", idle.blob.selected, io.pause), io)
    <2>1. ~stopped.handle
      BY <1>1, <1>2 DEF StopAdvertising, Commit, Cores
    <2> HIDE DEF stopped
    <2>2. TerminateOnce(stopped, io.term) = stopped
      BY <2>1 DEF TerminateOnce
    <2>3. Fail(idle, io) = TerminateOnce(stopped, io.term)
      BY DEF Fail, stopped
    <2>4. QED
      BY <2>1, <2>2, <2>3
  <1>12. QED
    BY <1>4, <1>5, <1>7, <1>8, <1>9, <1>10, <1>11

-------------------------------------------------------------------------------
(* One run of the service *)

LEMMA StopSound ==
    ASSUME NEW s, NEW store, Sound(s, store), NEW io
    PROVE  Sound(StopAdvertising(s, io), store) /\ SameLink(s, StopAdvertising(s, io), io)
  <1> DEFINE on == s.advertising /\ io.fails = "stop"
             t == [s EXCEPT !.advertising = on]
  <1>1. s \in Cores /\ on \in BOOLEAN /\ (on => s.advertising)
    BY DEF Sound, Cores
  <1>2. StopAdvertising(s, io) = t
    BY DEF StopAdvertising
  <1> HIDE DEF on
  <1>3. t \in Cores
    BY <1>1 DEF Cores
  <1>4. CoreCoherent(t, store) /\ SameLink(s, t, io)
    BY <1>1 DEF Sound, CoreCoherent, LinkCoherent, IntentCoherent, ProofCoherent,
                AdvertiseCoherent, WindowCoherent, AdvertisingAllowed, SameLink, Cores
  <1>5. QED
    BY <1>2, <1>3, <1>4 DEF Sound

(* The requests a run serves: advertising only begins where it is allowed. *)
LEMMA ServeSound ==
    ASSUME NEW s, NEW store, Sound(s, store), NEW transitioning, NEW served, NEW io
    PROVE  LET t == ServeRequests(s, transitioning, served, io)
           IN  Sound(t, store) /\ SameLink(s, t, io)
  <1> DEFINE begun == s.advertising \/ (AdvertisingAllowed(s) /\ served # "failed")
             on == [s EXCEPT !.advertising = begun]
             t == ServeRequests(s, transitioning, served, io)
  <1>1. s \in Cores /\ begun \in BOOLEAN /\ (begun => s.advertising \/ AdvertisingAllowed(s))
    BY DEF Sound, Cores
  <1>2. t \in {s, on, Fail(s, io), StopAdvertising(on, io), Fail(StopAdvertising(on, io), io)}
    BY DEF ServeRequests, ServeAdvertising
  <1> HIDE DEF begun
  <1>3. on \in Cores
    BY <1>1 DEF Cores
  <1>4. CoreCoherent(on, store) /\ SameLink(s, on, io)
    BY <1>1 DEF Sound, CoreCoherent, LinkCoherent, IntentCoherent, ProofCoherent,
                AdvertiseCoherent, WindowCoherent, AdvertisingAllowed, SameLink, Cores
  <1> HIDE DEF on
  <1>5. Sound(on, store)
    BY <1>3, <1>4 DEF Sound
  <1>6. Sound(StopAdvertising(on, io), store) /\ SameLink(s, StopAdvertising(on, io), io)
    BY <1>4, <1>5, StopSound DEF SameLink
  <1>7. /\ Sound(Fail(StopAdvertising(on, io), io), store)
        /\ SameLink(s, Fail(StopAdvertising(on, io), io), io)
    BY <1>6, SoundFails, LateFail
  <1>8. Sound(Fail(s, io), store) /\ SameLink(s, Fail(s, io), io) /\ SameLink(s, s, io)
    BY SoundFails, FailSound DEF SameLink
  <1>9. QED
    BY <1>2, <1>4, <1>5, <1>6, <1>7, <1>8

(* A request that came too late for the fault only labels the error. *)
LEMMA FaultedRequestSound ==
    ASSUME NEW s, NEW store, Sound(s, store), NEW io, NEW mode \in Modes, NEW operation \in Nat
    PROVE  LET t == [Fail(s, io) EXCEPT !.operation_id = operation, !.requested_mode = mode]
           IN  Sound(t, store) /\ SameLink(s, t, io)
  <1> DEFINE failed == Fail(s, io)
             t == [failed EXCEPT !.operation_id = operation, !.requested_mode = mode]
  <1>1. Sound(failed, store) /\ SameLink(s, failed, io)
    BY SoundFails, FailSound
  <1>2. failed.state = "ERROR" /\ failed.applied_mode = "PAUSED"
    <2> DEFINE closed == [s EXCEPT !.filter_ready = FALSE, !.hid_ready = FALSE,
                                   !.input_subscribed = FALSE, !.applied_mode = "PAUSED",
                                   !.state = "ERROR", !.deadline = FALSE]
               stopped == StopAdvertising(Commit(closed, "PAUSED", s.blob.selected, io.pause), io)
    <2>1. closed \in Cores /\ s.blob.selected \in Labels
      BY DEF Sound, Cores, Modes, States, Blobs
    <2>2. stopped \in Cores
      BY <2>1, CommitType, StopType
    <2>3. stopped.state = "ERROR" /\ stopped.applied_mode = "PAUSED"
      BY <2>1 DEF StopAdvertising, Commit, Sound, Cores
    <2>4. failed = TerminateOnce(stopped, io.term)
      BY DEF Fail
    <2> HIDE DEF stopped
    <2>5. QED
      BY <2>2, <2>3, <2>4 DEF TerminateOnce, Cores
  <1> HIDE DEF failed
  <1>3. t \in Cores
    BY <1>1 DEF Sound, Cores
  <1>4. CoreCoherent(t, store)
    BY <1>1, <1>2 DEF Sound, CoreCoherent, LinkCoherent, IntentCoherent, ProofCoherent,
                AdvertiseCoherent, WindowCoherent, AdvertisingAllowed, Cores
  <1>5. SameLink(s, t, io)
    BY <1>1 DEF SameLink, Sound, Cores
  <1>6. QED
    BY <1>3, <1>4, <1>5 DEF Sound, failed

-------------------------------------------------------------------------------
(* The inductive invariant *)

LEMMA InitInvariant == Init => IInv
  <1> SUFFICES ASSUME Init PROVE IInv
    OBVIOUS
  <1>1. EmptyBlob \in Blobs
    BY DEF EmptyBlob, Blobs, Labels
  <1>2. Sound(core, bonds)
    BY <1>1, InitCoreSound DEF Init
  <1>3. bonds \in Stores /\ link \in Links /\ lost \in SUBSET Nat
    BY DEF Init, Stores, Links, NoLink, Labels
  <1>4. RadioCoherent
    BY DEF Init, RadioCoherent
  <1>5. QED
    BY <1>2, <1>3, <1>4 DEF IInv, TypeOK, Sound

(* A step of the core alone: the radio stays, and the core may only drop a *)
(* link that is gone.                                                      *)
LEMMA CoreStep ==
    ASSUME IInv, UNCHANGED <<bonds, link, lost>>, Sound(core', bonds),
           core'.connection_generation = core.connection_generation,
           link # NoLink => /\ core'.handle
                            /\ core'.connected_address \in {core.connected_address, link.host, Rpa}
    PROVE  IInv'
  <1>1. TypeOK' /\ CoreCoherent(core', bonds')
    BY DEF IInv, TypeOK, Sound
  <1>2. RadioCoherent'
    BY DEF IInv, RadioCoherent
  <1>3. QED
    BY <1>1, <1>2 DEF IInv

(* Operations that keep or terminate the link. *)
LEMMA LinkedStep ==
    ASSUME IInv, UNCHANGED <<bonds, link, lost>>, NEW calls, NEW io \in Answers(calls),
           Sound(core', bonds), SameLink(core, core', io)
    PROVE  IInv'
  <1>1. link # NoLink => io.term # "absent" /\ core.handle
    BY DEF Answers, IInv, RadioCoherent
  <1>2. QED
    BY <1>1, CoreStep DEF SameLink

LEMMA StoreStep ==
    ASSUME IInv, link # NoLink, UNCHANGED <<link, lost>>,
           NEW security, NEW exists \in BOOLEAN, NEW same,
           StoreAllowed(core, link.host, security, exists, same),
           core' = StoreStarted(core, link.host, security, exists),
           NEW records \in SUBSET Records,
           bonds' = IF exists /\ security THEN bonds
                    ELSE [bonds EXCEPT ![link.host] = @ \cup records]
    PROVE  IInv'
  <1>1. /\ link.host \in Hosts /\ core \in Cores /\ bonds \in Stores
        /\ Sound(core, bonds)
    BY DEF IInv, TypeOK, RadioCoherent, Sound
  <1>2. /\ Sound(core', bonds)
        /\ core'.connection_generation = core.connection_generation
        /\ core'.connected_address = core.connected_address /\ core'.handle = core.handle
        /\ ~(exists /\ security) /\ core'.requested_mode = "ENROLL" =>
              core'.candidate_store_started /\ link.host = core'.candidate
    BY <1>1, StoreStartedSound
  <1>3. bonds' \in Stores /\ \A h \in Hosts : bonds[h] \subseteq bonds'[h]
    BY <1>1 DEF Stores
  <1>4. Known(bonds') \ Known(bonds) \subseteq {link.host}
    BY <1>1 DEF Known, Stores
  <1>5. exists /\ security => Known(bonds') = Known(bonds)
    OBVIOUS
  <1>6. Sound(core', bonds')
    BY <1>2, <1>3, <1>4, <1>5, GrowingStore
  <1>7. RadioCoherent'
    BY <1>2 DEF IInv, RadioCoherent
  <1>8. QED
    BY <1>3, <1>6, <1>7 DEF IInv, TypeOK, Sound

(* An identity report of the live link keeps it and names its host. *)
LEMMA IdentifiedLink ==
    ASSUME IInv, link # NoLink, NEW address \in {link.host, Rpa}, NEW calls,
           NEW io \in Answers(calls)
    PROVE  LET t == Identity(core, link.generation, address, io)
           IN  /\ Sound(t, bonds)
               /\ t.connection_generation = core.connection_generation
               /\ t.connected_address \in {core.connected_address, link.host, Rpa}
               /\ t.handle /\ io.term # "absent"
  <1>1. Sound(core, bonds) /\ address \in Addresses
    BY DEF IInv, TypeOK, Sound, RadioCoherent, Addresses
  <1>2. core.hid_ready /\ address \in Hosts => address = core.connected_address
    BY HostAssumption DEF IInv, RadioCoherent, CoreCoherent, ProofCoherent, Complete
  <1>3. core.handle /\ io.term # "absent"
    BY DEF Answers, IInv, RadioCoherent
  <1>4. QED
    BY <1>1, <1>2, <1>3, IdentitySound

LEMMA StepInvariant == IInv /\ [Next]_vars => IInv'
  <1> SUFFICES ASSUME IInv, [Next]_vars PROVE IInv'
    OBVIOUS
  <1>1. Sound(core, bonds) /\ core.operation_id + 1 \in Nat
    BY DEF IInv, TypeOK, Sound, Cores
  <1>2. ASSUME NEW intent \in Intents, NEW io \in Answers(Fails), RequestStep(intent, io)
        PROVE  IInv'
    <2> DEFINE asked == Request(core, intent[1], intent[2], core.operation_id + 1, bonds, io)
    <2>1. intent[1] \in Modes /\ intent[2] \in Labels
      BY DEF Intents, Modes, Labels
    <2>2. Sound(asked, bonds) /\ SameLink(core, asked, io)
      BY <1>1, <2>1, RequestSound
    <2>3. core' = Tick(asked, FALSE, bonds, io) /\ UNCHANGED <<bonds, link, lost>>
      BY <1>2 DEF RequestStep
    <2> HIDE DEF asked
    <2>4. Sound(core', bonds) /\ SameLink(core, core', io)
      <3>1. Sound(Tick(asked, FALSE, bonds, io), bonds) /\ SameLink(asked, Tick(asked, FALSE, bonds, io), io)
        BY <2>2, TickSound
      <3>2. QED
        BY <2>2, <2>3, <3>1 DEF SameLink
    <2>5. QED
      BY <2>3, <2>4, LinkedStep
  <1>3. ASSUME NEW h \in Hosts, NEW io \in Answers(TickCalls), AliasStep(h, io)
        PROVE  IInv'
    <2> DEFINE named == SetAlias(core, h, core.operation_id + 1, bonds, io)
    <2>1. Sound(named, bonds) /\ SameLink(core, named, io)
      BY <1>1, SetAliasSound
    <2>2. core' = Tick(named, FALSE, bonds, io) /\ UNCHANGED <<bonds, link, lost>>
      BY <1>3 DEF AliasStep
    <2> HIDE DEF named
    <2>3. Sound(core', bonds) /\ SameLink(core, core', io)
      <3>1. Sound(Tick(named, FALSE, bonds, io), bonds) /\ SameLink(named, Tick(named, FALSE, bonds, io), io)
        BY <2>1, TickSound
      <3>2. QED
        BY <2>1, <2>2, <3>1 DEF SameLink
    <2>4. QED
      BY <2>2, <2>3, LinkedStep
  <1>4. ASSUME NEW expired \in BOOLEAN, NEW served \in Served,
               NEW io \in Answers(ServedCalls(served)), TickStep(expired, served, io)
        PROVE  IInv'
    <2> DEFINE ticked == Tick(core, expired, bonds, io)
    <2>1. Sound(ticked, bonds) /\ SameLink(core, ticked, io)
      BY <1>1, TickSound
    <2>2. /\ core' = ServeRequests(ticked, core.state = "SWITCHING", served, io)
          /\ UNCHANGED <<bonds, link, lost>>
      BY <1>4 DEF TickStep
    <2> HIDE DEF ticked
    <2>3. Sound(core', bonds) /\ SameLink(core, core', io)
      <3>1. Sound(core', bonds) /\ SameLink(ticked, core', io)
        BY <2>1, <2>2, ServeSound
      <3>2. QED
        BY <2>1, <3>1 DEF SameLink
    <2>4. QED
      BY <2>2, <2>3, LinkedStep
  <1>5. ASSUME NEW io \in Answers({"stop"}), FaultStep(io)
        PROVE  IInv'
    BY <1>1, <1>5, FailSound, SoundFails, LinkedStep DEF FaultStep
  <1>6. ASSUME NEW mode \in Modes, NEW io \in Answers({"stop"}), FaultedRequestStep(mode, io)
        PROVE  IInv'
    BY <1>1, <1>6, FaultedRequestSound, LinkedStep DEF FaultedRequestStep
  <1>7. ASSUME NEW address \in Addresses, NEW io \in Answers({"stop"}), IdentityStep(address, io)
        PROVE  IInv'
    <2>1. /\ Sound(core', bonds)
          /\ core'.connection_generation = core.connection_generation
          /\ core'.connected_address \in {core.connected_address, link.host, Rpa}
          /\ core'.handle
      BY <1>7, IdentifiedLink DEF IdentityStep
    <2>2. QED
      BY <1>7, <2>1, CoreStep DEF IdentityStep
  <1>8. ASSUME NEW address \in Addresses, NEW security \in Securities,
               NEW io \in Answers({"stop"}), SecurityStep(address, security, io)
        PROVE  IInv'
    <2> DEFINE named == Identity(core, link.generation, address, io)
    <2>1. /\ Sound(named, bonds)
          /\ named.connection_generation = core.connection_generation
          /\ named.connected_address \in {core.connected_address, link.host, Rpa}
          /\ named.handle /\ io.term # "absent"
      BY <1>8, IdentifiedLink DEF SecurityStep
    <2>2. security.encrypted \in BOOLEAN /\ security.bonded \in BOOLEAN
      BY DEF Securities
    <2>3. /\ core' = Security(named, link.generation, security.encrypted, security.bonded,
                            security.error, io)
          /\ UNCHANGED <<bonds, link, lost>>
      BY <1>8 DEF SecurityStep
    <2> HIDE DEF named
    <2>4. Sound(core', bonds) /\ SameLink(named, core', io)
      BY <2>1, <2>2, <2>3, SecuritySound
    <2>5. QED
      BY <2>1, <2>3, <2>4, CoreStep DEF SameLink
  <1>9. ASSUME NEW io \in Answers({}), RepeatPairingStep(io)
         PROVE  IInv'
    BY <1>1, <1>9, RejectSound, LinkedStep DEF RepeatPairingStep
  <1>10. ASSUME NEW io \in Answers({"refresh", "stop"}), SyncStep(io)
        PROVE  IInv'
    BY <1>1, <1>10, SyncSound, CoreStep DEF SyncStep
  <1>11. ASSUME NEW loaded \in BOOLEAN, NEW io \in Answers({"refresh"}), BootStep(loaded, io)
        PROVE  IInv'
    <2>1. core.flash \in Blobs /\ bonds \in Stores
      BY DEF IInv, TypeOK, Cores
    <2>2. bonds' \in Stores
      BY <1>11, <2>1 DEF BootStep, Stores
    <2>3. Sound(core', bonds') /\ core'.connection_generation = 0
      BY <1>11, <2>1, InitCoreSound, SyncSound DEF BootStep
    <2>4. link' = NoLink /\ lost' = {} /\ NoLink \in Links
      BY <1>11 DEF BootStep, NoLink, Links, Labels
    <2>5. RadioCoherent'
      BY <2>4 DEF RadioCoherent
    <2>6. QED
      BY <2>2, <2>3, <2>4, <2>5 DEF IInv, TypeOK, Sound
  <1>12. ASSUME EarlyLossStep
         PROVE  IInv'
    <2>1. /\ Sound(core', bonds)
          /\ core'.connection_generation = core.connection_generation
      BY <1>1, <1>12, DisconnectSound DEF EarlyLossStep
    <2>2. NoLink \in Links
      BY DEF NoLink, Links, Labels
    <2>3. QED
      BY <1>12, <2>1, <2>2 DEF EarlyLossStep, IInv, TypeOK, RadioCoherent, Sound
  <1>13. ASSUME NEW h \in Hosts, NEW address \in {h, Rpa}, ConnectStep(h, address)
         PROVE  IInv'
    <2>1. address \in Addresses /\ core \in Cores /\ h \in Labels
      BY <1>1 DEF Addresses, Sound, Labels
    <2>2. /\ Sound(core', bonds')
          /\ core'.handle /\ ~core.handle =>
                /\ core'.connection_generation = core.connection_generation + 1
                /\ core'.connected_address = address
          /\ core'.handle = core.handle =>
                core'.connection_generation = core.connection_generation
          /\ core.handle => core'.handle
      BY <1>1, <1>13, <2>1, ConnectSound DEF ConnectStep
    <2>3. CASE core'.handle /\ ~core.handle
      <3>1. core.connection_generation + 1 \in Nat /\ core.connection_generation \in Nat
        BY <2>1 DEF Cores
      <3>2. link' = [host |-> h, generation |-> core.connection_generation + 1] /\ lost' = lost
        BY <1>13, <2>2, <2>3 DEF ConnectStep
      <3>3. link' \in Links
        BY <2>1, <3>1, <3>2 DEF Links
      <3>4. RadioCoherent'
        BY <2>2, <2>3, <3>1, <3>2 DEF IInv, RadioCoherent
      <3>5. QED
        BY <1>13, <2>2, <3>2, <3>3, <3>4 DEF ConnectStep, IInv, TypeOK, Sound
    <2>4. CASE ~(core'.handle /\ ~core.handle)
      <3>1. core' \in Cores /\ core'.handle = core.handle
        BY <2>1, <2>2, <2>4 DEF Sound, Cores
      <3>2. link' = NoLink /\ link = NoLink /\ lost' = lost /\ bonds' = bonds
        BY <1>13, <2>4 DEF ConnectStep
      <3>3. RadioCoherent'
        BY <2>2, <3>1, <3>2 DEF IInv, RadioCoherent
      <3>4. QED
        BY <2>2, <3>2, <3>3 DEF IInv, TypeOK, Sound
    <2>5. QED
      BY <2>3, <2>4
  <1>14. ASSUME NEW enabled \in BOOLEAN, SubscribeStep(enabled)
         PROVE  IInv'
    <2>1. PICK io \in Answers({}) : TRUE
      <3> DEFINE io == [fails |-> "none", pause |-> "ok", term |-> "sent"]
      <3>1. io \in Answers({})
        BY <1>14 DEF SubscribeStep, Answers, Outcomes, Fails, Writes, Terminations
      <3>2. QED
        BY <3>1
    <2>2. Sound(core', bonds) /\ SameLink(core, core', io)
      BY <1>1, <1>14, SubscribeSound DEF SubscribeStep
    <2>3. QED
      BY <1>14, <2>2, LinkedStep DEF SubscribeStep
  <1>15. ASSUME NEW durable \in BOOLEAN, StoreKeyStep(durable)
         PROVE  IInv'
    <2> DEFINE records == IF durable THEN {"our_sec", "durable"} ELSE {"our_sec"}
               exists == "our_sec" \in bonds[link.host]
    <2>1. records \in SUBSET Records /\ exists \in BOOLEAN
      BY DEF Records
    <2>2. QED
      BY <1>15, <2>1, StoreStep DEF StoreKeyStep
  <1>16. ASSUME StoreCccdStep
         PROVE  IInv'
    <2> DEFINE records == IF bonds[link.host] = {} THEN {"cccd", "durable"} ELSE {"cccd"}
    <2>1. records \in SUBSET Records
      BY DEF Records
    <2>2. bonds' = [bonds EXCEPT ![link.host] = @ \cup records]
      BY <1>16 DEF StoreCccdStep
    <2> HIDE DEF records
    <2>3. QED
      BY <1>16, <2>1, <2>2, StoreStep DEF StoreCccdStep
  <1>17. ASSUME LinkLost
         PROVE  IInv'
    <2>1. link.generation \in Nat /\ link.generation \in 1..core.connection_generation
      BY <1>1, <1>17 DEF LinkLost, IInv, TypeOK, Links, RadioCoherent, Sound, Cores
    <2>2. NoLink \in Links
      BY DEF NoLink, Links, Labels
    <2>3. QED
      BY <1>17, <2>1, <2>2 DEF LinkLost, IInv, TypeOK, RadioCoherent
  <1>18. ASSUME NEW generation \in lost, DisconnectStep(generation)
         PROVE  IInv'
    <2>1. /\ Sound(core', bonds)
          /\ core'.connection_generation = core.connection_generation
          /\ generation # core.connection_generation => core' = core
      BY <1>1, <1>18, DisconnectSound DEF DisconnectStep
    <2>2. link # NoLink => generation # core.connection_generation
      BY <1>18 DEF IInv, RadioCoherent
    <2>3. RadioCoherent'
      BY <1>18, <2>1, <2>2 DEF DisconnectStep, IInv, RadioCoherent
    <2>4. QED
      BY <1>18, <2>1, <2>3 DEF DisconnectStep, IInv, TypeOK, Sound
  <1>19. ASSUME UNCHANGED vars
         PROVE  IInv'
    BY <1>19 DEF vars, IInv, TypeOK, RadioCoherent
  <1>20. QED
    BY <1>2, <1>3, <1>4, <1>5, <1>7, <1>8, <1>10, <1>11, <1>12, <1>13, <1>14, <1>15, <1>16,
       <1>17, <1>18, <1>19, <1>6, <1>9 DEF Next

-------------------------------------------------------------------------------
(* Theorems *)

(* The inductive invariant holds in every reachable state. *)
THEOREM Invariance == Spec => []IInv
  <1>1. QED
    BY InitInvariant, StepInvariant, PTL DEF Spec

(* The core, the bond store and the radio side always have their types:    *)
(* no label outside the known hosts and the zero label ever reaches the    *)
(* target, candidate or connected identity of HostPolicyCore.c.            *)
THEOREM TypeCorrect == Spec => []TypeOK
  <1>1. IInv => TypeOK
    BY DEF IInv
  <1>2. QED
    BY <1>1, Invariance, PTL

(* hp_input_allowed authorizes a report only towards the durable selection *)
(* whose stored bond is complete, and only over that host's own link.      *)
THEOREM InputSafe == Spec => []InputOnlyToSelected
  <1>1. IInv => InputOnlyToSelected
    <2> SUFFICES ASSUME IInv, InputAllowed(core) PROVE InputOnlyToSelected
      BY DEF InputOnlyToSelected
    <2>1. /\ core.handle /\ core.applied_mode = "AUTO" /\ core.hid_ready
          /\ core.connected_id = core.target_id
      BY DEF InputAllowed
    <2>2. core.blob \in Blobs /\ core.flash = core.blob /\ core.target_id = core.blob.selected
          /\ core.blob.mode = "AUTO" /\ core.target_id \in Hosts
      BY <2>1 DEF IInv, TypeOK, Cores, CoreCoherent, IntentCoherent
    <2>3. core.connected_address = core.target_id
      BY <2>1, <2>2, HostAssumption DEF IInv, CoreCoherent, ProofCoherent
    <2>4. Complete(bonds, core.target_id) /\ core.input_subscribed
      BY <2>1, <2>3 DEF IInv, CoreCoherent, ProofCoherent
    <2>5. link # NoLink => link.host = core.target_id
      BY <2>2, <2>3, HostAssumption DEF IInv, RadioCoherent
    <2>6. QED
      BY <2>2, <2>4, <2>5 DEF InputOnlyToSelected
  <1>2. QED
    BY <1>1, Invariance, PTL

(* No pause, switch, enrollment timeout, rejection or fault leaves a link  *)
(* behind that terminate_once has not been told to end.                    *)
THEOREM UnadmittedTerminating == Spec => []UnadmittedLinkIsTerminating
  <1>1. IInv => UnadmittedLinkIsTerminating
    BY DEF IInv, CoreCoherent, LinkCoherent, UnadmittedLinkIsTerminating, InputAllowed
  <1>2. QED
    BY <1>1, Invariance, PTL

(* The generation check of the link callbacks is enough: events that come  *)
(* late or out of order never make the core forget the live link.          *)
THEOREM LinkTracked == Spec => []LiveLinkTracked
  <1>1. IInv => LiveLinkTracked
    BY DEF IInv, RadioCoherent, LiveLinkTracked
  <1>2. QED
    BY <1>1, Invariance, PTL

(* Outside the ERROR state the controller never advertises without         *)
(* admission or under another host's accept list.                          *)
THEOREM AdvertisingSafe == Spec => []AdvertisingFollowsAdmission
  <1>1. IInv => AdvertisingFollowsAdmission
    <2> SUFFICES ASSUME IInv, core.advertising, core.state # "ERROR"
                 PROVE  AdvertisingFollowsAdmission
      BY DEF AdvertisingFollowsAdmission
    <2>1. AdvertisingAllowed(core)
      BY DEF IInv, CoreCoherent, AdvertiseCoherent
    <2>2. core.applied_mode \in Modes /\ core.applied_mode # "PAUSED"
      BY <2>1 DEF AdvertisingAllowed, IInv, TypeOK, Cores
    <2>3. core.target_id = core.blob.selected
      BY DEF IInv, CoreCoherent, IntentCoherent
    <2>4. QED
      BY <2>1, <2>2, <2>3 DEF Modes, AdvertisingFollowsAdmission, IInv, CoreCoherent, AdvertiseCoherent
  <1>2. QED
    BY <1>1, Invariance, PTL

(* What a restart will find in flash agrees with the reported intent, with *)
(* torn and lost writes anywhere.                                          *)
THEOREM IntentDurable == Spec => []DurableIntent
  <1>1. IInv => DurableIntent
    <2> SUFFICES ASSUME IInv PROVE DurableIntent
      OBVIOUS
    <2>1. /\ core.blob.mode \in {"PAUSED", "AUTO"} /\ core.applied_mode \in Modes
          /\ core.state \in States
      BY DEF IInv, TypeOK, Cores, Blobs
    <2>2. IntentCoherent(core)
      BY DEF IInv, CoreCoherent
    <2>3. QED
      BY <2>1, <2>2 DEF DurableIntent, IntentCoherent
  <1>2. QED
    BY <1>1, Invariance, PTL

(* One enrollment window adds records for one host at most. *)
THEOREM NewcomerUnique == Spec => []OneNewcomer
  <1>1. IInv => OneNewcomer
    <2> SUFFICES ASSUME IInv, core.applied_mode = "ENROLL"
                 PROVE  Cardinality(Known(bonds) \ core.enrollment_existing) <= 1
      BY DEF OneNewcomer
    <2>1. core.requested_mode = "ENROLL"
      BY DEF IInv, CoreCoherent, IntentCoherent
    <2>2. Known(bonds) \ core.enrollment_existing \subseteq {core.candidate}
      BY <2>1 DEF IInv, CoreCoherent, WindowCoherent
    <2>3. IsFiniteSet({core.candidate}) /\ Cardinality({core.candidate}) = 1
      BY FS_Singleton
    <2>4. QED
      BY <2>2, <2>3, FS_Subset
  <1>2. QED
    BY <1>1, Invariance, PTL

-------------------------------------------------------------------------------
(* The action properties: who can win an enrollment window, and what ends   *)
(* an error.  Every operation but three only takes from the core (Kept);    *)
(* admission, promotion and the identity report are looked at one by one.   *)

(* A link the window still admits under a stable identity is a newcomer's.  *)
Outsider(s) ==
    s.applied_mode = "ENROLL" /\ s.handle /\ ~s.enrollment_rejected /\ s.connected_address \in Hosts
       => s.connected_address \notin s.enrollment_existing

(* What an operation leaves alone that can only close things.              *)
Kept(s, t) ==
    /\ t \in Cores
    /\ t.operation_id = s.operation_id
    /\ s.state = "ERROR" => t.state = "ERROR"
    /\ t.applied_mode \in {s.applied_mode, "PAUSED"}
    /\ t.target_id = s.target_id
    /\ t.enrollment_existing = s.enrollment_existing
    /\ t.handle => s.handle
    /\ t.connected_address = s.connected_address
    /\ s.enrollment_rejected => t.enrollment_rejected

(* Admission of the requested mode, which needs a released link.           *)
Applied(s, t) ==
    /\ t \in Cores
    /\ s.state # "ERROR" /\ ~t.handle
    /\ t.operation_id = s.operation_id
    /\ t.applied_mode = s.requested_mode

(* The promotion of the host an enrollment link was opened by.             *)
Chosen(s, t) ==
    /\ t \in Cores
    /\ s.state # "ERROR" /\ s.applied_mode = "ENROLL" /\ t.applied_mode = "AUTO"
    /\ t.operation_id = s.operation_id
    /\ s.handle /\ s.input_subscribed
    /\ s.connected_address \in Hosts /\ t.target_id = s.connected_address

-------------------------------------------------------------------------------
(* The calls every handler is built from                                   *)

LEMMA KeptAgain ==
    ASSUME NEW s, NEW t, NEW u, Kept(s, t), Kept(t, u)
    PROVE  Kept(s, u)
  BY DEF Kept

LEMMA KeptOutsider ==
    ASSUME NEW s, NEW t, Kept(s, t), Outsider(s)
    PROVE  Outsider(t)
  BY DEF Kept, Outsider

LEMMA CommitKept ==
    ASSUME NEW s \in Cores, NEW mode \in {"PAUSED", "AUTO"}, NEW selected \in Labels, NEW result
    PROVE  Kept(s, Commit(s, mode, selected, result))
  <1>1. Commit(s, mode, selected, result) \in Cores
    BY CommitType
  <1>2. QED
    BY <1>1 DEF Kept, Commit, Cores

LEMMA TerminateKept ==
    ASSUME NEW s \in Cores, NEW term
    PROVE  Kept(s, TerminateOnce(s, term))
  <1>1. TerminateOnce(s, term) \in Cores
    BY TerminateOnceType
  <1>2. QED
    BY <1>1 DEF Kept, TerminateOnce, Cores

LEMMA StopKept ==
    ASSUME NEW s \in Cores, NEW io
    PROVE  Kept(s, StopAdvertising(s, io))
  <1>1. StopAdvertising(s, io) \in Cores
    BY StopType
  <1>2. QED
    BY <1>1 DEF Kept, StopAdvertising, Cores

LEMMA RefreshKept ==
    ASSUME NEW s \in Cores, NEW store
    PROVE  Kept(s, Refresh(s, store))
  <1>1. Refresh(s, store) \in Cores
    BY RefreshType
  <1>2. QED
    BY <1>1 DEF Kept, Refresh, Cores

(* A link that loses what was proved of it. *)
LEMMA UnprovedKept ==
    ASSUME NEW s \in Cores
    PROVE  Kept(s, [s EXCEPT !.encrypted = FALSE, !.bonded = FALSE, !.hid_ready = FALSE,
                             !.input_subscribed = FALSE])
  <1> DEFINE t == [s EXCEPT !.encrypted = FALSE, !.bonded = FALSE, !.hid_ready = FALSE,
                            !.input_subscribed = FALSE]
  <1>1. t \in Cores
    BY DEF Cores
  <1>2. QED
    BY <1>1 DEF Kept, Cores

(* hp_fail keeps an error, and turns anything else into one.               *)
LEMMA FailKept ==
    ASSUME NEW s \in Cores, NEW io
    PROVE  Kept(s, Fail(s, io)) /\ Fail(s, io).applied_mode = "PAUSED"
  <1> DEFINE closed == [s EXCEPT !.filter_ready = FALSE, !.hid_ready = FALSE,
                                 !.input_subscribed = FALSE, !.applied_mode = "PAUSED",
                                 !.state = "ERROR", !.deadline = FALSE]
             written == Commit(closed, "PAUSED", s.blob.selected, io.pause)
             stopped == StopAdvertising(written, io)
  <1>1. closed \in Cores /\ s.blob.selected \in Labels
    BY DEF Cores, Modes, States, Blobs
  <1>2. Kept(s, closed) /\ closed.applied_mode = "PAUSED"
    BY <1>1 DEF Kept, Cores
  <1> HIDE DEF closed
  <1>3. Kept(closed, written)
    BY <1>1, CommitKept
  <1> HIDE DEF written
  <1>4. Kept(written, stopped)
    BY <1>3, StopKept DEF Kept
  <1> HIDE DEF stopped
  <1>5. Kept(stopped, TerminateOnce(stopped, io.term))
    BY <1>4, TerminateKept DEF Kept
  <1>6. Fail(s, io) = TerminateOnce(stopped, io.term)
    BY DEF Fail, stopped, written, closed
  <1>7. Kept(closed, Fail(s, io))
    BY <1>3, <1>4, <1>5, <1>6, KeptAgain
  <1>8. QED
    BY <1>2, <1>7, KeptAgain DEF Kept

LEMMA FailAfter ==
    ASSUME NEW s, NEW t, Kept(s, t), NEW io
    PROVE  Kept(s, Fail(t, io)) /\ Fail(t, io).applied_mode = "PAUSED"
  <1>1. t \in Cores
    BY DEF Kept
  <1>2. QED
    BY <1>1, FailKept, KeptAgain

LEMMA KeptItself ==
    ASSUME NEW s \in Cores
    PROVE  Kept(s, s)
  BY DEF Kept

-------------------------------------------------------------------------------
(* hp_tick *)

LEMMA CloseEnrollmentKept ==
    ASSUME NEW s \in Cores, s.state # "ERROR", NEW io
    PROVE  Kept(s, CloseEnrollment(s, io))
  <1> DEFINE closing == [s EXCEPT !.requested_mode = "PAUSED", !.deadline = FALSE]
             stopped == StopAdvertising(closing, io)
             closed == [stopped EXCEPT !.filter_ready = FALSE, !.hid_ready = FALSE,
                                       !.applied_mode = "PAUSED", !.state = "PAUSED"]
  <1>1. closing \in Cores /\ Kept(s, closing)
    BY DEF Kept, Cores, Modes
  <1> HIDE DEF closing
  <1>2. Kept(s, stopped)
    BY <1>1, StopKept, KeptAgain
  <1>4. CloseEnrollment(s, io) =
          IF io.fails = "stop" THEN Fail(stopped, io) ELSE TerminateOnce(closed, io.term)
    BY DEF CloseEnrollment, closing
  <1> HIDE DEF stopped
  <1>3. Kept(s, closed)
    <2>1. stopped \in Cores
      BY <1>2 DEF Kept
    <2>2. closed \in Cores
      BY <2>1 DEF Cores, Modes, States
    <2>3. QED
      BY <1>2, <2>1, <2>2 DEF Kept, Cores
  <1> HIDE DEF closed
  <1>5. Kept(s, TerminateOnce(closed, io.term))
    <2>1. closed \in Cores
      BY <1>3 DEF Kept
    <2>2. QED
      BY <1>3, <2>1, TerminateKept, KeptAgain
  <1>6. QED
    BY <1>2, <1>4, <1>5, FailAfter

LEMMA ApplyModeEffect ==
    ASSUME NEW s \in Cores, s.state = "SWITCHING", ~s.handle, NEW store, NEW io
    PROVE  Kept(s, ApplyMode(s, store, io)) \/ Applied(s, ApplyMode(s, store, io))
  <1> DEFINE read == Refresh(s, store)
             auto == s.requested_mode = "AUTO"
             accepted == IF auto THEN s.target_id ELSE NoHost
             state == IF auto THEN "WAITING" ELSE "ENROLLING"
             applied == [read EXCEPT !.applied_mode = s.requested_mode, !.filter_ready = TRUE,
                                     !.accept = accepted, !.state = state]
  <1>1. Kept(s, read) /\ read \in Cores
    BY RefreshKept, RefreshType
  <1>2. Kept(s, [s EXCEPT !.state = "PAUSED"])
    BY DEF Kept, Cores, States
  <1>3. Kept(s, Fail(s, io)) /\ Kept(s, Fail(read, io))
    BY <1>1, FailKept, FailAfter
  <1>4. Applied(s, applied)
    <2>1. accepted \in Labels /\ state \in States /\ s.requested_mode \in Modes
      BY DEF Cores, Labels, States
    <2> HIDE DEF accepted, state
    <2>2. applied \in Cores
      BY <1>1, <2>1 DEF Cores
    <2>3. ~applied.handle /\ applied.operation_id = s.operation_id
          /\ applied.applied_mode = s.requested_mode
      BY <1>1 DEF Kept, Cores
    <2>4. QED
      BY <2>2, <2>3 DEF Applied
  <1>5. ApplyMode(s, store, io) \in {[s EXCEPT !.state = "PAUSED"], Fail(s, io), Fail(read, io), applied}
    BY DEF ApplyMode
  <1>6. QED
    BY <1>2, <1>3, <1>4, <1>5

LEMMA SelectNewcomerEffect ==
    ASSUME NEW s \in Cores, s.state # "ERROR", s.applied_mode = "ENROLL", s.handle,
           s.input_subscribed, s.connected_address \in Hosts, NEW io
    PROVE  Kept(s, SelectNewcomer(s, io)) \/ Chosen(s, SelectNewcomer(s, io))
  <1> DEFINE peer == s.connected_address
             written == Commit(s, "AUTO", peer, CommitResult(io))
             chosen == [written EXCEPT !.requested_mode = "AUTO", !.applied_mode = "AUTO",
                             !.target_id = peer, !.accept = peer, !.deadline = FALSE,
                             !.hid_ready = TRUE, !.state = "CONNECTED"]
  <1>1. peer \in Labels
    BY DEF Labels
  <1>2. Kept(s, written) /\ written \in Cores
    BY <1>1, CommitKept, CommitType
  <1>3. Kept(s, Fail(written, io))
    BY <1>2, FailAfter
  <1>4. SelectNewcomer(s, io) \in {Fail(written, io), chosen}
    BY DEF SelectNewcomer
  <1> HIDE DEF written
  <1>5. chosen \in Cores
    BY <1>1, <1>2 DEF Cores, Modes, States
  <1>6. chosen.applied_mode = "AUTO" /\ chosen.target_id = peer
        /\ chosen.operation_id = s.operation_id
    BY <1>2 DEF Kept, Cores
  <1>7. Chosen(s, chosen)
    BY <1>5, <1>6 DEF Chosen
  <1>8. QED
    BY <1>3, <1>4, <1>7

LEMMA PromoteLinkEffect ==
    ASSUME NEW s \in Cores, s.state # "ERROR", LinkProved(s), NEW store, NEW io
    PROVE  Kept(s, PromoteLink(s, store, io)) \/ Chosen(s, PromoteLink(s, store, io))
  <1> DEFINE read == Refresh(s, store)
             connected == [read EXCEPT !.hid_ready = TRUE, !.state = "CONNECTED"]
  <1>1. Kept(s, read) /\ read \in Cores /\ read.state # "ERROR"
        /\ read.applied_mode = s.applied_mode /\ read.handle /\ read.input_subscribed
        /\ s.handle /\ s.input_subscribed
    BY RefreshKept, RefreshType DEF Refresh, Cores, LinkProved
  <1>2. Kept(s, connected)
    BY <1>1 DEF Kept, Cores, States
  <1>3. CASE s.applied_mode = "ENROLL" /\ Complete(store, s.connected_address)
    <2>1. read.connected_address = s.connected_address /\ s.connected_address \in Hosts
      BY <1>1, <1>3 DEF Kept, Complete
    <2>2. Kept(read, SelectNewcomer(read, io)) \/ Chosen(read, SelectNewcomer(read, io))
      BY <1>1, <1>3, <2>1, SelectNewcomerEffect
    <2>3. Kept(s, SelectNewcomer(read, io)) \/ Chosen(s, SelectNewcomer(read, io))
      <3>1. CASE Kept(read, SelectNewcomer(read, io))
        BY <1>1, <3>1, KeptAgain
      <3>2. CASE Chosen(read, SelectNewcomer(read, io))
        BY <1>1, <1>3, <2>1, <3>2 DEF Chosen, Kept
      <3>3. QED
        BY <2>2, <3>1, <3>2
    <2>4. PromoteLink(s, store, io) \in {Fail(s, io), SelectNewcomer(read, io)}
      BY <1>3 DEF PromoteLink
    <2>5. QED
      BY <2>3, <2>4, FailKept
  <1>4. CASE ~(s.applied_mode = "ENROLL" /\ Complete(store, s.connected_address))
    <2>1. PromoteLink(s, store, io) \in {Fail(s, io), read, connected}
      BY <1>4 DEF PromoteLink
    <2>2. QED
      BY <1>1, <1>2, <2>1, FailKept
  <1>5. QED
    BY <1>3, <1>4

LEMMA TickEffect ==
    ASSUME NEW s \in Cores, NEW expired, NEW store, NEW io
    PROVE  LET t == Tick(s, expired, store, io)
           IN  Kept(s, t) \/ Applied(s, t) \/ Chosen(s, t)
  <1>1. CASE s.state = "ERROR"
    BY <1>1, KeptItself DEF Tick
  <1>2. CASE s.state # "ERROR"
    BY <1>2, CloseEnrollmentKept, ApplyModeEffect, PromoteLinkEffect, KeptItself DEF Tick
  <1>3. QED
    BY <1>1, <1>2

-------------------------------------------------------------------------------
(* The requests *)

(* After a request, a window that is open already has no link.             *)
Emptied(t) == t \in Cores /\ (t.applied_mode = "ENROLL" => ~t.handle)

LEMMA EmptiedTick ==
    ASSUME NEW s, Emptied(s), NEW expired, NEW store, NEW io
    PROVE  Emptied(Tick(s, expired, store, io))
           /\ Tick(s, expired, store, io).operation_id = s.operation_id
  <1> DEFINE t == Tick(s, expired, store, io)
  <1>1. Kept(s, t) \/ Applied(s, t) \/ Chosen(s, t)
    BY TickEffect DEF Emptied
  <1> HIDE DEF t
  <1>2. Emptied(t) /\ t.operation_id = s.operation_id
    BY <1>1 DEF Kept, Applied, Chosen, Emptied
  <1>3. QED
    BY <1>2 DEF t

LEMMA FailEmptied ==
    ASSUME NEW s \in Cores, NEW io
    PROVE  Emptied(Fail(s, io)) /\ Fail(s, io).operation_id = s.operation_id
  BY FailKept DEF Kept, Emptied

LEMMA BeginSwitchEmptied ==
    ASSUME NEW s \in Cores, NEW mode, NEW selected \in Labels, NEW store, NEW io
    PROVE  LET t == BeginSwitch(s, mode, selected, store, io)
           IN  Emptied(t) /\ t.operation_id = s.operation_id
  <1> DEFINE durable == IF mode = "AUTO" THEN "AUTO" ELSE "PAUSED"
             written == Commit(s, durable, selected, CommitResult(io))
             aimed == [written EXCEPT !.target_id = selected]
             stopped == StopAdvertising(aimed, io)
             switching == [stopped EXCEPT !.state = "SWITCHING", !.applied_mode = "PAUSED"]
             released == TerminateOnce(switching, io.term)
  <1>1. BeginSwitch(s, mode, selected, store, io) =
          IF CommitResult(io) # "ok" THEN Fail(written, io)
          ELSE IF io.fails = "stop" THEN Fail(stopped, io)
          ELSE Tick(released, FALSE, store, io)
    BY DEF BeginSwitch
  <1>2. written \in Cores /\ written.operation_id = s.operation_id
    BY CommitKept DEF Kept
  <1> HIDE DEF written
  <1>3. aimed \in Cores /\ aimed.operation_id = s.operation_id
    BY <1>2 DEF Cores
  <1> HIDE DEF aimed
  <1>4. stopped \in Cores /\ stopped.operation_id = s.operation_id
    BY <1>3, StopKept DEF Kept
  <1> HIDE DEF stopped
  <1>5. /\ switching \in Cores /\ switching.operation_id = s.operation_id
        /\ switching.applied_mode = "PAUSED"
    BY <1>4 DEF Cores, Modes, States
  <1> HIDE DEF switching
  <1>6. Emptied(released) /\ released.operation_id = s.operation_id
    BY <1>5, TerminateKept DEF Kept, Emptied
  <1> HIDE DEF released
  <1>7. Emptied(Tick(released, FALSE, store, io))
        /\ Tick(released, FALSE, store, io).operation_id = s.operation_id
    BY <1>6, EmptiedTick
  <1>8. /\ Emptied(Fail(written, io)) /\ Fail(written, io).operation_id = s.operation_id
        /\ Emptied(Fail(stopped, io)) /\ Fail(stopped, io).operation_id = s.operation_id
    BY <1>2, <1>4, FailEmptied
  <1>9. QED
    BY <1>1, <1>7, <1>8, Zenon

LEMMA RequestEmptied ==
    ASSUME NEW s \in Cores, NEW mode \in Modes, NEW target \in Labels, NEW operation \in Nat,
           NEW store, NEW io
    PROVE  LET t == Request(s, mode, target, operation, store, io)
           IN  Emptied(t) /\ t.operation_id = operation
  <1> DEFINE intent == NewIntent(s, mode, operation)
             read == Refresh(intent, store)
             opened == [read EXCEPT !.deadline = TRUE, !.enrollment_existing = Known(store)]
             selected == IF mode = "AUTO" /\ target # NoHost THEN target ELSE s.blob.selected
  <1>1. intent \in Cores /\ intent.operation_id = operation
    <2> DEFINE sent == s.terminate_sent /\ ~s.terminate_failed
               part == [s EXCEPT !.operation_id = operation, !.requested_mode = mode,
                                 !.terminate_sent = sent, !.terminate_failed = FALSE,
                                 !.candidate = NoHost]
    <2>1. intent = [s EXCEPT !.operation_id = operation, !.requested_mode = mode,
                             !.terminate_sent = sent, !.terminate_failed = FALSE,
                             !.filter_ready = FALSE, !.hid_ready = FALSE,
                             !.input_subscribed = FALSE, !.candidate = NoHost,
                             !.candidate_store_started = FALSE, !.deadline = FALSE]
      BY DEF NewIntent
    <2>2. sent \in BOOLEAN
      OBVIOUS
    <2> HIDE DEF intent, sent
    <2>3. part \in Cores /\ part.operation_id = operation
      BY <2>2 DEF Cores, Labels
    <2> DEFINE shut == [part EXCEPT !.filter_ready = FALSE, !.hid_ready = FALSE]
    <2>4. intent = [shut EXCEPT !.input_subscribed = FALSE, !.candidate_store_started = FALSE,
                                !.deadline = FALSE]
      BY <2>1, <2>2 DEF Cores
    <2> HIDE DEF part
    <2>5. shut \in Cores /\ shut.operation_id = operation
      BY <2>3 DEF Cores
    <2> HIDE DEF shut
    <2>6. QED
      BY <2>4, <2>5 DEF Cores
  <1> HIDE DEF intent
  <1>2. read \in Cores /\ read.operation_id = operation
    BY <1>1, RefreshKept DEF Kept
  <1> HIDE DEF read
  <1>3. opened \in Cores /\ opened.operation_id = operation
    BY <1>2 DEF Cores, Known
  <1>4. selected \in Labels
    BY DEF Cores, Blobs
  <1>5. Request(s, mode, target, operation, store, io) \in
          {Fail(intent, io), Fail(read, io), BeginSwitch(read, mode, selected, store, io),
           BeginSwitch(opened, mode, selected, store, io)}
    BY DEF Request, intent, read
  <1> HIDE DEF opened, selected
  <1>6. QED
    BY <1>1, <1>2, <1>3, <1>4, <1>5, FailEmptied, BeginSwitchEmptied

(* Naming a host changes nothing else. *)
LEMMA SetAliasKept ==
    ASSUME NEW s \in Cores, NEW h, NEW operation \in Nat, NEW store, NEW io
    PROVE  LET t == SetAlias(s, h, operation, store, io)
           IN  Kept([s EXCEPT !.operation_id = operation], t)
  <1> DEFINE begun == [s EXCEPT !.operation_id = operation]
             written == Commit(begun, s.blob.mode, s.blob.selected, CommitResult(io))
  <1>1. begun \in Cores /\ s.blob.mode \in {"PAUSED", "AUTO"} /\ s.blob.selected \in Labels
    BY DEF Cores, Blobs
  <1>2. SetAlias(s, h, operation, store, io) \in
          {Fail(begun, io), Fail(written, io), Refresh(written, store)}
    BY DEF SetAlias
  <1> HIDE DEF begun
  <1>3. Kept(begun, written) /\ written \in Cores
    BY <1>1, CommitKept, CommitType
  <1> HIDE DEF written
  <1>4. Kept(begun, Refresh(written, store))
    BY <1>3, RefreshKept, KeptAgain
  <1>5. Kept(begun, SetAlias(s, h, operation, store, io))
    BY <1>1, <1>2, <1>3, <1>4, FailKept, FailAfter
  <1>6. QED
    BY <1>5 DEF begun

-------------------------------------------------------------------------------
(* The link callbacks *)

LEMMA RejectKept ==
    ASSUME NEW s \in Cores, s.state # "ERROR", NEW io
    PROVE  Kept(s, RejectEnrollmentLink(s, io))
  <1> DEFINE left == IF s.candidate_store_started THEN s.candidate ELSE NoHost
             rejected == [s EXCEPT !.enrollment_rejected = TRUE, !.candidate = left,
                                   !.connected_id = NoHost, !.encrypted = FALSE, !.bonded = FALSE,
                                   !.filter_ready = FALSE, !.hid_ready = FALSE,
                                   !.input_subscribed = FALSE, !.state = "SWITCHING"]
  <1>1. left \in Labels
    BY DEF Cores, Labels
  <1>2. RejectEnrollmentLink(s, io) =
          IF s.enrollment_rejected THEN s ELSE TerminateOnce(rejected, io.term)
    BY DEF RejectEnrollmentLink
  <1> HIDE DEF left
  <1>3. rejected \in Cores /\ Kept(s, rejected)
    <2> DEFINE part == [s EXCEPT !.enrollment_rejected = TRUE, !.candidate = left,
                                 !.connected_id = NoHost, !.filter_ready = FALSE,
                                 !.state = "SWITCHING"]
    <2>1. part \in Cores
      BY <1>1 DEF Cores, Labels, States
    <2>2. Kept(s, part)
      BY <2>1 DEF Kept, Cores
    <2>3. rejected = [part EXCEPT !.encrypted = FALSE, !.bonded = FALSE, !.hid_ready = FALSE,
                                  !.input_subscribed = FALSE]
      BY DEF Cores
    <2> HIDE DEF part, rejected
    <2>4. Kept(part, rejected)
      BY <2>1, <2>3, UnprovedKept
    <2>5. QED
      BY <2>2, <2>4, KeptAgain DEF Kept
  <1> HIDE DEF rejected
  <1>4. QED
    BY <1>2, <1>3, KeptItself, TerminateKept, KeptAgain

(* A stable identity the window latches is not one it found there. *)
LEMMA IdentityEffect ==
    ASSUME NEW s \in Cores, NEW generation, NEW address \in Addresses, NEW io
    PROVE  LET t == Identity(s, generation, address, io)
           IN  \/ Kept(s, t)
               \/ /\ t \in Cores /\ Outsider(t) /\ s.state # "ERROR"
                  /\ t.applied_mode = s.applied_mode /\ t.operation_id = s.operation_id
  <1> DEFINE resolved == [s EXCEPT !.connected_address = address, !.connected_id = address]
             latched == [resolved EXCEPT !.candidate = address]
             t == Identity(s, generation, address, io)
  <1>1. CASE ~Current(s, generation) \/ s.state = "ERROR" \/ s.enrollment_rejected
    BY <1>1, KeptItself DEF Identity
  <1>2. CASE /\ ~(~Current(s, generation) \/ s.state = "ERROR" \/ s.enrollment_rejected)
             /\ address \notin Hosts \/ (s.applied_mode = "AUTO" /\ address # s.blob.selected)
    BY <1>2, FailKept DEF Identity
  <1>3. CASE /\ ~(~Current(s, generation) \/ s.state = "ERROR" \/ s.enrollment_rejected)
             /\ ~(address \notin Hosts \/ (s.applied_mode = "AUTO" /\ address # s.blob.selected))
    <2>1. address \in Hosts /\ address \in Labels /\ s.state # "ERROR"
      BY <1>3 DEF Labels
    <2>2. resolved \in Cores /\ latched \in Cores
      BY <2>1 DEF Cores
    <2>3. CASE s.applied_mode # "ENROLL"
      <3>1. t = resolved
        BY <1>3, <2>3 DEF Identity
      <3>2. QED
        BY <2>1, <2>2, <2>3, <3>1 DEF Outsider, Cores
    <2>4. CASE s.applied_mode = "ENROLL" /\ ~Mismatched(s, address)
      <3>1. t = latched
        BY <1>3, <2>4 DEF Identity
      <3>2. QED
        BY <2>1, <2>2, <2>4, <3>1 DEF Outsider, Mismatched, Cores
    <2>5. CASE s.applied_mode = "ENROLL" /\ Mismatched(s, address)
      <3>1. t \in {RejectEnrollmentLink(s, io), Fail(s, io)}
        BY <1>3, <2>5 DEF Identity
      <3>2. QED
        BY <2>1, <3>1, RejectKept, FailKept
    <2>6. QED
      BY <2>3, <2>4, <2>5
  <1>4. QED
    BY <1>1, <1>2, <1>3

LEMMA SecurityKept ==
    ASSUME NEW s \in Cores, NEW generation, NEW encrypted \in BOOLEAN, NEW bonded \in BOOLEAN,
           NEW error, NEW io
    PROVE  Kept(s, Security(s, generation, encrypted, bonded, error, io))
  <1> DEFINE ready == s.hid_ready /\ encrypted /\ bonded
             seen == [s EXCEPT !.encrypted = encrypted, !.bonded = bonded, !.hid_ready = ready]
  <1>1. ready \in BOOLEAN
    OBVIOUS
  <1>2. Security(s, generation, encrypted, bonded, error, io) \in {s, Fail(seen, io), seen}
    BY DEF Security
  <1> HIDE DEF ready
  <1>3. Kept(s, seen)
    BY <1>1 DEF Kept, Cores
  <1> HIDE DEF seen
  <1>4. QED
    BY <1>2, <1>3, KeptItself, FailAfter

LEMMA SubscribeKept ==
    ASSUME NEW s \in Cores, NEW generation, NEW enabled \in BOOLEAN
    PROVE  Kept(s, Subscribe(s, generation, enabled))
  <1> DEFINE ready == s.hid_ready /\ s.input_subscribed = enabled
             seen == [s EXCEPT !.hid_ready = ready, !.input_subscribed = enabled]
  <1>1. ready \in BOOLEAN
    OBVIOUS
  <1>2. Subscribe(s, generation, enabled) \in {s, seen}
    BY DEF Subscribe
  <1> HIDE DEF ready
  <1>3. Kept(s, seen)
    BY <1>1 DEF Kept, Cores
  <1>4. QED
    BY <1>2, <1>3, KeptItself

LEMMA DisconnectKept ==
    ASSUME NEW s \in Cores, NEW generation
    PROVE  Kept(s, Disconnect(s, generation))
  <1> DEFINE state == IF s.state = "ERROR" THEN s.state ELSE "SWITCHING"
             gone == [s EXCEPT !.handle = FALSE, !.connected_id = NoHost, !.encrypted = FALSE,
                               !.bonded = FALSE, !.hid_ready = FALSE, !.input_subscribed = FALSE,
                               !.terminate_sent = FALSE, !.terminate_failed = FALSE,
                               !.state = state]
  <1>1. state \in States /\ (s.state = "ERROR" => state = "ERROR")
    BY DEF Cores, States
  <1>2. Disconnect(s, generation) \in {s, gone}
    BY DEF Disconnect
  <1> HIDE DEF state
  <1>3. Kept(s, gone)
    <2> DEFINE part == [s EXCEPT !.handle = FALSE, !.connected_id = NoHost, !.state = state,
                                 !.terminate_sent = FALSE, !.terminate_failed = FALSE]
    <2>1. part \in Cores
      BY <1>1 DEF Cores, Labels
    <2>2. Kept(s, part)
      BY <1>1, <2>1 DEF Kept, Cores
    <2>3. gone = [part EXCEPT !.encrypted = FALSE, !.bonded = FALSE, !.hid_ready = FALSE,
                              !.input_subscribed = FALSE]
      BY DEF Cores
    <2> HIDE DEF part, gone
    <2>4. QED
      BY <2>1, <2>2, <2>3, UnprovedKept, KeptAgain
  <1>4. QED
    BY <1>2, <1>3, KeptItself

LEMMA StoreStartedKept ==
    ASSUME NEW s \in Cores, NEW h \in Labels, NEW security, NEW exists
    PROVE  Kept(s, StoreStarted(s, h, security, exists))
  <1> DEFINE latched == [s EXCEPT !.candidate = h, !.candidate_store_started = TRUE]
  <1>1. latched \in Cores
    BY DEF Cores
  <1>2. Kept(s, latched)
    BY <1>1 DEF Kept, Cores
  <1>3. StoreStarted(s, h, security, exists) \in {s, latched}
    BY DEF StoreStarted
  <1> HIDE DEF latched
  <1>4. QED
    BY <1>2, <1>3, KeptItself

(* hp_connect admits a newcomer, or an address that says nothing yet. *)
LEMMA ConnectEffect ==
    ASSUME NEW s \in Cores, NEW address \in Addresses, Outsider(s)
    PROVE  LET t == Connect(s, address)
           IN  /\ t.operation_id = s.operation_id
               /\ t.state = s.state /\ t.applied_mode = s.applied_mode
               /\ Outsider(t)
  <1>1. CASE ~Admits(s, address)
    BY <1>1 DEF Connect
  <1>2. CASE Admits(s, address)
    <2> DEFINE t == Connect(s, address)
    <2>1. /\ t.operation_id = s.operation_id /\ t.state = s.state
          /\ t.applied_mode = s.applied_mode
          /\ t.enrollment_existing = s.enrollment_existing
          /\ t.connected_address = address
      BY <1>2 DEF Connect, Cores
    <2>2. s.applied_mode = "ENROLL" /\ address \in Hosts => address \notin s.enrollment_existing
      BY <1>2 DEF Admits, Mismatched
    <2>3. Outsider(t)
      BY <2>1, <2>2 DEF Outsider
    <2>4. QED
      BY <2>1, <2>3
  <1>3. QED
    BY <1>1, <1>2

(* A stack that restarts while nothing is linked, after a power cycle too. *)
LEMMA SyncKept ==
    ASSUME NEW s \in Cores, NEW store, NEW io
    PROVE  Kept(s, Sync(s, store, io))
  <1> DEFINE idle == [s EXCEPT !.filter_ready = FALSE, !.hid_ready = FALSE, !.advertising = FALSE]
             read == Refresh(idle, store)
             synced == [read EXCEPT !.applied_mode = "PAUSED", !.state = "SWITCHING"]
  <1>1. idle \in Cores /\ Kept(s, idle) /\ idle.state = s.state
    BY DEF Kept, Cores
  <1>2. Sync(s, store, io) = IF io.fails = "refresh" \/ ~Readable(store) THEN Fail(idle, io)
                             ELSE IF s.state = "ERROR" THEN read ELSE synced
    BY DEF Sync
  <1> HIDE DEF idle
  <1>3. Kept(s, read) /\ read \in Cores
    BY <1>1, RefreshKept, RefreshType, KeptAgain
  <1> HIDE DEF read
  <1>4. s.state # "ERROR" => Kept(s, synced)
    BY <1>3 DEF Kept, Cores, Modes, States
  <1>5. QED
    BY <1>1, <1>2, <1>3, <1>4, FailAfter

(* What the port serves after a tick can only close. *)
LEMMA ServeKept ==
    ASSUME NEW s \in Cores, NEW transitioning, NEW served, NEW io
    PROVE  Kept(s, ServeRequests(s, transitioning, served, io))
  <1> DEFINE advertising == s.advertising \/ (AdvertisingAllowed(s) /\ served # "failed")
             on == [s EXCEPT !.advertising = advertising]
             off == StopAdvertising(on, io)
  <1>1. advertising \in BOOLEAN
    BY DEF Cores
  <1>2. ServeRequests(s, transitioning, served, io) \in {s, on, off, Fail(off, io), Fail(s, io)}
    BY DEF ServeRequests, ServeAdvertising
  <1> HIDE DEF advertising
  <1>3. Kept(s, on) /\ on \in Cores
    BY <1>1 DEF Kept, Cores
  <1> HIDE DEF on
  <1>4. Kept(s, off)
    BY <1>3, StopKept, KeptAgain
  <1> HIDE DEF off
  <1>5. QED
    BY <1>2, <1>3, <1>4, KeptItself, FailAfter

-------------------------------------------------------------------------------
(* What one step may do *)

NewcomerStep ==
    core.applied_mode = "ENROLL" /\ core'.applied_mode = "AUTO"
    /\ core'.operation_id = core.operation_id
       => core'.target_id \notin core.enrollment_existing

ErrorStep ==
    core.state = "ERROR" /\ core'.state # "ERROR" /\ core'.operation_id = core.operation_id
       => \E loaded \in BOOLEAN, io \in Answers({"refresh"}) : BootStep(loaded, io)

LEMMA KeptStep ==
    ASSUME Outsider(core), Kept(core, core')
    PROVE  Outsider(core)' /\ NewcomerStep /\ ErrorStep
  <1>1. Outsider(core')
    BY KeptOutsider
  <1>2. NewcomerStep /\ ErrorStep
    BY DEF Kept, NewcomerStep, ErrorStep
  <1>3. QED
    BY <1>1, <1>2 DEF Outsider

LEMMA AskedStep ==
    ASSUME core \in Cores, core'.operation_id = core.operation_id + 1, Outsider(core')
    PROVE  Outsider(core)' /\ NewcomerStep /\ ErrorStep
  <1>1. core'.operation_id # core.operation_id
    BY DEF Cores
  <1>2. QED
    BY <1>1 DEF NewcomerStep, ErrorStep, Outsider

LEMMA TickedStep ==
    ASSUME IInv, Outsider(core), NEW expired, NEW served, NEW io, TickStep(expired, served, io)
    PROVE  Outsider(core)' /\ NewcomerStep /\ ErrorStep
  <1> DEFINE ticked == Tick(core, expired, bonds, io)
  <1>1. core \in Cores /\ LinkCoherent(core) /\ IntentCoherent(core)
    BY DEF IInv, TypeOK, CoreCoherent
  <1>2. Kept(core, ticked) \/ Applied(core, ticked) \/ Chosen(core, ticked)
    BY <1>1, TickEffect
  <1>3. core' = ServeRequests(ticked, core.state = "SWITCHING", served, io)
    BY DEF TickStep
  <1> HIDE DEF ticked
  <1>4. Kept(ticked, core')
    BY <1>2, <1>3, ServeKept DEF Kept, Applied, Chosen
  <1>5. CASE Kept(core, ticked)
    BY <1>4, <1>5, KeptAgain, KeptStep
  <1>6. CASE Applied(core, ticked)
    <2>1. ~core'.handle /\ core.state # "ERROR"
      BY <1>4, <1>6 DEF Kept, Applied
    <2>2. core.applied_mode = "ENROLL" => core'.applied_mode # "AUTO"
      BY <1>1, <1>4, <1>6 DEF IntentCoherent, Kept, Applied
    <2>3. QED
      BY <2>1, <2>2 DEF Outsider, NewcomerStep, ErrorStep
  <1>7. CASE Chosen(core, ticked)
    <2>1. core'.applied_mode # "ENROLL" /\ core.state # "ERROR"
          /\ core'.target_id = core.connected_address
      BY <1>4, <1>7 DEF Kept, Chosen
    <2>2. ~core.enrollment_rejected
      BY <1>1, <1>7 DEF LinkCoherent, Chosen
    <2>3. core.connected_address \notin core.enrollment_existing
      BY <1>7, <2>2 DEF Chosen, Outsider
    <2>4. QED
      BY <2>1, <2>3 DEF Outsider, NewcomerStep, ErrorStep
  <1>8. QED
    BY <1>2, <1>5, <1>6, <1>7

LEMMA StepFacts ==
    ASSUME IInv, Outsider(core), Next
    PROVE  Outsider(core)' /\ NewcomerStep /\ ErrorStep
  <1> DEFINE Goal == Outsider(core)' /\ NewcomerStep /\ ErrorStep
  <1>1. core \in Cores /\ core.operation_id + 1 \in Nat
    BY DEF IInv, TypeOK, Cores
  <1>2. ASSUME NEW intent \in Intents, NEW io \in Answers(Fails), RequestStep(intent, io)
        PROVE  Goal
    <2> DEFINE asked == Request(core, intent[1], intent[2], core.operation_id + 1, bonds, io)
    <2>1. intent[1] \in Modes /\ intent[2] \in Labels
      BY DEF Intents, Modes, Labels
    <2>2. Emptied(asked) /\ asked.operation_id = core.operation_id + 1
      BY <1>1, <2>1, RequestEmptied
    <2>3. core' = Tick(asked, FALSE, bonds, io)
      BY <1>2 DEF RequestStep
    <2> HIDE DEF asked
    <2>4. Emptied(core') /\ core'.operation_id = core.operation_id + 1
      BY <2>2, <2>3, EmptiedTick
    <2>5. QED
      BY <1>1, <2>4, AskedStep DEF Emptied, Outsider
  <1>3. ASSUME NEW h \in Hosts, NEW io \in Answers(TickCalls), AliasStep(h, io)
        PROVE  Goal
    <2> DEFINE begun == [core EXCEPT !.operation_id = core.operation_id + 1]
               named == SetAlias(core, h, core.operation_id + 1, bonds, io)
    <2>1. Kept(begun, named)
      BY <1>1, SetAliasKept
    <2>2. begun \in Cores /\ begun.operation_id = core.operation_id + 1
      BY <1>1 DEF Cores
    <2>3. Outsider(begun) /\ LinkCoherent(begun)
      BY <1>1 DEF Outsider, LinkCoherent, IInv, CoreCoherent, Cores
    <2>4. core' = Tick(named, FALSE, bonds, io)
      BY <1>3 DEF AliasStep
    <2> HIDE DEF begun, named
    <2>5. named \in Cores /\ Outsider(named) /\ named.operation_id = core.operation_id + 1
      BY <2>1, <2>2, <2>3, KeptOutsider DEF Kept
    <2>6. Kept(named, core') \/ Applied(named, core') \/ Chosen(named, core')
      BY <2>4, <2>5, TickEffect
    <2>7. Outsider(core') /\ core'.operation_id = core.operation_id + 1
      <3>1. CASE Kept(named, core')
        BY <2>5, <3>1, KeptOutsider DEF Kept
      <3>2. CASE Applied(named, core') \/ Chosen(named, core')
        BY <2>5, <3>2 DEF Applied, Chosen, Outsider
      <3>3. QED
        BY <2>6, <3>1, <3>2
    <2>8. QED
      BY <1>1, <2>7, AskedStep
  <1>4. ASSUME NEW expired \in BOOLEAN, NEW served \in Served,
               NEW io \in Answers(ServedCalls(served)), TickStep(expired, served, io)
        PROVE  Goal
    BY <1>4, TickedStep
  <1>5. ASSUME NEW io \in Answers({"stop"}), FaultStep(io)
        PROVE  Goal
    BY <1>1, <1>5, FailKept, KeptStep DEF FaultStep
  <1>6. ASSUME NEW mode \in Modes, NEW io \in Answers({"stop"}), FaultedRequestStep(mode, io)
        PROVE  Goal
    <2> DEFINE failed == Fail(core, io)
    <2>1. core' = [failed EXCEPT !.operation_id = core.operation_id + 1, !.requested_mode = mode]
      BY <1>6 DEF FaultedRequestStep
    <2>2. failed \in Cores /\ failed.applied_mode = "PAUSED"
      BY <1>1, FailKept DEF Kept
    <2> HIDE DEF failed
    <2>3. core'.applied_mode = "PAUSED" /\ core'.operation_id = core.operation_id + 1
      BY <2>1, <2>2 DEF Cores
    <2>4. QED
      BY <1>1, <2>3, AskedStep DEF Outsider
  <1>7. ASSUME NEW address \in Addresses, NEW io \in Answers({"stop"}), IdentityStep(address, io)
        PROVE  Goal
    <2>1. core' = Identity(core, link.generation, address, io)
      BY <1>7 DEF IdentityStep
    <2>2. \/ Kept(core, core')
          \/ /\ Outsider(core') /\ core.state # "ERROR"
             /\ core'.applied_mode = core.applied_mode
      BY <1>1, <2>1, IdentityEffect
    <2>3. QED
      BY <2>2, KeptStep DEF Outsider, NewcomerStep, ErrorStep
  <1>8. ASSUME NEW address \in Addresses, NEW security \in Securities,
               NEW io \in Answers({"stop"}), SecurityStep(address, security, io)
        PROVE  Goal
    <2> DEFINE named == Identity(core, link.generation, address, io)
    <2>1. \/ Kept(core, named)
          \/ /\ named \in Cores /\ Outsider(named) /\ core.state # "ERROR"
             /\ named.applied_mode = core.applied_mode
      BY <1>1, IdentityEffect
    <2>2. core' = Security(named, link.generation, security.encrypted, security.bonded,
                           security.error, io)
      BY <1>8 DEF SecurityStep
    <2>3. security.encrypted \in BOOLEAN /\ security.bonded \in BOOLEAN
      BY DEF Securities
    <2> HIDE DEF named
    <2>4. Kept(named, core')
      BY <2>1, <2>2, <2>3, SecurityKept DEF Kept
    <2>5. CASE Kept(core, named)
      BY <2>4, <2>5, KeptAgain, KeptStep
    <2>6. CASE /\ Outsider(named) /\ core.state # "ERROR"
               /\ named.applied_mode = core.applied_mode
      <3>1. Outsider(core') /\ core'.applied_mode \in {core.applied_mode, "PAUSED"}
        BY <2>4, <2>6, KeptOutsider DEF Kept
      <3>2. QED
        BY <2>6, <3>1 DEF Outsider, NewcomerStep, ErrorStep
    <2>7. QED
      BY <2>1, <2>5, <2>6
  <1>9. ASSUME NEW io \in Answers({}), RepeatPairingStep(io)
        PROVE  Goal
    BY <1>1, <1>9, RejectKept, KeptStep DEF RepeatPairingStep, RejectApplies
  <1>10. ASSUME NEW io \in Answers({"refresh", "stop"}), SyncStep(io)
         PROVE  Goal
    BY <1>1, <1>10, SyncKept, KeptStep DEF SyncStep
  <1>11. ASSUME NEW loaded \in BOOLEAN, NEW io \in Answers({"refresh"}), BootStep(loaded, io)
         PROVE  Goal
    <2>1. ErrorStep
      BY <1>11 DEF ErrorStep
    <2>2. core.flash \in Blobs /\ bonds' \in Stores
      BY <1>1, <1>11 DEF IInv, TypeOK, Cores, BootStep, Stores
    <2>3. InitCore(core.flash, loaded) \in Cores
      BY <2>2, InitCoreSound DEF Sound
    <2>4. Kept(InitCore(core.flash, loaded), core')
      BY <1>11, <2>3, SyncKept DEF BootStep
    <2>5. core'.applied_mode = "PAUSED"
      BY <2>4 DEF Kept, InitCore
    <2>6. QED
      BY <2>1, <2>5 DEF Outsider, NewcomerStep
  <1>12. ASSUME EarlyLossStep
         PROVE  Goal
    BY <1>1, <1>12, DisconnectKept, KeptStep DEF EarlyLossStep
  <1>13. ASSUME NEW h \in Hosts, NEW address \in {h, Rpa}, ConnectStep(h, address)
         PROVE  Goal
    <2> DEFINE quiet == [core EXCEPT !.advertising = FALSE]
    <2>1. address \in Addresses
      BY DEF Addresses
    <2>2. Kept(core, quiet) /\ quiet \in Cores /\ quiet.state = core.state
          /\ quiet.applied_mode = core.applied_mode
      BY <1>1 DEF Kept, Cores
    <2>3. core' = Connect(quiet, address)
      BY <1>13 DEF ConnectStep
    <2> HIDE DEF quiet
    <2>4. /\ Outsider(core') /\ core'.state = core.state
          /\ core'.applied_mode = core.applied_mode
      BY <2>1, <2>2, <2>3, KeptOutsider, ConnectEffect
    <2>5. QED
      BY <2>4 DEF Outsider, NewcomerStep, ErrorStep
  <1>14. ASSUME NEW enabled \in BOOLEAN, SubscribeStep(enabled)
         PROVE  Goal
    BY <1>1, <1>14, SubscribeKept, KeptStep DEF SubscribeStep
  <1>15. ASSUME NEW durable \in BOOLEAN, StoreKeyStep(durable)
         PROVE  Goal
    <2>1. link.host \in Labels
      BY DEF IInv, TypeOK, Links
    <2>2. Kept(core, core')
      BY <1>1, <1>15, <2>1, StoreStartedKept DEF StoreKeyStep
    <2>3. QED
      BY <2>2, KeptStep
  <1>16. ASSUME StoreCccdStep
         PROVE  Goal
    <2>1. link.host \in Labels
      BY DEF IInv, TypeOK, Links
    <2>2. Kept(core, core')
      BY <1>1, <1>16, <2>1, StoreStartedKept DEF StoreCccdStep
    <2>3. QED
      BY <2>2, KeptStep
  <1>17. ASSUME LinkLost
         PROVE  Goal
    BY <1>1, <1>17, KeptItself, KeptStep DEF LinkLost
  <1>18. ASSUME NEW generation \in lost, DisconnectStep(generation)
         PROVE  Goal
    BY <1>1, <1>18, DisconnectKept, KeptStep DEF DisconnectStep
  <1>19. QED
    BY <1>2, <1>3, <1>4, <1>5, <1>6, <1>7, <1>8, <1>9, <1>10, <1>11, <1>12, <1>13, <1>14, <1>15,
       <1>16, <1>17, <1>18 DEF Next

LEMMA OutsiderInvariant == Spec => []Outsider(core)
  <1>1. Init => Outsider(core)
    BY DEF Init, InitCore, Outsider
  <1>2. ASSUME IInv, Outsider(core), [Next]_vars
        PROVE  Outsider(core)'
    BY <1>2, StepFacts DEF vars, Outsider
  <1>3. QED
    BY <1>1, <1>2, Invariance, PTL DEF Spec

-------------------------------------------------------------------------------
(* Theorems *)

(* hp_connect, hp_identity and the store guard let no host that had a      *)
(* record when the window opened become the window's durable choice.       *)
THEOREM NewcomerSafe == Spec => NewcomerWins
  <1>1. ASSUME IInv, Outsider(core), [Next]_vars
        PROVE  [NewcomerStep]_vars
    BY <1>1, StepFacts
  <1>2. [NewcomerStep]_vars =>
          [core.applied_mode = "ENROLL" /\ core'.applied_mode = "AUTO"
             /\ core'.operation_id = core.operation_id
           => core'.target_id \notin core.enrollment_existing]_vars
    BY DEF NewcomerStep
  <1>3. QED
    BY <1>1, <1>2, Invariance, OutsiderInvariant, PTL DEF Spec, NewcomerWins

(* A policy in ERROR stays there through ticks, late link events, renewed  *)
(* subscriptions and stack restarts, until an explicit request or a boot.  *)
THEOREM ErrorSafe == Spec => ErrorNeedsIntent
  <1>1. ASSUME IInv, Outsider(core), [Next]_vars
        PROVE  [ErrorStep]_vars
    BY <1>1, StepFacts
  <1>2. [ErrorStep]_vars =>
          [core.state = "ERROR" /\ core'.state # "ERROR" /\ core'.operation_id = core.operation_id
           => \E loaded \in BOOLEAN, io \in Answers({"refresh"}) : BootStep(loaded, io)]_vars
    BY DEF ErrorStep
  <1>3. QED
    BY <1>1, <1>2, Invariance, OutsiderInvariant, PTL DEF Spec, ErrorNeedsIntent
=============================================================================

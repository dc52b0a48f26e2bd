---------------------------- MODULE HostPolicyCore ----------------------------
(***************************************************************************)
(* The native BLE host-policy core (HostPolicyCore.c): which computer may  *)
(* hold the volume connection.  Every handler of the C core runs on the    *)
(* NimBLE host task and is one function here, from the state record of the *)
(* core to the next one.  The record also holds the three things a handler *)
(* writes through its backend: the policy blob in flash, the controller's  *)
(* accept list and whether the controller advertises.                      *)
(*                                                                         *)
(* An identity address and the 64-bit label derived from it are one value, *)
(* a member of Hosts (the core compares the full address beside the        *)
(* label).  Rpa stands for every address hp_normalize refuses.  Aliases,   *)
(* checksums, serial numbers, error codes and countdowns are left out.     *)
(***************************************************************************)
EXTENDS Naturals, FiniteSets

CONSTANTS
    Hosts,      \* computers that may bond, by normalized identity
    NoHost,     \* the zero identity label
    Rpa,        \* an address that is not a stable identity
    MaxPeers    \* HP_MAX_PEERS

ASSUME HostAssumption == NoHost \notin Hosts /\ Rpa \notin Hosts /\ NoHost # Rpa
ASSUME PeerAssumption == MaxPeers \in Nat

Modes == {"PAUSED", "AUTO", "ENROLL"}
States == {"PAUSED", "SWITCHING", "WAITING", "ENROLLING", "CONNECTED", "ERROR"}
Labels == Hosts \cup {NoHost}
Addresses == Hosts \cup {Rpa}

(***************************************************************************)
(* The bond store, as hp_refresh reads it: the records kept for each host. *)
(* A record without "durable" did not read back from NVS.                  *)
(***************************************************************************)
Records == {"our_sec", "cccd", "durable"}
Stores == [Hosts -> SUBSET Records]
Known(bonds) == {h \in Hosts : bonds[h] # {}}
Resumable(bonds, h) == h \in Hosts /\ {"our_sec", "durable"} \subseteq bonds[h]
Complete(bonds, h) == h \in Hosts /\ Records \subseteq bonds[h]
Readable(bonds) == \A h \in Known(bonds) : "durable" \in bonds[h]

(***************************************************************************)
(* What the backend calls of one handler return: "fails" names the call    *)
(* that fails, if any; "pause" is the fate of the PAUSED record hp_fail    *)
(* writes; "term" the answer of ble_gap_terminate.  A "torn" write reached *)
(* flash although its readback failed.                                     *)
(***************************************************************************)
Writes == {"ok", "lost", "torn"}
Fails == {"none", "refresh", "reserve", "lost", "torn", "stop", "recheck", "filter"}
Terminations == {"sent", "absent", "refused"}
Outcomes == [fails : Fails, pause : Writes, term : Terminations]
CommitResult(io) == IF io.fails \in {"lost", "torn"} THEN io.fails ELSE "ok"

Blobs == [valid : BOOLEAN, mode : {"PAUSED", "AUTO"}, selected : Labels]
EmptyBlob == [valid |-> FALSE, mode |-> "PAUSED", selected |-> NoHost]

Cores == [requested_mode : Modes, applied_mode : Modes, state : States,
          target_id : Labels, connected_id : Labels,
          operation_id : Nat, connection_generation : Nat,
          filter_ready : BOOLEAN, encrypted : BOOLEAN, bonded : BOOLEAN,
          hid_ready : BOOLEAN, persisted : BOOLEAN, blob : Blobs,
          connected_address : Addresses, candidate : Labels,
          candidate_store_started : BOOLEAN, terminate_sent : BOOLEAN,
          terminate_failed : BOOLEAN, enrollment_rejected : BOOLEAN,
          handle : BOOLEAN, input_subscribed : BOOLEAN, deadline : BOOLEAN,
          peers : SUBSET Hosts, enrollment_existing : SUBSET Hosts,
          flash : Blobs, accept : Labels, advertising : BOOLEAN]

-------------------------------------------------------------------------------
(* Durable intent, termination and the single failure path. *)

(* Mutation: the write's answer is not looked at. *)
CommitUnchecked(s, mode, selected, result) ==
    LET next == [valid |-> TRUE, mode |-> mode, selected |-> selected]
    IN  [s EXCEPT !.blob = next, !.persisted = TRUE,
                  !.flash = IF result = "lost" THEN @ ELSE next]

Commit(s, mode, selected, result) ==
    LET next == [valid |-> TRUE, mode |-> mode, selected |-> selected]
    IN  IF result = "ok" THEN [s EXCEPT !.blob = next, !.flash = next, !.persisted = TRUE]
        ELSE [s EXCEPT !.flash = IF result = "torn" THEN next ELSE @, !.persisted = FALSE]

TerminateOnce(s, term) ==
    IF ~s.handle \/ s.terminate_sent THEN s
    ELSE IF term = "absent"
    THEN [s EXCEPT !.handle = FALSE, !.connected_id = NoHost, !.encrypted = FALSE,
                   !.bonded = FALSE, !.hid_ready = FALSE, !.terminate_failed = FALSE]
    ELSE [s EXCEPT !.terminate_sent = TRUE, !.terminate_failed = @ \/ term = "refused",
                   !.state = IF term = "refused" THEN "ERROR" ELSE @]

(* Mutation: the advertiser is left alone. *)
StopIgnored(s, io) == s

StopAdvertising(s, io) == [s EXCEPT !.advertising = @ /\ io.fails = "stop"]

Fail(s, io) ==
    LET closed == [s EXCEPT !.filter_ready = FALSE, !.hid_ready = FALSE,
                            !.input_subscribed = FALSE, !.applied_mode = "PAUSED",
                            !.state = "ERROR", !.deadline = FALSE]
    IN  TerminateOnce(StopAdvertising(Commit(closed, "PAUSED", s.blob.selected, io.pause), io),
                      io.term)

Refresh(s, bonds) == [s EXCEPT !.peers = Known(bonds)]

(* hp_init: volatile state is reset, the policy resumes from flash. *)
InitCore(flash, loaded) ==
    LET blob == IF loaded THEN flash ELSE EmptyBlob
    IN  [requested_mode |-> blob.mode, applied_mode |-> "PAUSED",
         state |-> IF ~loaded THEN "ERROR" ELSE IF blob.mode = "AUTO" THEN "SWITCHING" ELSE "PAUSED",
         target_id |-> blob.selected, connected_id |-> NoHost,
         operation_id |-> 0, connection_generation |-> 0,
         filter_ready |-> FALSE, encrypted |-> FALSE, bonded |-> FALSE,
         hid_ready |-> FALSE, persisted |-> blob.valid, blob |-> blob,
         connected_address |-> Rpa, candidate |-> NoHost,
         candidate_store_started |-> FALSE, terminate_sent |-> FALSE,
         terminate_failed |-> FALSE, enrollment_rejected |-> FALSE,
         handle |-> FALSE, input_subscribed |-> FALSE, deadline |-> FALSE,
         peers |-> {}, enrollment_existing |-> {},
         flash |-> flash, accept |-> NoHost, advertising |-> FALSE]

-------------------------------------------------------------------------------
(* The two permissions every other component asks for. *)

AdvertisingAllowed(s) ==
    s.filter_ready /\ s.state # "ERROR" /\ s.applied_mode # "PAUSED" /\ ~s.handle

InputAllowed(s) ==
    /\ s.handle /\ s.applied_mode = "AUTO" /\ s.state = "CONNECTED"
    /\ s.hid_ready /\ s.encrypted /\ s.bonded /\ s.connected_id = s.target_id

-------------------------------------------------------------------------------
(* hp_tick: the enrollment window, admission once no link is left, and the *)
(* promotion of a proved link.                                             *)

(* Mutation: the timeout does not end the link. *)
CloseKeepsLink(s, io) ==
    LET stopped == StopAdvertising([s EXCEPT !.requested_mode = "PAUSED", !.deadline = FALSE], io)
    IN  IF io.fails = "stop" THEN Fail(stopped, io)
        ELSE [stopped EXCEPT !.filter_ready = FALSE, !.hid_ready = FALSE,
                             !.applied_mode = "PAUSED", !.state = "PAUSED"]

CloseEnrollment(s, io) ==
    LET stopped == StopAdvertising([s EXCEPT !.requested_mode = "PAUSED", !.deadline = FALSE], io)
    IN  IF io.fails = "stop" THEN Fail(stopped, io)
        ELSE TerminateOnce([stopped EXCEPT !.filter_ready = FALSE, !.hid_ready = FALSE,
                                !.applied_mode = "PAUSED", !.state = "PAUSED"], io.term)

ApplyMode(s, bonds, io) ==
    LET read == Refresh(s, bonds)
        auto == s.requested_mode = "AUTO"
    IN  IF s.requested_mode = "PAUSED" THEN [s EXCEPT !.state = "PAUSED"]
        ELSE IF io.fails = "recheck" \/ ~Readable(bonds) THEN Fail(s, io)
        ELSE IF auto /\ ~Resumable(bonds, s.target_id) THEN Fail(read, io)
        ELSE IF io.fails = "filter" THEN Fail(read, io)
        ELSE [read EXCEPT !.applied_mode = s.requested_mode, !.filter_ready = TRUE,
                          !.accept = IF auto THEN s.target_id ELSE NoHost,
                          !.state = IF auto THEN "WAITING" ELSE "ENROLLING"]

SelectNewcomer(s, io) ==
    LET peer == s.connected_address
        written == Commit(s, "AUTO", peer, CommitResult(io))
    IN  IF CommitResult(io) # "ok" THEN Fail(written, io)
        ELSE IF io.fails = "filter" THEN Fail(written, io)
        ELSE [written EXCEPT !.requested_mode = "AUTO", !.applied_mode = "AUTO",
                             !.target_id = peer, !.accept = peer, !.deadline = FALSE,
                             !.hid_ready = TRUE, !.state = "CONNECTED"]

(* Mutation: the stored bond is not asked for. *)
PromoteUnstored(s, bonds, io) ==
    IF io.fails = "recheck" \/ ~Readable(bonds) THEN Fail(s, io)
    ELSE IF s.applied_mode = "ENROLL" THEN SelectNewcomer(Refresh(s, bonds), io)
    ELSE [Refresh(s, bonds) EXCEPT !.hid_ready = TRUE, !.state = "CONNECTED"]

PromoteLink(s, bonds, io) ==
    IF io.fails = "recheck" \/ ~Readable(bonds) THEN Fail(s, io)
    ELSE IF ~Complete(bonds, s.connected_address) THEN Refresh(s, bonds)
    ELSE IF s.applied_mode = "ENROLL" THEN SelectNewcomer(Refresh(s, bonds), io)
    ELSE [Refresh(s, bonds) EXCEPT !.hid_ready = TRUE, !.state = "CONNECTED"]

LinkProved(s) ==
    s.handle /\ ~s.hid_ready /\ s.encrypted /\ s.bonded /\ s.input_subscribed

(* "expired" says whether the enrollment deadline has passed.  Applying a   *)
(* mode needs no link and promotion needs one, so a tick does one at most.  *)
Tick(s, expired, bonds, io) ==
    IF s.state = "ERROR" THEN s
    ELSE IF s.requested_mode = "ENROLL" /\ s.deadline /\ expired THEN CloseEnrollment(s, io)
    ELSE IF s.state = "SWITCHING" /\ ~s.handle THEN ApplyMode(s, bonds, io)
    ELSE IF LinkProved(s) THEN PromoteLink(s, bonds, io)
    ELSE s

-------------------------------------------------------------------------------
(* hp_request *)

(* The explicit intent forgets a failed termination and every readiness. *)
NewIntent(s, mode, operation) ==
    [s EXCEPT !.operation_id = operation, !.requested_mode = mode,
              !.terminate_sent = @ /\ ~s.terminate_failed, !.terminate_failed = FALSE,
              !.filter_ready = FALSE, !.hid_ready = FALSE, !.input_subscribed = FALSE,
              !.candidate = NoHost, !.candidate_store_started = FALSE, !.deadline = FALSE]

(* Mutation: the old link is kept. *)
SwitchKeepsLink(s, mode, selected, bonds, io) ==
    LET written == Commit(s, IF mode = "AUTO" THEN "AUTO" ELSE "PAUSED", selected, CommitResult(io))
        stopped == StopAdvertising([written EXCEPT !.target_id = selected], io)
    IN  IF CommitResult(io) # "ok" THEN Fail(written, io)
        ELSE IF io.fails = "stop" THEN Fail(stopped, io)
        ELSE Tick([stopped EXCEPT !.state = "SWITCHING", !.applied_mode = "PAUSED"], FALSE, bonds, io)

(* Stop, release the old link once, then let the tick apply the mode. *)
BeginSwitch(s, mode, selected, bonds, io) ==
    LET written == Commit(s, IF mode = "AUTO" THEN "AUTO" ELSE "PAUSED", selected, CommitResult(io))
        stopped == StopAdvertising([written EXCEPT !.target_id = selected], io)
    IN  IF CommitResult(io) # "ok" THEN Fail(written, io)
        ELSE IF io.fails = "stop" THEN Fail(stopped, io)
        ELSE Tick(TerminateOnce([stopped EXCEPT !.state = "SWITCHING", !.applied_mode = "PAUSED"],
                                io.term),
                  FALSE, bonds, io)

Request(s, mode, target, operation, bonds, io) ==
    LET intent == NewIntent(s, mode, operation)
        read == Refresh(intent, bonds)
        selected == IF mode = "AUTO" /\ target # NoHost THEN target ELSE s.blob.selected
        full == Cardinality(Known(bonds)) >= MaxPeers
    IN  IF io.fails = "refresh" \/ ~Readable(bonds) THEN Fail(intent, io)
        ELSE IF mode = "AUTO"
        THEN IF Resumable(bonds, selected) THEN BeginSwitch(read, mode, selected, bonds, io)
             ELSE Fail(read, io)
        ELSE IF target # NoHost THEN Fail(read, io)
        ELSE IF mode = "PAUSED" THEN BeginSwitch(read, mode, selected, bonds, io)
        ELSE IF full \/ io.fails = "reserve" THEN Fail(read, io)
        ELSE BeginSwitch([read EXCEPT !.deadline = TRUE, !.enrollment_existing = Known(bonds)],
                         mode, selected, bonds, io)

-------------------------------------------------------------------------------
(* Link callbacks.  Each carries the generation given out at admission. *)

(* Mutation: hosts known before the window are not excluded. *)
MismatchedCandidate(s, address) == s.candidate # NoHost /\ address # s.candidate

Mismatched(s, address) ==
    address \in s.enrollment_existing \/ (s.candidate # NoHost /\ address # s.candidate)

Admits(s, address) ==
    /\ AdvertisingAllowed(s)
    /\ s.applied_mode = "AUTO" =>
          address \in Hosts /\ address = s.target_id /\ address = s.blob.selected
    /\ s.applied_mode = "ENROLL" /\ address \in Hosts => ~Mismatched(s, address)

Connect(s, address) ==
    LET known == address \in Hosts
    IN  IF ~Admits(s, address) THEN s
        ELSE [s EXCEPT !.handle = TRUE, !.terminate_sent = FALSE, !.terminate_failed = FALSE,
                       !.input_subscribed = FALSE, !.enrollment_rejected = FALSE,
                       !.connection_generation = @ + 1, !.connected_address = address,
                       !.connected_id = IF known THEN address ELSE NoHost,
                       !.encrypted = FALSE, !.bonded = FALSE, !.hid_ready = FALSE,
                       !.candidate = IF s.applied_mode = "ENROLL" /\ known THEN address ELSE @]

(* Mutation: the handle alone identifies the link. *)
CurrentHandle(s, generation) == s.handle

Current(s, generation) == s.handle /\ generation = s.connection_generation

RejectApplies(s, generation) ==
    /\ s.applied_mode = "ENROLL" /\ s.requested_mode = "ENROLL" /\ s.state # "ERROR"
    /\ Current(s, generation)

RejectEnrollmentLink(s, io) ==
    IF s.enrollment_rejected THEN s
    ELSE TerminateOnce([s EXCEPT !.enrollment_rejected = TRUE,
                                 !.candidate = IF s.candidate_store_started THEN @ ELSE NoHost,
                                 !.connected_id = NoHost, !.encrypted = FALSE, !.bonded = FALSE,
                                 !.filter_ready = FALSE, !.hid_ready = FALSE,
                                 !.input_subscribed = FALSE, !.state = "SWITCHING"], io.term)

Identity(s, generation, address, io) ==
    LET resolved == [s EXCEPT !.connected_address = address, !.connected_id = address]
    IN  IF ~Current(s, generation) \/ s.state = "ERROR" \/ s.enrollment_rejected THEN s
        ELSE IF address \notin Hosts \/ (s.applied_mode = "AUTO" /\ address # s.blob.selected)
        THEN Fail(s, io)
        ELSE IF s.applied_mode # "ENROLL" THEN resolved
        ELSE IF ~Mismatched(s, address) THEN [resolved EXCEPT !.candidate = address]
        ELSE IF RejectApplies(s, generation) THEN RejectEnrollmentLink(s, io)
        ELSE Fail(s, io)

Security(s, generation, encrypted, bonded, error, io) ==
    LET seen == [s EXCEPT !.encrypted = encrypted, !.bonded = bonded,
                          !.hid_ready = @ /\ encrypted /\ bonded]
    IN  IF ~Current(s, generation) \/ s.enrollment_rejected THEN s
        ELSE IF error \/ ~encrypted THEN Fail(seen, io)
        ELSE seen

Subscribe(s, generation, enabled) ==
    IF ~Current(s, generation) \/ s.enrollment_rejected THEN s
    ELSE [s EXCEPT !.hid_ready = @ /\ s.input_subscribed = enabled,
                   !.input_subscribed = enabled]

Disconnect(s, generation) ==
    IF ~Current(s, generation) THEN s
    ELSE [s EXCEPT !.handle = FALSE, !.connected_id = NoHost, !.encrypted = FALSE,
                   !.bonded = FALSE, !.hid_ready = FALSE, !.input_subscribed = FALSE,
                   !.terminate_sent = FALSE, !.terminate_failed = FALSE,
                   !.state = IF @ = "ERROR" THEN @ ELSE "SWITCHING"]

-------------------------------------------------------------------------------
(* The bond store asks before it writes; an enrollment candidate is latched *)
(* by its first record.  hp_set_alias rewrites the blob under the same mode; *)
(* its caller turns every error it returns into hp_fail.                    *)

EnrollsRecord(s, h) ==
    /\ s.applied_mode = "ENROLL" /\ s.handle
    /\ h \notin s.enrollment_existing
    /\ s.candidate # NoHost => h = s.candidate

StoreAllowed(s, h, security, exists, same_keys) ==
    /\ s.state # "ERROR" /\ ~s.enrollment_rejected
    /\ IF exists /\ security THEN same_keys
       ELSE IF s.applied_mode = "AUTO" THEN h = s.blob.selected /\ (~security \/ exists)
       ELSE EnrollsRecord(s, h)

StoreStarted(s, h, security, exists) ==
    IF (exists /\ security) \/ s.applied_mode = "AUTO" THEN s
    ELSE [s EXCEPT !.candidate = h, !.candidate_store_started = TRUE]

SetAlias(s, h, operation, bonds, io) ==
    LET begun == [s EXCEPT !.operation_id = operation]
        written == Commit(begun, s.blob.mode, s.blob.selected, CommitResult(io))
    IN  IF h \notin s.peers THEN Fail(begun, io)
        ELSE IF CommitResult(io) # "ok" THEN Fail(written, io)
        ELSE IF io.fails = "recheck" \/ ~Readable(bonds) THEN Fail(written, io)
        ELSE Refresh(written, bonds)

(* bleio_host_policy_sync: the stack (re)started, nothing is admitted yet. *)
Sync(s, bonds, io) ==
    LET idle == [s EXCEPT !.filter_ready = FALSE, !.hid_ready = FALSE, !.advertising = FALSE]
    IN  IF io.fails = "refresh" \/ ~Readable(bonds) THEN Fail(idle, io)
        ELSE IF s.state = "ERROR" THEN Refresh(idle, bonds)
        ELSE [Refresh(idle, bonds) EXCEPT !.applied_mode = "PAUSED", !.state = "SWITCHING"]
=============================================================================

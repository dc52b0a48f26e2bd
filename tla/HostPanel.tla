------------------------------- MODULE HostPanel -------------------------------
(***************************************************************************)
(* The panel's end of the host-control protocol (ble_host_policy.h): what  *)
(* it has observed (Decoder), whether the controller knows it (admission), *)
(* and the one request it follows (Control).  A record; an operator is a   *)
(* method.  Timers may pass at any time; serial numbers do not wrap.       *)
(***************************************************************************)
EXTENDS HostPublisher

Results == {"IDLE", "PENDING", "CONFIRMED", "REJECTED", "FAILED", "TIMED_OUT", "SUPERSEDED",
            "RESTARTED", "NOT_SENT", "WAITING_HOST", "PAIRING", "ENROLLMENT_ENDED"}
NoList == [gen |-> 0, peers |-> [h \in Hosts |-> "absent"]]
BlankStatus == [kind |-> "none", client |-> 0, request |-> 0, result |-> 0, error |-> 0, op |-> 0,
                ready |-> FALSE, native |-> NoStatus]

(* The constructor; "counter" is sequence_, "session" the decoder's. *)
InitPanel(client) ==
    [client |-> client, counter |-> 0, session |-> 0, observed |-> 0,
     status |-> BlankStatus, sseq |-> 0, sfresh |-> FALSE, list |-> NoList, lseq |-> 0, lfresh |-> FALSE,
     admitted |-> 0, waiting |-> FALSE, challenge |-> 0, shake |-> 0,
     selected |-> NoHost, pending |-> FALSE, own |-> FALSE, opcode |-> "LIST", request |-> 0,
     target |-> NoHost, baseline |-> 0, baseOp |-> 0, operation |-> 0, result |-> "IDLE"]

-------------------------------------------------------------------------------
(* Decoder: the observations. *)

CoherentList(q) == q.sfresh /\ q.lfresh /\ q.list.gen = q.status.native.bonds

Find(q, h) == CoherentList(q) /\ h \in Saved(q.list.peers)
Holding(q) == q.waiting \/ (q.pending /\ q.result \in {"PENDING", "PAIRING"})
CanManage(q) == q.admitted = q.session /\ q.admitted # 0 /\ q.sfresh

(* accept() of a complete packet: the first of a boot drops what an        *)
(* earlier boot said.                                                      *)
CommitSession(q, session) ==
    IF q.session = session THEN q
    ELSE [q EXCEPT !.session = session, !.sseq = 0, !.lseq = 0, !.sfresh = FALSE, !.lfresh = FALSE]

Observe(q, packet, seq) ==
    LET r == CommitSession(q, packet.session)
    IN  IF packet.kind = "status"
        THEN IF seq <= r.sseq THEN q ELSE [r EXCEPT !.status = packet, !.sseq = seq, !.sfresh = TRUE]
        ELSE IF seq <= r.lseq THEN q
        ELSE [r EXCEPT !.list = [gen |-> packet.gen, peers |-> packet.peers], !.lseq = seq, !.lfresh = TRUE]

-------------------------------------------------------------------------------
(* Control: the admission and the request. *)

(* finish(); what only a pending request reads is blanked. *)
Finish(q, result) ==
    [q EXCEPT !.pending = FALSE, !.result = result, !.own = FALSE, !.baseline = 0, !.baseOp = 0]
Defer(q) == [q EXCEPT !.waiting = FALSE]
ResetAdmission(q) ==
    [q EXCEPT !.admitted = 0, !.waiting = FALSE, !.challenge = 0, !.shake = 0]

InvalidateLink(q) ==
    LET r == ResetAdmission([q EXCEPT !.sfresh = FALSE, !.lfresh = FALSE, !.selected = NoHost, !.observed = 0])
    IN  Finish(r, IF Holding(q) THEN "RESTARTED" ELSE "IDLE")

HandshakeAnswer(q) == q.status.client = q.client /\ q.status.request = q.shake

Admission(q) ==
    IF ~(q.waiting /\ q.sfresh /\ q.sseq > q.challenge /\ HandshakeAnswer(q)) THEN q
    ELSE IF q.status.result = Listed /\ q.status.ready /\ CoherentList(q)
    THEN [q EXCEPT !.admitted = q.session, !.waiting = FALSE,
                   !.result = IF q.pending THEN @ ELSE "IDLE"]
    ELSE IF q.status.result = Rejected THEN Defer(q) ELSE q

(* The operation a status names for this request, once it is not the one   *)
(* that ran when the request was made.                                     *)
Follow(q, op) == IF op # 0 /\ op # q.baseOp THEN op ELSE q.operation

(* What a ready status of the own operation says of the request. *)
Outcome(q) ==
    LET s == q.status.native
        paused == s.state = "PAUSED" /\ s.requested = "PAUSED" /\ s.applied = "PAUSED"
        idle == paused /\ s.connected = NoHost
        connected == /\ s.state = "CONNECTED" /\ s.requested = "AUTO" /\ s.applied = "AUTO"
                     /\ s.connected = s.target /\ s.target # NoHost
        waiting == s.state = "WAITING" /\ s.requested = "AUTO" /\ s.applied = "AUTO"
        done == CASE q.opcode = "DISCONNECT" -> idle
                  [] q.opcode = "SELECT" -> connected /\ s.target = q.target
                  [] q.opcode = "ENROLL" -> connected
                  [] q.opcode = "ALIAS" -> /\ q.status.result = Applied
                                           /\ Find(q, q.target) /\ q.list.peers[q.target] = "named"
                  [] OTHER -> FALSE
        ended == q.opcode = "ENROLL" /\ (IF s.error = "none" THEN paused ELSE idle /\ s.error = "timeout")
    IN  CASE ended -> "ENROLLMENT_ENDED"
          [] ~ended /\ (s.state = "ERROR" \/ s.error # "none") -> "FAILED"
          [] s.state # "ERROR" /\ s.error = "none" /\ done -> "CONFIRMED"
          [] s.error = "none" /\ q.opcode = "SELECT" /\ s.target = q.target /\ waiting -> "WAITING_HOST"
          [] s.error = "none" /\ q.opcode = "ENROLL" /\ s.state = "ENROLLING" -> "PAIRING"
          [] OTHER -> q.result

Conclude(q, outcome) ==
    IF outcome \in {"PENDING", "PAIRING", "WAITING_HOST"} THEN [q EXCEPT !.result = outcome]
    ELSE Finish(q, outcome)

Judge(q) ==
    LET s == q.status
        mine == s.client = q.client /\ s.request = q.request
        seen == [q EXCEPT !.own = TRUE]
        refused == IF s.error = BadHandshake THEN Defer([seen EXCEPT !.admitted = 0]) ELSE seen
        followed == [seen EXCEPT !.operation = Follow(q, s.op)]
        other == q.operation # 0 /\ Follow(q, s.op) # q.operation
    IN  CASE ~q.pending \/ ~q.sfresh \/ q.sseq <= q.baseline -> q
          [] q.pending /\ q.sfresh /\ q.sseq > q.baseline /\ ~mine ->
                 IF q.own /\ s.result \in {Accepted, Applied, Listed} THEN Finish(q, "SUPERSEDED") ELSE q
          [] q.pending /\ q.sfresh /\ q.sseq > q.baseline /\ mine ->
                 IF s.result = Rejected THEN Finish(refused, "REJECTED")
                 ELSE IF other THEN Finish(seen, "SUPERSEDED")
                 ELSE IF followed.operation # 0 /\ s.op = followed.operation /\ s.ready
                 THEN Conclude(followed, Outcome(followed)) ELSE followed

Tick(q) ==
    LET met == [q EXCEPT !.observed = IF q.session = 0 THEN @ ELSE q.session,
                         !.admitted = IF q.sfresh THEN @ ELSE 0]
        let == Admission(met)
        kept == [let EXCEPT !.selected = IF CoherentList(let) /\ ~Find(let, @) THEN NoHost ELSE @]
    IN  IF q.session # 0 /\ q.observed # 0 /\ q.session # q.observed
        THEN Finish(ResetAdmission([q EXCEPT !.observed = q.session, !.selected = NoHost]), "RESTARTED")
        ELSE Judge(kept)

Command(q, opcode, request, target, gen) ==
    [session |-> q.session, client |-> q.client, request |-> request, opcode |-> opcode,
     gen |-> gen, target |-> target]

(* handshake_request(): a new challenge is a STATUS not yet used for one. *)
CanShake(q) ==
    /\ q.sfresh /\ ~CanManage(q) /\ ~Holding(q)
    /\ q.challenge # q.sseq

HandshakeCommand(q) == Command(q, "LIST", q.counter + 1, NoHost, q.sseq)
Handshake(q) ==
    [q EXCEPT !.pending = FALSE, !.counter = @ + 1, !.shake = q.counter + 1, !.challenge = q.sseq,
              !.waiting = TRUE]

(* begin(), behind the buttons of ble_host_ui.cpp. *)
CanBegin(q, opcode) ==
    /\ CanManage(q)
    /\ opcode # "DISCONNECT" => ~Holding(q)
    /\ opcode \in {"SELECT", "ALIAS"} => Find(q, q.selected)
    /\ opcode = "SELECT" => Resumable(q.list.peers, q.selected)
    /\ opcode = "ENROLL" => CoherentList(q) /\ Saved(q.list.peers) # Hosts

Aimed(q, opcode) == IF opcode \in {"SELECT", "ALIAS"} THEN q.selected ELSE NoHost
BeginCommand(q, opcode) ==
    Command(q, opcode, q.counter + 1, Aimed(q, opcode),
            IF opcode \in {"SELECT", "ALIAS"} THEN q.status.native.bonds ELSE 0)
Begin(q, opcode) ==
    [q EXCEPT !.counter = @ + 1, !.request = q.counter + 1, !.opcode = opcode, !.target = Aimed(q, opcode),
              !.baseline = q.sseq, !.baseOp = q.status.native.op, !.operation = 0, !.own = FALSE,
              !.pending = TRUE, !.result = "PENDING"]
===============================================================================

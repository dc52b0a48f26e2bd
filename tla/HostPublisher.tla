----------------------------- MODULE HostPublisher -----------------------------
(***************************************************************************)
(* The controller's end of the host-control protocol (lib/remote/          *)
(* host_policy.py): requests in, STATUS and LIST packets out.  A record;   *)
(* an operator is a method.                                                *)
(*   - A packet is its content: a receiver that misses one fragment never  *)
(*     completes it, so it arrives whole or not at all.                    *)
(*   - The age limits (a challenge 3 s, a packet 2 s) may pass, and a      *)
(*     STATUS or a LIST may be due, at any time.                           *)
(*   - Serial numbers do not wrap.                                         *)
(***************************************************************************)
EXTENDS HostOwner

(* The numbers of the wire: results, then the errors that matter. *)
Accepted == 1
Rejected == 2
Applied == 3
Listed == 4
BadHandshake == 11

Opcodes == {"LIST", "DISCONNECT", "SELECT", "ENROLL", "ALIAS"}
ModeOf == [DISCONNECT |-> "PAUSED", SELECT |-> "AUTO", ENROLL |-> "ENROLL"]
NoPacket == [kind |-> "none"]
NoRequest == [client |-> 0, request |-> 0, gen |-> 0]

InitPublisher(session) ==
    [session |-> session, client |-> 0, request |-> 0, result |-> 0, error |-> 0,
     last |-> 0, established |-> FALSE, handshake |-> NoRequest, policy |-> FALSE,
     alias |-> FALSE, echo |-> TRUE, seq |-> 0, out |-> NoPacket, fate |-> "none",
     challenges |-> {}, rejection |-> NoRequest]

(* _observe_completion(): only a STATUS whose every fragment was           *)
(* acknowledged is a challenge.  The answer may still be out.              *)
ObserveCompletion(p, fate) ==
    IF p.fate = "none" \/ fate = "pending" THEN p
    ELSE [p EXCEPT !.fate = "none", !.out = NoPacket,
                   !.challenges = IF fate = "acknowledged" /\ p.out.kind = "status"
                                  THEN @ \cup {p.seq} ELSE @]

(* Mutation: the panel goes on reading an answer to its own request. *)
NoteNothing(p) == p

(* note_legacy_request(): somebody else asked the policy for something. *)
NoteLegacy(p) ==
    [p EXCEPT !.echo = FALSE, !.policy = FALSE, !.alias = FALSE, !.result = 0, !.error = 0]

-------------------------------------------------------------------------------
(* request_host() and _request_action(), from the completion that was      *)
(* looked at first: the publisher and the owner after it.                  *)

Answer(p, result, error) == [p EXCEPT !.result = result, !.error = error]

Refusal(o, cmd) ==
    IF cmd.opcode \notin {"SELECT", "ALIAS"} THEN 0
    ELSE IF ~Ready(o) THEN 10
    ELSE IF ~Coherent(o) \/ cmd.gen # o.status.bonds THEN 4
    ELSE IF cmd.target \notin Saved(o.peers) THEN 5
    ELSE IF cmd.opcode = "SELECT" /\ ~Resumable(o.peers, cmd.target) THEN 5 ELSE 0

Act(p, o, cmd) ==
    LET by == [client |-> cmd.client, request |-> cmd.request, opcode |-> cmd.opcode,
               target |-> cmd.target, gen |-> cmd.gen]
        queued == [Answer(p, Accepted, 0) EXCEPT !.policy = TRUE, !.alias = cmd.opcode = "ALIAS"]
    IN  CASE Refusal(o, cmd) # 0 -> [pub |-> Answer(p, Rejected, Refusal(o, cmd)), own |-> o]
          [] Refusal(o, cmd) = 0 /\ cmd.opcode = "LIST" ->
                 [pub |-> Answer(p, Listed, 0), own |-> o]
          [] Refusal(o, cmd) = 0 /\ cmd.opcode = "ALIAS" ->
                 IF AliasTaken(o) THEN [pub |-> queued, own |-> RequestAlias(o, cmd.target, by)]
                 ELSE [pub |-> Answer(p, Rejected, 6), own |-> o]
          [] Refusal(o, cmd) = 0 /\ cmd.opcode \in DOMAIN ModeOf ->
                 [pub |-> queued, own |-> Request(o, ModeOf[cmd.opcode], cmd.target, by)]

Accept(p, o, cmd) ==
    Act([p EXCEPT !.client = cmd.client, !.request = cmd.request, !.last = cmd.request,
                  !.rejection = NoRequest, !.echo = TRUE, !.result = Rejected, !.error = 0,
                  !.policy = FALSE, !.alias = FALSE], o, cmd)

(* Mutation: a repeated request is taken again. *)
RepeatTaken(p, cmd) == TRUE
Newer(p, cmd) == p.last = 0 \/ cmd.request > p.last

Admits(p, o, cmd) ==
    cmd.opcode = "LIST" /\ Ready(o) /\ Coherent(o) /\ cmd.gen \in p.challenges

RequestHost(p, o, cmd) ==
    LET shake == [client |-> cmd.client, request |-> cmd.request, gen |-> cmd.gen]
        new == ~p.established \/ cmd.client # p.client
    IN  CASE cmd.session # p.session -> [pub |-> p, own |-> o]
          [] cmd.session = p.session /\ new /\ ~Admits(p, o, cmd) ->
                 [pub |-> [p EXCEPT !.rejection = shake], own |-> o]
          [] cmd.session = p.session /\ new /\ Admits(p, o, cmd) ->
                 Accept([p EXCEPT !.challenges = @ \ {cmd.gen}, !.established = TRUE,
                                  !.handshake = shake], o, cmd)
          [] cmd.session = p.session /\ ~new /\ cmd.opcode = "LIST" /\ p.handshake = shake ->
                 [pub |-> p, own |-> o]
          [] cmd.session = p.session /\ ~new /\ ~(cmd.opcode = "LIST" /\ p.handshake = shake) ->
                 IF Newer(p, cmd) THEN Accept(p, o, cmd) ELSE [pub |-> p, own |-> o]

-------------------------------------------------------------------------------
(* tick(): the results that the owner decides, then the next packet. *)

Settle(p, o) ==
    LET failed == p.result = Accepted /\ o.error # 0
        named == p.alias /\ AliasComplete(o)
    IN  [p EXCEPT !.result = IF failed THEN Rejected ELSE IF named THEN Applied ELSE @,
                  !.error = IF failed THEN o.error ELSE @,
                  !.alias = @ /\ ~named]

ResultTold(p) == IF p.rejection # NoRequest THEN Rejected ELSE p.result

StatusPacket(p, o) ==
    LET told == p.rejection # NoRequest
        status == o.status
    IN  [kind |-> "status", session |-> p.session,
         client |-> IF told THEN p.rejection.client ELSE IF p.echo THEN p.client ELSE 0,
         request |-> IF told THEN p.rejection.request ELSE IF p.echo THEN p.request ELSE 0,
         result |-> ResultTold(p),
         error |-> IF told THEN BadHandshake ELSE IF p.error # 0 THEN p.error ELSE o.error,
         op |-> IF ~told /\ p.policy THEN o.expected ELSE status.op,
         ready |-> Ready(o), native |-> status]

ListPacket(p, o) == [kind |-> "list", session |-> p.session, gen |-> o.peerGen, peers |-> o.peers]

(* A LIST is due with a known generation; one that is not the status's     *)
(* raises (list_payload), and nothing above this tick catches it.          *)
ListRaises(p, o, kind) == p.out = NoPacket /\ kind = "list" /\ o.peerGen # 0 /\ ~Coherent(o)

Publish(p, o, kind) ==
    CASE p.out # NoPacket \/ kind = "nothing" -> p
      [] p.out = NoPacket /\ kind = "status" ->
             [p EXCEPT !.out = StatusPacket(p, o), !.seq = @ + 1, !.rejection = NoRequest]
      [] p.out = NoPacket /\ kind = "list" ->
             IF ~Coherent(o) THEN p
             ELSE [p EXCEPT !.out = ListPacket(p, o), !.seq = @ + 1]
===============================================================================

------------------------------- MODULE HostOwner -------------------------------
(***************************************************************************)
(* The CircuitPython owner of the native host policy (lib/blehid/          *)
(* host_policy.py) above what it sees of the policy: a one-slot request    *)
(* queue, an observed status and the list of saved hosts.  Both are        *)
(* records; an operator is a method, from the record to the next one.      *)
(*   - The policy itself (HostPolicyCore) is cut down to the states a      *)
(*     client can tell apart: it is ready, or it has failed, or it waits.  *)
(*   - A saved host is "plain", "named" once it has its new alias, "lost"  *)
(*     while its record does not read back, or "absent".                   *)
(*   - "by" is who asked for an operation: history, which no code reads.   *)
(***************************************************************************)
EXTENDS Naturals, FiniteSets, Sequences

CONSTANTS
    Hosts,      \* computers that may be saved
    NoHost,
    MaxGen      \* bound on the bond generations

ASSUME OwnerAssumption == NoHost \notin Hosts /\ MaxGen \in Nat \ {0}

Modes == {"PAUSED", "AUTO", "ENROLL", "ALIAS"}
Marks == {"absent", "lost", "plain", "named"}
NoCmd == [mode |-> "NONE", target |-> NoHost]
NoStatus == [state |-> "UNKNOWN", op |-> 0, bonds |-> 0]
Resumable(peers, h) == h \in Hosts /\ peers[h] \in {"plain", "named"}
Saved(peers) == {h \in Hosts : peers[h] # "absent"}

-------------------------------------------------------------------------------
(* What the owner sees of the native policy. *)

InitNative(peers) ==
    [status |-> [op |-> 0, requested |-> "PAUSED", applied |-> "PAUSED", state |-> "PAUSED",
                 target |-> NoHost, connected |-> NoHost, error |-> "none", bonds |-> 1],
     queue |-> NoCmd, peers |-> peers, peersAt |-> <<peers>>, asked |-> <<>>, done |-> {}]

(* bleio_host_policy_status(): a queued request already reads as a switch. *)
Observed(n) == IF n.queue = NoCmd THEN n.status ELSE [n.status EXCEPT !.state = "SWITCHING"]

(* hp_submit(): only a pause replaces the request that waits. *)
QueueTakes(n, cmd) == n.queue = NoCmd \/ cmd.mode = "PAUSED"

Submit(n, cmd) ==
    [n EXCEPT !.queue = [mode |-> cmd.mode, target |-> cmd.target, op |-> Len(n.asked) + 1],
              !.asked = Append(@, cmd.by)]

(* The operation has come to what it was asked for. *)
Reached(n) ==
    LET s == n.status
    IN  CASE s.op = 0 -> FALSE
          [] n.asked[s.op].opcode = "DISCONNECT" ->
                 s.state = "PAUSED" /\ s.requested = "PAUSED" /\ s.connected = NoHost /\ s.error = "none"
          [] n.asked[s.op].opcode = "SELECT" ->
                 s.state = "CONNECTED" /\ s.connected = n.asked[s.op].target
          [] n.asked[s.op].opcode = "ENROLL" -> s.state = "CONNECTED"
          [] n.asked[s.op].opcode = "ALIAS" ->
                 s.error = "none" /\ n.peers[n.asked[s.op].target] = "named"

Mark(n) == [n EXCEPT !.done = IF Reached(n) THEN @ \cup {n.status.op} ELSE @]

SetPeers(n, peers) ==
    [n EXCEPT !.peers = peers, !.peersAt = Append(@, peers), !.status.bonds = @ + 1]

Served(n, fails) ==
    LET c == n.queue
        taken == [n EXCEPT !.queue = NoCmd, !.status.op = c.op,
                           !.status.requested = IF c.mode = "ALIAS" THEN @ ELSE c.mode]
        failed == [taken EXCEPT !.status.state = "ERROR", !.status.applied = "PAUSED",
                                !.status.error = "failed"]
        started == [taken EXCEPT !.status.applied = "PAUSED", !.status.state = "SWITCHING",
                                 !.status.error = "none",
                                 !.status.target = IF c.mode = "AUTO" THEN c.target ELSE @]
        possible == CASE c.mode = "ALIAS" -> c.target \in Saved(n.peers)
                      [] c.mode = "AUTO" -> Resumable(n.peers, c.target)
                      [] c.mode = "ENROLL" -> Saved(n.peers) # Hosts
                      [] c.mode = "PAUSED" -> TRUE
    IN  CASE c = NoCmd \/ (c.mode = "ALIAS" /\ Len(n.peersAt) = MaxGen) -> {}
          [] c # NoCmd /\ (~possible \/ fails) -> {failed}
          [] c # NoCmd /\ ~fails /\ possible /\ c.mode = "ALIAS" ->
                 {SetPeers(taken, [n.peers EXCEPT ![c.target] = "named"])}
          [] c # NoCmd /\ ~fails /\ possible /\ c.mode # "ALIAS" -> {started}

(* hp_tick() without a link: the request is applied, after a refresh that  *)
(* may find a record gone bad.                                             *)
Settled(n) ==
    LET s == n.status
    IN  CASE s.state # "SWITCHING" \/ s.connected # NoHost -> {}
          [] s.requested = "PAUSED" -> {[n EXCEPT !.status.state = "PAUSED"]}
          [] s.requested = "AUTO" ->
                 {IF Resumable(n.peers, s.target)
                  THEN [n EXCEPT !.status.state = "WAITING", !.status.applied = "AUTO"]
                  ELSE [n EXCEPT !.status.state = "ERROR", !.status.error = "failed"]}
          [] s.requested = "ENROLL" ->
                 {[n EXCEPT !.status.state = "ENROLLING", !.status.applied = "ENROLL"]}

Spoilt(n) ==
    IF n.status.state # "SWITCHING" \/ n.status.connected # NoHost \/ n.status.requested # "AUTO" THEN {}
    ELSE UNION {Settled(SetPeers(n, [n.peers EXCEPT ![h] = "lost"])) : h \in
                    {g \in Hosts : n.peers[g] = "plain" /\ Len(n.peersAt) < MaxGen}}

(* A link is counted once it is encrypted and subscribed. *)
Linked(n) ==
    LET s == n.status
        up(m, h) == [m EXCEPT !.status.state = "CONNECTED", !.status.connected = h, !.status.target = h,
                              !.status.requested = "AUTO", !.status.applied = "AUTO"]
    IN  CASE s.state = "WAITING" -> {up(n, s.target)}
          [] s.state = "ENROLLING" /\ Len(n.peersAt) < MaxGen ->
                 {up(SetPeers(n, [n.peers EXCEPT ![h] = "plain"]), h) : h \in Hosts \ Saved(n.peers)}
          [] OTHER -> {}

Dropped(n) ==
    IF n.status.connected = NoHost THEN {}
    ELSE {[n EXCEPT !.status.connected = NoHost,
                    !.status.state = IF @ = "ERROR" THEN @ ELSE "SWITCHING"]}

Expired(n) ==
    IF n.status.requested # "ENROLL" \/ n.status.state = "ERROR" THEN {}
    ELSE {[n EXCEPT !.status.state = "PAUSED", !.status.requested = "PAUSED",
                    !.status.applied = "PAUSED", !.status.error = "timeout"]}

(* hp_init() after a restart: a saved policy is applied again. *)
Restarted(s) ==
    LET kept == s.requested = "AUTO" /\ s.state # "ERROR"
    IN  [s EXCEPT !.op = 0, !.requested = IF kept THEN "AUTO" ELSE "PAUSED", !.applied = "PAUSED",
                  !.state = IF kept THEN "SWITCHING" ELSE "PAUSED", !.connected = NoHost, !.error = "none"]

(* What the policy does when all goes well, and what may go wrong. *)
NativeSteps(n) ==
    {Mark(m) : m \in Served(n, FALSE) \cup Settled(n) \cup Linked(n)
                      \cup IF n.status.state = "CONNECTED" THEN {} ELSE Dropped(n)}
NativeTroubles(n) ==
    {Mark(m) : m \in Served(n, TRUE) \cup Spoilt(n) \cup Expired(n)
                      \cup IF n.status.state = "CONNECTED" THEN Dropped(n) ELSE {}}

-------------------------------------------------------------------------------
(* The owner.  "error" is 7 for a native call that raised, 10 for a read.  *)

InitOwner(n) ==
    [pending |-> NoCmd, expected |-> 0, status |-> n.status, peers |-> n.peers,
     peerGen |-> n.status.bonds, error |-> 0, failed |-> FALSE, alias |-> NoHost, blocked |-> FALSE]

Ready(o) ==
    /\ o.error = 0 /\ o.pending = NoCmd
    /\ o.expected = 0 \/ o.status.op = o.expected

Request(o, mode, target, by) ==
    [o EXCEPT !.pending = [mode |-> mode, target |-> target, by |-> by], !.blocked = TRUE,
              !.expected = 0, !.alias = NoHost, !.error = 0, !.failed = FALSE]

AliasTaken(o) == o.pending = NoCmd
RequestAlias(o, h, by) ==
    [o EXCEPT !.pending = [mode |-> "ALIAS", target |-> h, by |-> by], !.expected = 0,
              !.alias = h, !.error = 0, !.failed = FALSE]

AliasComplete(o) ==
    /\ o.alias # NoHost /\ Ready(o) /\ o.status.error = "none"
    /\ o.peers[o.alias] = "named"

(* tick(): one native call at most, then a status, the list of a changed   *)
(* generation and a second status.  "m" is the policy after whatever its   *)
(* task did between the reads; "raises" is a read or a call that fails.    *)
Raised(o, incall) ==
    [o EXCEPT !.failed = @ \/ incall, !.error = IF o.failed \/ incall THEN 7 ELSE 10]

(* Mutation: the list is taken without a look at its generation. *)
LookUnchecked(o, n, m) ==
    LET s == Observed(n)
    IN  [o EXCEPT !.status = s, !.peers = IF o.peerGen = s.bonds THEN @ ELSE m.peers,
                  !.peerGen = s.bonds, !.blocked = FALSE, !.error = IF o.failed THEN @ ELSE 0]

Look(o, n, m) ==
    LET s == Observed(n)
        after == IF o.peerGen = s.bonds THEN s ELSE Observed(m)
    IN  IF o.peerGen # s.bonds /\ m.status.bonds # s.bonds THEN Raised(o, FALSE)
        ELSE [o EXCEPT !.status = after, !.peers = IF o.peerGen = s.bonds THEN @ ELSE m.peers,
                       !.peerGen = s.bonds, !.blocked = FALSE, !.error = IF o.failed THEN @ ELSE 0]

Called(o, n) ==
    IF o.pending = NoCmd THEN o
    ELSE IF ~QueueTakes(n, o.pending) THEN Raised([o EXCEPT !.pending = NoCmd], TRUE)
    ELSE [o EXCEPT !.pending = NoCmd, !.expected = Len(n.asked) + 1,
                   !.peerGen = IF o.pending.mode = "ALIAS" THEN 0 ELSE @]

CallRefused(o, n) == o.pending # NoCmd /\ ~QueueTakes(n, o.pending)
AfterCall(o, n) == IF o.pending = NoCmd \/ CallRefused(o, n) THEN n ELSE Submit(n, o.pending)

AllowsInput(o) ==
    /\ ~o.blocked /\ Ready(o) /\ o.status.state = "CONNECTED"
    /\ o.status.connected = o.status.target

(* validate_input(), before each volume report. *)
ValidateInput(o, n) ==
    LET now == Observed(n)
    IN  IF AllowsInput(o) /\ [now EXCEPT !.bonds = o.status.bonds] # o.status
        THEN [o EXCEPT !.status = now, !.blocked = TRUE] ELSE o

(* Whether the list and the status of the snapshot are of one generation. *)
Coherent(o) == o.peerGen # 0 /\ o.peerGen = o.status.bonds
===============================================================================

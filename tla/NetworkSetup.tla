----------------------------- MODULE NetworkSetup -----------------------------
(***************************************************************************)
(* Wi-Fi enrolment and recovery of the CrowPanel (network_setup.cpp) with  *)
(* the part of its main loop that drives it: the user's modal, the host on *)
(* USB that reads a saved profile, applies it on trial and commits it, the *)
(* Wi-Fi driver, the peer heard by radio, the artwork worker that must be  *)
(* still while a password is on the wire, and sleep.                       *)
(*   - Every age is time since the step that set it.  A join begun in a    *)
(*     tick may be a millisecond younger than the tick's own clock.        *)
(*   - An address comes with the association; a link that was given up     *)
(*     lingers until the driver reports its loss.                          *)
(*   - The screen is not modelled: the setup modal is open when the user   *)
(*     acts and closed when the panel sleeps; any profile may be picked.   *)
(***************************************************************************)
EXTENDS NetworkRecovery, FiniteSets

CONSTANTS
    Profiles,       \* network and password
    Works,          \* the profiles whose password is right
    Sites,          \* the profiles of one access point
    Nonces,         \* what the host names a session
    MaxSaves,       \* bound on the saves of the user
    ConnectTimeout, \* CONNECT_TIMEOUT_MS
    RetryDelay,     \* RETRY_WAIT_MS
    TrialTimeout,   \* TRIAL_TIMEOUT_MS
    ExportWindow    \* EXPORT_WINDOW_MS

ASSUME SetupAssumption ==
    /\ Works \subseteq Profiles /\ UNION Sites = Profiles
    /\ "none" \notin Profiles \cup Nonces
    /\ {ConnectTimeout, RetryDelay, TrialTimeout, ExportWindow, MaxSaves} \subseteq Nat

VARIABLES
    net,    \* network_setup.cpp, the main loop and the worker's pause
    wifi,   \* the driver: the profile it tries, its link, a new address
    log     \* what the host was sent and told, and how long all was well

vars == <<net, wifi, log>>

None == "none"
Somewhere(p, q) == \E site \in Sites : {p, q} \subseteq site

Blank(active, pending) ==
    [active |-> active, pending |-> pending, target |-> None, scan |-> FALSE,
     connecting |-> FALSE, applying |-> FALSE, retry |-> FALSE, enabled |-> FALSE, opAge |-> 0,
     trial |-> FALSE, trialUp |-> FALSE, open |-> FALSE, setupAge |-> 0,
     exportN |-> None, applyN |-> None, commitN |-> None, abortN |-> None, result |-> None,
     completion |-> FALSE, tx |-> FALSE, secret |-> FALSE, draining |-> FALSE, claimed |-> FALSE,
     releasing |-> FALSE, rescan |-> FALSE, policy |-> Disabled, guard |-> NoGuard,
     preparing |-> FALSE, worker |-> "running"]

Unlinked == [want |-> None, link |-> None, auto |-> FALSE, address |-> FALSE]

-------------------------------------------------------------------------------
(* Most steps transform the panel p = [n |-> net, w |-> wifi, l |-> log].  *)

Panel == [n |-> net, w |-> wifi, l |-> log]
Becomes(p) == net' = p.n /\ wifi' = p.w /\ log' = p.l

TargetConnected(p) ==
    p.n.target # None /\ p.w.link # None /\ Somewhere(p.w.link, p.n.target)

CommittedConnected(p) ==
    /\ p.n.enabled /\ ~p.n.connecting /\ ~p.n.trial /\ ~p.n.applying
    /\ p.n.active # None /\ p.n.target # None /\ Somewhere(p.n.target, p.n.active)
    /\ TargetConnected(p)

SerialBusy(n) == n.tx \/ n.claimed \/ n.draining
RadioBusy(n) == n.connecting \/ n.scan \/ n.retry

(* The artwork worker runs jobs, finishes the one it is at, or is idle. *)
Pause(n, idle) ==
    [n EXCEPT !.worker = IF @ # "running" THEN @ ELSE IF idle THEN "idle" ELSE "stopping"]

(* The claim on the worker ends when the last byte of the secret has left. *)
Finish(p) ==
    IF ~p.n.releasing \/ p.n.secret \/ p.n.draining THEN p
    ELSE [p EXCEPT !.n = [@ EXCEPT !.claimed = FALSE, !.releasing = FALSE,
                                   !.worker = IF p.n.claimed THEN "running" ELSE p.n.worker]]
Release(p) == Finish([p EXCEPT !.n.releasing = TRUE])

Revoke(p) == Release([p EXCEPT !.n = [@ EXCEPT !.open = FALSE, !.exportN = None]])

Line(p) == [p EXCEPT !.n.tx = TRUE]

(* A terminal result that the host is told ends its session for good. *)
Tell(p, nonce, result) ==
    [Line(p) EXCEPT !.l.over = IF result \in {"ABORTED", "FAILED"} THEN @ \cup {nonce} ELSE @]

Disconnect(p) == [p EXCEPT !.w = [@ EXCEPT !.auto = FALSE, !.want = None]]
Dark(p) == Disconnect([p EXCEPT !.n.enabled = FALSE])

BeginJoin(p, profile, applying, origin) ==
    [p EXCEPT !.n = [@ EXCEPT !.target = profile, !.applying = applying, !.retry = FALSE,
                              !.enabled = TRUE, !.connecting = TRUE, !.opAge = 0, !.guard = NoGuard,
                              !.policy = IF applying THEN Disabled
                                         ELSE IF origin = "explicit" THEN Enabled ELSE p.n.policy],
              !.w = [@ EXCEPT !.want = profile, !.auto = FALSE, !.address = FALSE]]

AbortTrial(p, automatic) ==
    LET ended == [p.n EXCEPT !.trial = FALSE, !.trialUp = FALSE, !.connecting = FALSE,
                             !.applying = FALSE, !.abortN = p.n.applyN, !.pending = None,
                             !.result = IF automatic THEN "FAILED" ELSE "ABORTED",
                             !.completion = p.n.completion \/ automatic]
        off == Dark(Revoke([p EXCEPT !.n = ended]))
    IN  IF p.n.active # None THEN BeginJoin(off, p.n.active, FALSE, "explicit")
        ELSE [off EXCEPT !.n = [@ EXCEPT !.target = None, !.rescan = TRUE]]

(* A pending profile is loaded, never joined. *)
Begun(active, pending, l) ==
    LET p == [n |-> Blank(active, pending), w |-> Unlinked, l |-> l]
    IN  IF active = None THEN p ELSE BeginJoin(p, active, FALSE, "explicit")

Init ==
    /\ \E active \in Works \cup {None} :
          LET l == [saves |-> 0, sent |-> [n \in Nonces |-> None], over |-> {}, fine |-> FALSE, well |-> 0]
              p == Begun(active, None, l)
          IN  net = p.n /\ wifi = p.w /\ log = p.l

-------------------------------------------------------------------------------
(* A request of the host *)

OpLimit == Larger(ConnectTimeout, RetryDelay)
SetupLimit == Larger(TrialTimeout, ExportWindow + 1)
Expired(n) == ~n.open \/ n.setupAge > ExportWindow

Profile(p, nonce, idle) ==
    LET paused == [p EXCEPT !.n = [Pause(@, idle) EXCEPT !.claimed = TRUE]]
        sent == [Line(paused) EXCEPT !.n = [@ EXCEPT !.exportN = nonce, !.secret = TRUE, !.releasing = TRUE],
                                     !.l.sent[nonce] = p.n.pending]
    IN  IF Expired(p.n) THEN Line(Revoke(p))
        ELSE IF p.n.pending = None \/ p.n.exportN \notin {None, nonce} THEN Line(p)
        ELSE IF paused.n.worker = "idle" THEN sent ELSE Line(paused)

Apply(p, nonce) ==
    IF p.n.applyN = nonce THEN Tell(p, nonce, p.n.result)
    ELSE IF Expired(p.n) \/ p.n.exportN # nonce \/ RadioBusy(p.n) THEN Line(p)
    ELSE LET trial == [p.n EXCEPT !.applyN = nonce, !.result = "APPLYING", !.trial = TRUE,
                                  !.trialUp = FALSE, !.setupAge = 0]
         IN  BeginJoin(Line(Revoke([p EXCEPT !.n = trial])), p.n.pending, TRUE, "explicit")

Committable(p, nonce) ==
    p.n.applyN = nonce /\ p.n.trial /\ p.n.trialUp /\ TargetConnected(p)

Commit(p, nonce, stored) ==
    IF p.n.commitN = nonce \/ ~Committable(p, nonce) \/ ~stored THEN Line(p)
    ELSE Line([p EXCEPT !.n = [@ EXCEPT !.active = p.n.target, !.pending = None, !.trial = FALSE,
                                        !.trialUp = FALSE, !.commitN = nonce, !.result = "COMMITTED",
                                        !.policy = Enabled]])

Abort(p, nonce) ==
    IF p.n.commitN = nonce THEN Line(p)
    ELSE IF p.n.abortN = nonce THEN Tell(p, nonce, "ABORTED")
    ELSE IF ~p.n.trial \/ p.n.applyN # nonce THEN Line(p)
    ELSE Tell(AbortTrial(p, FALSE), nonce, "ABORTED")

Requests == [command : {"profile", "profile busy", "apply", "abort", "commit", "unstored"}, nonce : Nonces]
Silence == [command |-> None]

(* The Windows commands only queue a line, as a refused request does. *)
Handled(p, q) ==
    CASE q.command = "profile"  -> Profile(p, q.nonce, TRUE)
      [] q.command = "profile busy" -> Profile(p, q.nonce, FALSE)
      [] q.command = "apply"    -> Apply(p, q.nonce)
      [] q.command = "abort"    -> Abort(p, q.nonce)
      [] q.command = "commit"   -> Commit(p, q.nonce, TRUE)
      [] q.command = "unstored" -> Commit(p, q.nonce, FALSE)

Written(p, sent) ==
    IF ~sent \/ ~p.n.tx THEN p
    ELSE [p EXCEPT !.n = [@ EXCEPT !.tx = FALSE, !.secret = FALSE, !.draining = p.n.secret]]

Completed(p) ==
    IF p.n.tx \/ ~p.n.completion THEN p
    ELSE [Tell(p, p.n.applyN, p.n.result) EXCEPT !.n.completion = FALSE]

Answered(p, q) == IF p.n.tx \/ q = Silence THEN p ELSE Handled(p, q)

(* One line at a time: what is sent, or has left the UART, is up to it. *)
PollSerial(p, q, sent) ==
    IF p.n.draining /\ ~sent THEN p
    ELSE Written(Answered(Completed(Finish([p EXCEPT !.n.draining = FALSE])), q), sent)

-------------------------------------------------------------------------------
(* The tick *)

(* Mutation: any address counts, the one of an old link too. *)
StaleAddress(p) == TargetConnected(p)
Joined(p) == p.w.address /\ TargetConnected(p)

Success(p) ==
    [p EXCEPT !.n = [@ EXCEPT !.connecting = FALSE, !.applying = FALSE, !.trialUp = p.n.applying,
                              !.completion = p.n.completion \/ p.n.applying,
                              !.result = IF p.n.applying THEN "CONNECTED" ELSE p.n.result],
              !.w.auto = p.n.enabled]

Failure(p) ==
    LET ended == [p.n EXCEPT !.connecting = FALSE, !.applying = FALSE, !.rescan = TRUE]
        off == Dark([p EXCEPT !.n = ended])
    IN  IF p.n.applying THEN [off EXCEPT !.n = [@ EXCEPT !.result = "FAILED", !.completion = TRUE]]
        ELSE [off EXCEPT !.n.policy = Paused(@)]

Connecting(p, late) ==
    IF ~p.n.connecting THEN p
    ELSE IF Joined(p) THEN Success(p)
    ELSE IF late \/ p.n.opAge >= ConnectTimeout THEN Failure(p) ELSE p

(* Mutation: the trial whose peer is lost may still be committed. *)
Doubted(p) == [p EXCEPT !.n = [@ EXCEPT !.rescan = TRUE, !.result = "FAILED", !.completion = TRUE]]
TrialLost(p) ==
    [p EXCEPT !.n = [@ EXCEPT !.rescan = TRUE, !.trialUp = FALSE, !.result = "FAILED",
                              !.completion = TRUE]]

PeerLost(p) ==
    IF ~(p.n.enabled /\ ~p.n.connecting /\ ~p.n.scan /\ Missing(p.n.policy)) THEN p
    ELSE LET off == Dark([p EXCEPT !.n.policy = Paused(@)])
         IN  IF p.n.trial THEN TrialLost(off) ELSE off

JoinDue(p, newly) ==
    /\ ~p.n.enabled /\ ~RadioBusy(p.n) /\ ~p.n.trial /\ ~p.n.open /\ ~SerialBusy(p.n)
    /\ p.n.active # None /\ Ready(p.n.guard, newly) /\ LocalJoinDue(p.n.policy)

Rejoined(p, newly) ==
    IF ~JoinDue(p, newly) THEN p
    ELSE BeginJoin([p EXCEPT !.n.policy = LocalJoin(@)], p.n.active, FALSE, "automatic")

RetryDue(n) == n.retry /\ n.opAge >= RetryDelay
TrialDue(n) == n.trial /\ n.setupAge >= TrialTimeout

Swept(p, scanned) ==
    [IF p.n.open /\ Expired(p.n) THEN Revoke(p) ELSE p EXCEPT !.n.scan = @ /\ ~scanned]
Retried(p) == IF RetryDue(p.n) THEN BeginJoin(p, p.n.active, FALSE, "explicit") ELSE p
Tried(p) == IF TrialDue(p.n) THEN AbortTrial(p, TRUE) ELSE p
Judged(p) == [p EXCEPT !.n.policy = Connected(@, CommittedConnected(p))]

Tick(p, q, newly, sent, scanned, late) ==
    LET swept == Swept(PollSerial(p, q, sent), scanned)
        restarted == RetryDue(swept.n) \/ TrialDue(swept.n)
        joined == Connecting(Tried(Retried(swept)), late /\ restarted)
    IN  Rejoined(PeerLost(Judged(joined)), newly)

(* A hop makes the receipts before it worthless, and the peer unknown. *)
DiscoveryAllowed(p) ==
    /\ ~p.n.enabled /\ ~RadioBusy(p.n) /\ ~p.n.trial /\ ~p.n.applying /\ ~p.n.open
    /\ ~p.n.secret /\ ~p.n.releasing /\ ~p.n.completion /\ ~SerialBusy(p.n)
    /\ p.n.active # None /\ p.w.link = None /\ IdleDiscovery(p.n.policy) /\ ~p.n.preparing

Discovered(p, hop) ==
    IF hop /\ DiscoveryAllowed(p) THEN [p EXCEPT !.n.guard = Required] ELSE p

(* One pass of the main loop: what was received, the tick, a rescan. *)
Received(p, fresh, newly) ==
    [p EXCEPT !.n = [@ EXCEPT !.policy = Heard(p.n.policy, fresh),
                              !.guard = Observed(p.n.guard, fresh, newly)]]

Weighed(p) ==
    LET fine == CommittedConnected(p) /\ p.n.policy.fresh
    IN  [p EXCEPT !.l = [@ EXCEPT !.fine = fine, !.well = IF fine THEN p.l.well ELSE 0]]

Loop(fresh, newly, q, sent, scanned, late, hop) ==
    LET ticked == Tick(Received(Panel, fresh, newly), q, newly, sent, scanned, late)
    IN  Becomes(Weighed(Discovered([ticked EXCEPT !.n.rescan = FALSE], hop)))

(* What may happen in a pass: the rest would change nothing. *)
Maybe(condition) == {FALSE} \cup {condition}
Asked ==
    {Silence} \cup {q \in Requests :
        ~net.tx /\ ~net.completion /\ (q.command = "profile busy" => net.worker = "running")}

-------------------------------------------------------------------------------
(* Sleep: the worker is paused, then the network; the radio is off until    *)
(* the panel wakes.  Whoever holds the worker's pause on the wire keeps it. *)

Unclaimed(p) ==
    [p EXCEPT !.n = [@ EXCEPT !.preparing = FALSE, !.worker = IF SerialBusy(p.n) THEN p.n.worker ELSE "running"]]

NetworkSleeps(n) ==
    ~(n.trial \/ RadioBusy(n) \/ SerialBusy(n) \/ n.completion \/ n.open)

Woken(p) ==
    LET slept == [Revoke(p) EXCEPT !.n = [@ EXCEPT !.policy = Resumed(p.n.policy), !.worker = "running",
                                                   !.preparing = FALSE, !.enabled = FALSE, !.rescan = FALSE],
                                   !.w = [@ EXCEPT !.want = None, !.link = None, !.auto = FALSE]]
    IN  IF p.n.active # None /\ p.n.enabled THEN BeginJoin(slept, p.n.active, FALSE, "resume")
        ELSE [slept EXCEPT !.n.rescan = TRUE]

PrepareSleep(idle) ==
    /\ ~SerialBusy(net)
    /\ LET p == [Panel EXCEPT !.n = [Pause(@, idle) EXCEPT !.preparing = TRUE]]
       IN  Becomes(IF p.n.worker = "idle" /\ NetworkSleeps(net) THEN Weighed(Woken(p)) ELSE p)

StayAwake ==
    /\ net.preparing
    /\ Becomes(Unclaimed(Panel))

-------------------------------------------------------------------------------
(* The user *)

Close ==
    /\ LET p == IF net.trial
                THEN [AbortTrial(Panel, FALSE) EXCEPT !.n = [@ EXCEPT !.result = "FAILED", !.completion = TRUE]]
                ELSE Revoke(Panel)
       IN  Becomes(p)

StartScan ==
    /\ ~RadioBusy(net) /\ ~net.trial
    /\ Becomes([Revoke(Panel) EXCEPT !.n.scan = TRUE])

SavePending(profile) ==
    /\ ~RadioBusy(net) /\ ~net.trial /\ log.saves < MaxSaves
    /\ net' = [net EXCEPT !.pending = profile, !.open = TRUE, !.setupAge = 0, !.exportN = None,
                          !.applyN = None, !.commitN = None, !.abortN = None, !.result = None,
                          !.completion = FALSE]
    /\ log' = [log EXCEPT !.saves = @ + 1, !.over = {}]
    /\ UNCHANGED wifi

RetryBoth ==
    /\ net.active # None /\ ~RadioBusy(net) /\ ~net.trial
    /\ Becomes([Dark(Revoke(Panel)) EXCEPT !.n = [@ EXCEPT !.policy = Disabled, !.retry = TRUE, !.opAge = 0]])

-------------------------------------------------------------------------------
(* The driver, the UART, the worker, the peer, a restart and time *)

LinkUp ==
    /\ wifi.link = None /\ wifi.want \in Works
    /\ wifi' = [wifi EXCEPT !.link = wifi.want, !.address = TRUE]
    /\ UNCHANGED <<net, log>>

LinkDown ==
    /\ wifi.link # None
    /\ wifi' = [wifi EXCEPT !.link = None,
                            !.want = IF wifi.auto \/ net.connecting THEN @ ELSE None]
    /\ UNCHANGED <<net, log>>

WorkerStops ==
    /\ net.worker = "stopping"
    /\ net' = [net EXCEPT !.worker = "idle"]
    /\ UNCHANGED <<wifi, log>>

(* A restart keeps what NVS holds. *)
Restart ==
    /\ Becomes(Begun(net.active, net.pending, [log EXCEPT !.fine = FALSE, !.well = 0]))

Pass ==
    /\ net' = [net EXCEPT !.opAge = IF net.connecting \/ net.retry THEN Older(@, OpLimit) ELSE 0,
                          !.setupAge = IF net.trial \/ net.open THEN Older(@, SetupLimit) ELSE 0,
                          !.policy = PolicyOlder(@), !.guard = GuardOlder(@)]
    /\ log' = [log EXCEPT !.well = IF log.fine THEN Older(@, RearmStable) ELSE 0]
    /\ UNCHANGED wifi

Next ==
    \/ \E fresh \in BOOLEAN, q \in Asked, scanned \in Maybe(net.scan),
         late \in Maybe(RetryDue(net) \/ TrialDue(net)) :
       \E newly \in Maybe(fresh /\ net.guard.required),
         hop \in Maybe(~fresh /\ AutoPaused(net.policy)),
         sent \in Maybe(SerialBusy(net) \/ net.completion \/ q # Silence) :
          Loop(fresh, newly, q, sent, scanned, late, hop)
    \/ \E idle \in BOOLEAN : PrepareSleep(idle)
    \/ StayAwake
    \/ Close \/ StartScan \/ RetryBoth
    \/ \E profile \in Profiles : SavePending(profile)
    \/ LinkUp \/ LinkDown \/ WorkerStops
    \/ Restart \/ Pass

Spec == Init /\ [][Next]_vars

-------------------------------------------------------------------------------
(* Properties *)

(* Type invariant. *)
TypeOK ==
    /\ net.active \in Profiles \cup {None} /\ net.pending \in Profiles \cup {None}
    /\ net.policy \in PolicyType /\ net.guard \in GuardType
    /\ net.opAge \in 0..OpLimit /\ net.setupAge \in 0..SetupLimit
    /\ net.connecting => net.target # None /\ net.enabled
    /\ {net.exportN, net.applyN, net.commitN, net.abortN} \subseteq Nonces \cup {None}
    /\ net.result \in {None, "APPLYING", "CONNECTED", "FAILED", "ABORTED", "COMMITTED"}

(* While the password is on the wire the artwork worker, whose TLS library  *)
(* writes logs to the same UART, is paused and idle, and the pause belongs  *)
(* to the export, whatever sleep does with the same pause.                  *)
SecretNeedsQuiet ==
    net.secret \/ net.draining => net.claimed /\ net.worker = "idle"

(* An uncommitted profile is tried only on trial; nothing joins it later.   *)
UncommittedOnTrial == wifi.want \notin {None, net.active} => net.trial

(* A session that the host was told is over is not committed any more: the  *)
(* host has restored the controller's profile by then.                      *)
FailedStaysFailed == net.commitN \notin log.over

(* What becomes the saved profile is the one the host was sent in this      *)
(* session and has given to the controller, and one the access point        *)
(* accepted: not the link of the profile before it, not a failed trial.     *)
CommitsWhatWorked ==
    [][net'.commitN \notin {None, net.commitN} =>
        net'.active = log.sent[net'.commitN] /\ net'.active \in Works]_vars

(* Automatic joins are given back only by a link that held with the peer    *)
(* fresh for the whole window, never by sleep, a flapping peer or a join.   *)
BudgetIsEarned ==
    [][net'.policy.attempts < net.policy.attempts /\ net'.policy.known /\ net'.policy.enabled
        => log.well >= RearmStable]_vars

(* Whoever claims the worker will give it back: the export window is still  *)
(* open, or the release has been asked for.                                 *)
ClaimHasAnEnd == net.claimed => net.open \/ net.releasing

(* A panel with a saved network is never left without a way to it: the      *)
(* network is on, asked for, on trial, or paused with a way back.           *)
NeverStranded ==
    net.active # None => net.enabled \/ net.retry \/ net.trial \/ AutoPaused(net.policy)
===============================================================================

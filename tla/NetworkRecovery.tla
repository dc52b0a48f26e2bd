---------------------------- MODULE NetworkRecovery ----------------------------
(***************************************************************************)
(* The panel's recovery policy (network_recovery_policy.h): when a         *)
(* committed Wi-Fi profile may be joined again without the user, how often,*)
(* which receipts count after a channel hop, and when to listen elsewhere. *)
(* Pure operators on records; an age counts time since a moment and stops  *)
(* at the largest limit it is compared with.                               *)
(***************************************************************************)
EXTENDS Naturals

CONSTANTS
    PeerMissing,    \* PEER_MISSING_MS
    PeerStable,     \* PEER_STABLE_MS
    RearmStable,    \* REARM_STABLE_MS
    FirstWait,      \* retry_wait_ms before the first attempt
    Backoff,        \* and after it
    MaxAttempts     \* MAX_ATTEMPTS

ASSUME RecoveryAssumption ==
    {PeerMissing, PeerStable, RearmStable, FirstWait, Backoff, MaxAttempts} \subseteq Nat \ {0}

Larger(a, b) == IF a < b THEN b ELSE a
PeerLimit == Larger(PeerMissing, Larger(PeerStable, RearmStable))
PolicyLimit == Larger(RearmStable, Larger(FirstWait, Backoff))
Attempts == 0..MaxAttempts
PeerAges == 0..PeerLimit
PolicyAges == 0..PolicyLimit
GuardAges == 0..PeerStable

Older(age, limit) == IF age < limit THEN age + 1 ELSE age

-------------------------------------------------------------------------------
(* Policy.  The peer's age runs since it was last lost or found again, the  *)
(* policy's since the association or, while paused, since the pause.        *)

PolicyType ==
    [enabled : BOOLEAN, paused : BOOLEAN, known : BOOLEAN, fresh : BOOLEAN,
     connected : BOOLEAN, attempts : Attempts, peerAge : PeerAges, age : PolicyAges]

Disabled ==
    [enabled |-> FALSE, paused |-> FALSE, known |-> FALSE, fresh |-> FALSE,
     connected |-> FALSE, attempts |-> 0, peerAge |-> 0, age |-> 0]

Enabled == [Disabled EXCEPT !.enabled = TRUE]

Heard(p, fresh) ==
    [p EXCEPT !.known = TRUE, !.fresh = fresh,
              !.peerAge = IF p.known /\ p.fresh = fresh THEN @ ELSE 0]

(* Mutation: how long the peer is fresh does not count. *)
StableLink(p, age) == p.connected /\ p.fresh /\ age >= RearmStable
Stable(p, age) == p.connected /\ p.fresh /\ age >= RearmStable /\ p.peerAge >= RearmStable

Connected(p, up) ==
    LET age == IF p.paused \/ up = p.connected THEN p.age ELSE 0
        q == [p EXCEPT !.connected = up, !.age = age]
    IN  IF q.enabled /\ ~q.paused /\ Stable(q, age) THEN [q EXCEPT !.attempts = 0] ELSE q

Missing(p) == p.known /\ ~p.fresh /\ p.peerAge >= PeerMissing

(* Mutation: only a link that was up is paused. *)
PausedLink(p) ==
    IF p.enabled /\ p.connected THEN [p EXCEPT !.paused = TRUE, !.connected = FALSE, !.age = 0] ELSE p
Paused(p) ==
    IF p.enabled THEN [p EXCEPT !.paused = TRUE, !.connected = FALSE, !.age = 0] ELSE p

RetryWait(p) == IF p.attempts = 0 THEN FirstWait ELSE Backoff

LocalJoinDue(p) ==
    /\ p.enabled /\ p.paused /\ p.known /\ p.fresh
    /\ p.attempts < MaxAttempts
    /\ p.peerAge >= PeerStable
    /\ p.age >= RetryWait(p)

LocalJoin(p) == [p EXCEPT !.attempts = @ + 1, !.paused = FALSE, !.connected = FALSE, !.age = 0]

(* Sleep forgets the peer and keeps the pause and its budget. *)
Resumed(p) ==
    [p EXCEPT !.known = FALSE, !.fresh = FALSE, !.connected = FALSE, !.peerAge = 0, !.age = 0]

AutoPaused(p) == p.enabled /\ p.paused
IdleDiscovery(p) == AutoPaused(p) /\ Missing(p)

PolicyOlder(p) ==
    [p EXCEPT !.peerAge = IF p.known THEN Older(@, PeerLimit) ELSE @,
              !.age = IF p.connected \/ p.paused THEN Older(@, PolicyLimit) ELSE @]

-------------------------------------------------------------------------------
(* PostHopReceiptGuard.  After a hop only receipts newer than it, spanning  *)
(* the stability window, allow a join, and only in the loop that has one.   *)

GuardType == [required : BOOLEAN, have : BOOLEAN, age : GuardAges]
NoGuard == [required |-> FALSE, have |-> FALSE, age |-> 0]
Required == [NoGuard EXCEPT !.required = TRUE]

Observed(g, fresh, newly) ==
    IF ~g.required \/ (fresh /\ (~newly \/ g.have)) THEN g
    ELSE [g EXCEPT !.have = fresh, !.age = 0]

Ready(g, newly) == ~g.required \/ (g.have /\ newly /\ g.age >= PeerStable)
GuardOlder(g) == IF g.have THEN [g EXCEPT !.age = Older(@, PeerStable)] ELSE g
===============================================================================

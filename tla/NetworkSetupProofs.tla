-------------------------- MODULE NetworkSetupProofs --------------------------
(***************************************************************************)
(* Network setup for any profiles, sessions and times.  Every routine of a *)
(* pass keeps the same four facts about the panel, one group each: what a  *)
(* session has come to, which join is under way, who may hold the worker,  *)
(* and the types.  What a routine may do to the saved profile and to the   *)
(* attempts left is a relation, so the pass is the composition of its      *)
(* routines and each is argued about once.                                 *)
(***************************************************************************)
EXTENDS NetworkSetup, TLAPS

Results == {None, "APPLYING", "CONNECTED", "FAILED", "ABORTED", "COMMITTED"}
Over == {"FAILED", "ABORTED"}
Named == Nonces \cup {None}
Saved == Profiles \cup {None}

OpAges == 0..OpLimit
SetupAges == 0..SetupLimit

Nets ==
    [active : Saved, pending : Saved, target : Saved, scan : BOOLEAN,
     connecting : BOOLEAN, applying : BOOLEAN, retry : BOOLEAN, enabled : BOOLEAN, opAge : OpAges,
     trial : BOOLEAN, trialUp : BOOLEAN, open : BOOLEAN, setupAge : SetupAges,
     exportN : Named, applyN : Named, commitN : Named, abortN : Named, result : Results,
     completion : BOOLEAN, tx : BOOLEAN, secret : BOOLEAN, draining : BOOLEAN, claimed : BOOLEAN,
     releasing : BOOLEAN, rescan : BOOLEAN, policy : PolicyType, guard : GuardType,
     preparing : BOOLEAN, worker : {"running", "stopping", "idle"}]
Wifis == [want : Saved, link : Saved, auto : BOOLEAN, address : BOOLEAN]
Logs == [saves : Nat, sent : [Nonces -> Saved], over : SUBSET Nonces, fine : BOOLEAN, well : Nat]
Panels == [n : Nets, w : Wifis, l : Logs]

(* The trial is of the profile the host was sent in this session.           *)
OnTrial(n, l) ==
    /\ n.trial => /\ n.applyN \in Nonces /\ ~n.retry
                  /\ n.target \in Profiles /\ n.target = n.pending
                  /\ l.sent[n.applyN] = n.target
    /\ n.applying => n.connecting /\ n.trial /\ ~n.trialUp
    /\ n.trialUp => n.trial /\ ~n.connecting /\ n.enabled /\ n.target \in Works
    /\ n.exportN # None => l.sent[n.exportN] = n.pending /\ n.pending \in Profiles

(* A session is applied once, and what the host was told of its end holds.  *)
Concluded(n, l) ==
    /\ n.applyN # None => ~n.open /\ n.exportN = None
    /\ n.commitN # None => n.commitN = n.applyN /\ ~n.trial /\ n.result = "COMMITTED"
    /\ n.abortN # None => n.abortN = n.applyN /\ n.result \in Over
    /\ n.result \in Over => ~n.trialUp /\ ~n.applying
    /\ n.completion => n.applyN # None
    /\ l.over # {} => /\ ~n.open
                      /\ n.applyN = None \/ (l.over \subseteq {n.applyN} /\ n.result \in Over)

(* The driver's address is that of the join under way; an uncommitted       *)
(* profile is joined on trial only; there is a way back.                    *)
Joining(n, w) ==
    /\ n.connecting => n.target # None /\ n.enabled
    /\ n.connecting \/ n.trialUp => w.want \in {n.target, None}
    /\ n.connecting /\ w.address => n.target \in Works
    /\ n.retry => n.active # None
    /\ n.active # None /\ n.enabled /\ ~n.trial => n.policy.enabled
    /\ n.policy.paused => n.policy.enabled /\ ~n.enabled
    /\ w.want \notin {None, n.active} => n.trial
    /\ n.active # None => n.enabled \/ n.retry \/ n.trial \/ AutoPaused(n.policy)

(* Whoever holds the worker lets it go, and not while a secret is sent.     *)
Wired(n) ==
    /\ n.secret \/ n.draining => n.claimed /\ n.worker = "idle"
    /\ n.claimed => n.open \/ n.releasing

Core(p) == p \in Panels /\ OnTrial(p.n, p.l) /\ Concluded(p.n, p.l) /\ Wired(p.n)
Good(p) == Core(p) /\ Joining(p.n, p.w)

(* What a routine may do to the budget, and to what was committed.          *)
PolicyStep(p, q) ==
    \/ q = p
    \/ ~q.connected /\ (~q.known \/ (q.attempts = p.attempts /\ q.known = p.known))
Keeps(p, q) ==
    /\ q.n.commitN = p.n.commitN /\ q.n.active = p.n.active /\ q.l.sent = p.l.sent
    /\ PolicyStep(p.n.policy, q.n.policy) /\ q.l.fine = p.l.fine /\ q.l.well = p.l.well
Answers(p, q) ==
    /\ PolicyStep(p.n.policy, q.n.policy) /\ q.l.fine = p.l.fine /\ q.l.well = p.l.well
    /\ \/ q.n.commitN = p.n.commitN
       \/ q.n.active \in Works /\ q.n.active = p.l.sent[q.n.commitN]
(* The same once the link was judged: the budget is only spent.             *)
Spends(p, q) ==
    /\ q.n.commitN = p.n.commitN /\ q.n.active = p.n.active /\ q.l = p.l
    /\ q.n.policy.attempts >= p.n.policy.attempts /\ (q.n.policy.known => p.n.policy.known)
    /\ \/ q.n.policy = p.n.policy /\ (CommittedConnected(q) <=> CommittedConnected(p))
       \/ ~(q.n.policy.connected /\ q.n.policy.fresh)

-------------------------------------------------------------------------------
(* Values *)

LEMMA Names == None \notin Profiles /\ None \notin Nonces /\ Works \subseteq Profiles
BY SetupAssumption DEF None

LEMMA Limits ==
    /\ PeerMissing \in Nat \ {0} /\ PeerStable \in Nat \ {0} /\ RearmStable \in Nat \ {0}
    /\ MaxAttempts \in Nat \ {0}
    /\ PeerLimit \in Nat /\ PolicyLimit \in Nat /\ OpLimit \in Nat /\ SetupLimit \in Nat
    /\ PeerLimit >= RearmStable /\ PolicyLimit >= RearmStable
<1>1. {PeerMissing, PeerStable, RearmStable, FirstWait, Backoff, MaxAttempts} \subseteq Nat \ {0}
  BY RecoveryAssumption
<1>2. {ConnectTimeout, RetryDelay, TrialTimeout, ExportWindow, MaxSaves} \subseteq Nat
  BY SetupAssumption
<1> QED BY <1>1, <1>2 DEF PeerLimit, PolicyLimit, OpLimit, SetupLimit, Larger

(* Ages start at zero and stop at their limit. *)
LEMMA Ages ==
    /\ 0 \in Attempts /\ 0 \in PeerAges /\ 0 \in PolicyAges /\ 0 \in GuardAges
    /\ 0 \in OpAges /\ 0 \in SetupAges
    /\ \A a \in PeerAges : Older(a, PeerLimit) \in PeerAges
    /\ \A a \in PolicyAges : Older(a, PolicyLimit) \in PolicyAges
    /\ \A a \in GuardAges : Older(a, PeerStable) \in GuardAges
    /\ \A a \in OpAges : Older(a, OpLimit) \in OpAges
    /\ \A a \in SetupAges : Older(a, SetupLimit) \in SetupAges
    /\ \A a \in Attempts : a < MaxAttempts => a + 1 \in Attempts
BY Limits DEF Older, Attempts, PeerAges, PolicyAges, GuardAges, OpAges, SetupAges

LEMMA PolicyTypes ==
    ASSUME NEW p \in PolicyType, NEW flag \in BOOLEAN
    PROVE  /\ Disabled \in PolicyType /\ Enabled \in PolicyType
           /\ Heard(p, flag) \in PolicyType /\ Connected(p, flag) \in PolicyType
           /\ Paused(p) \in PolicyType /\ Resumed(p) \in PolicyType
           /\ LocalJoinDue(p) => LocalJoin(p) \in PolicyType
           /\ PolicyOlder(p) \in PolicyType
<1> USE Ages
<1>1. Disabled \in PolicyType BY DEF Disabled, PolicyType
<1>2. Enabled \in PolicyType BY <1>1 DEF Enabled, PolicyType
<1>3. Heard(p, flag) \in PolicyType
  <2> DEFINE a == IF p.known /\ p.fresh = flag THEN p.peerAge ELSE 0
  <2>1. a \in PeerAges BY DEF PolicyType
  <2> HIDE DEF a
  <2>2. [p EXCEPT !.known = TRUE, !.fresh = flag, !.peerAge = a] \in PolicyType BY <2>1 DEF PolicyType
  <2> QED BY <2>2 DEF Heard, a
<1>4. Connected(p, flag) \in PolicyType
  <2> DEFINE a == IF p.paused \/ flag = p.connected THEN p.age ELSE 0
             q == [p EXCEPT !.connected = flag, !.age = a]
  <2>1. a \in PolicyAges BY DEF PolicyType
  <2> HIDE DEF a
  <2>2. q \in PolicyType BY <2>1 DEF PolicyType
  <2> HIDE DEF q
  <2>3. [q EXCEPT !.attempts = 0] \in PolicyType BY <2>2 DEF PolicyType
  <2> QED BY <2>2, <2>3 DEF Connected, a, q
<1>5. Paused(p) \in PolicyType BY DEF Paused, PolicyType
<1>6. Resumed(p) \in PolicyType BY DEF Resumed, PolicyType
<1>7. LocalJoinDue(p) => LocalJoin(p) \in PolicyType BY DEF LocalJoinDue, LocalJoin, PolicyType
<1>8. PolicyOlder(p) \in PolicyType
  <2> DEFINE a == IF p.known THEN Older(p.peerAge, PeerLimit) ELSE p.peerAge
             b == IF p.connected \/ p.paused THEN Older(p.age, PolicyLimit) ELSE p.age
  <2>1. a \in PeerAges /\ b \in PolicyAges BY DEF PolicyType
  <2> HIDE DEF a, b
  <2>2. [p EXCEPT !.peerAge = a, !.age = b] \in PolicyType BY <2>1 DEF PolicyType
  <2> QED BY <2>2 DEF PolicyOlder, a, b
<1> QED BY <1>1, <1>2, <1>3, <1>4, <1>5, <1>6, <1>7, <1>8

LEMMA PolicyFlags ==
    ASSUME NEW p \in PolicyType, NEW flag \in BOOLEAN
    PROVE  /\ Enabled.enabled /\ ~Enabled.paused /\ ~Disabled.paused
           /\ ~Enabled.known /\ ~Disabled.known
           /\ Heard(p, flag).enabled = p.enabled /\ Heard(p, flag).paused = p.paused
           /\ Connected(p, flag).enabled = p.enabled /\ Connected(p, flag).paused = p.paused
           /\ Paused(p).enabled = p.enabled /\ (p.enabled => Paused(p).paused)
           /\ (~p.enabled => Paused(p) = p)
           /\ Resumed(p).enabled = p.enabled /\ Resumed(p).paused = p.paused
           /\ LocalJoin(p).enabled = p.enabled /\ ~LocalJoin(p).paused
           /\ PolicyOlder(p).enabled = p.enabled /\ PolicyOlder(p).paused = p.paused
<1>1. Disabled \in PolicyType /\ Heard(p, flag) \in PolicyType BY PolicyTypes
<1>2. Enabled.enabled /\ ~Enabled.paused /\ ~Disabled.paused /\ ~Enabled.known /\ ~Disabled.known
  BY DEF Enabled, Disabled
<1>3. Heard(p, flag).enabled = p.enabled /\ Heard(p, flag).paused = p.paused
  BY DEF Heard, PolicyType
<1>4. Connected(p, flag).enabled = p.enabled /\ Connected(p, flag).paused = p.paused
  BY DEF Connected, PolicyType
<1>5. Paused(p).enabled = p.enabled /\ (p.enabled => Paused(p).paused) /\ (~p.enabled => Paused(p) = p)
  BY DEF Paused, PolicyType
<1>6. Resumed(p).enabled = p.enabled /\ Resumed(p).paused = p.paused BY DEF Resumed, PolicyType
<1>7. LocalJoin(p).enabled = p.enabled /\ ~LocalJoin(p).paused BY DEF LocalJoin, PolicyType
<1>8. PolicyOlder(p).enabled = p.enabled /\ PolicyOlder(p).paused = p.paused
  BY DEF PolicyOlder, PolicyType
<1> QED BY <1>2, <1>3, <1>4, <1>5, <1>6, <1>7, <1>8

LEMMA GuardTypes ==
    ASSUME NEW g \in GuardType, NEW fresh \in BOOLEAN, NEW newly \in BOOLEAN
    PROVE  /\ NoGuard \in GuardType /\ Required \in GuardType
           /\ Observed(g, fresh, newly) \in GuardType /\ GuardOlder(g) \in GuardType
<1> USE Ages
<1>1. NoGuard \in GuardType BY DEF NoGuard, GuardType
<1>2. Required \in GuardType BY <1>1 DEF Required, GuardType
<1>3. Observed(g, fresh, newly) \in GuardType BY DEF Observed, GuardType
<1>4. GuardOlder(g) \in GuardType BY DEF GuardOlder, GuardType
<1> QED BY <1>1, <1>2, <1>3, <1>4

(* A panel with other network, driver or log. *)
LEMMA NetChanged ==
    ASSUME NEW p \in Panels, NEW m \in Nets
    PROVE  LET q == [p EXCEPT !.n = m] IN q \in Panels /\ q.n = m /\ q.w = p.w /\ q.l = p.l
BY DEF Panels

LEMMA DriverChanged ==
    ASSUME NEW p \in Panels, NEW w \in Wifis
    PROVE  LET q == [p EXCEPT !.w = w] IN q \in Panels /\ q.n = p.n /\ q.w = w /\ q.l = p.l
BY DEF Panels

LEMMA LogChanged ==
    ASSUME NEW p \in Panels, NEW l \in Logs
    PROVE  LET q == [p EXCEPT !.l = l] IN q \in Panels /\ q.n = p.n /\ q.w = p.w /\ q.l = l
BY DEF Panels

-------------------------------------------------------------------------------
(* The worker's claim and the export *)

(* What a release may change. *)
LEMMA FinishShape ==
    ASSUME NEW p \in Panels
    PROVE  LET q == Finish(p)
           IN  /\ q \in Panels /\ q.w = p.w /\ q.l = p.l
               /\ q.n = [p.n EXCEPT !.claimed = q.n.claimed, !.releasing = q.n.releasing,
                                    !.worker = q.n.worker]
               /\ Wired(p.n) => Wired(q.n)
<1> DEFINE v == IF p.n.claimed THEN "running" ELSE p.n.worker
           m == [p.n EXCEPT !.claimed = FALSE, !.releasing = FALSE, !.worker = v]
           q == [p EXCEPT !.n = m]
<1>1. p.n \in Nets BY DEF Panels
<1>0. v \in {"running", "stopping", "idle"} BY <1>1 DEF Nets
<1> HIDE DEF v
<1>2. m \in Nets BY <1>0, <1>1 DEF Nets
<1>3. q \in Panels /\ q.n = m /\ q.w = p.w /\ q.l = p.l BY <1>2 DEF Panels
<1>4. m = [p.n EXCEPT !.claimed = m.claimed, !.releasing = m.releasing, !.worker = m.worker]
  BY <1>1, <1>2 DEF Nets
<1>5. p.n = [p.n EXCEPT !.claimed = p.n.claimed, !.releasing = p.n.releasing, !.worker = p.n.worker]
  BY <1>1 DEF Nets
<1>6. ~p.n.secret /\ ~p.n.draining /\ Wired(p.n) => Wired(m) BY <1>1 DEF Wired, Nets
<1>7. Finish(p) = IF ~p.n.releasing \/ p.n.secret \/ p.n.draining THEN p ELSE q BY Zenon DEF Finish, v
<1> HIDE DEF m, q
<1> QED BY <1>3, <1>4, <1>5, <1>6, <1>7

LEMMA RevokeShape ==
    ASSUME NEW p \in Panels
    PROVE  LET q == Revoke(p)
           IN  /\ q \in Panels /\ q.w = p.w /\ q.l = p.l
               /\ q.n = [p.n EXCEPT !.open = FALSE, !.exportN = None, !.claimed = q.n.claimed,
                                    !.releasing = q.n.releasing, !.worker = q.n.worker]
               /\ Wired(p.n) => Wired(q.n)
<1> DEFINE m == [p.n EXCEPT !.open = FALSE, !.exportN = None]
           s == [p EXCEPT !.n = m]
           k == [m EXCEPT !.releasing = TRUE]
           r == [s EXCEPT !.n = k]
           q == Finish(r)
<1>1. p.n \in Nets BY DEF Panels
<1>2. m \in Nets BY <1>1 DEF Nets, Named
<1>3. s \in Panels /\ s.n = m /\ s.w = p.w /\ s.l = p.l BY <1>2, NetChanged
<1>4. k \in Nets BY <1>2 DEF Nets
<1> HIDE DEF m, s, k
<1>5. r \in Panels /\ r.n = k /\ r.w = p.w /\ r.l = p.l BY <1>3, <1>4, NetChanged
<1>6. Wired(p.n) => Wired(r.n)
  <2>1. Wired(p.n) => Wired(k) BY <1>1 DEF Wired, Nets, m, k
  <2> QED BY <2>1, <1>5
<1>7. r = [s EXCEPT !.n.releasing = TRUE] BY <1>3 DEF k
<1> HIDE DEF r
<1>8. /\ q \in Panels /\ q.w = r.w /\ q.l = r.l
      /\ q.n = [r.n EXCEPT !.claimed = q.n.claimed, !.releasing = q.n.releasing, !.worker = q.n.worker]
      /\ Wired(r.n) => Wired(q.n)
  BY <1>5, FinishShape
<1>9. Revoke(p) = q BY <1>7 DEF Revoke, Release, s, m
<1> HIDE DEF q
<1>10. q.n \in Nets BY <1>8 DEF Panels
<1>11. q.n = [p.n EXCEPT !.open = FALSE, !.exportN = None, !.claimed = q.n.claimed,
                         !.releasing = q.n.releasing, !.worker = q.n.worker]
  BY <1>1, <1>5, <1>8, <1>10 DEF Nets, m, k
<1> QED BY <1>5, <1>6, <1>8, <1>9, <1>11

LEMMA RevokeCore == ASSUME NEW p, Core(p) PROVE Core(Revoke(p))
<1> DEFINE q == Revoke(p)
<1>1. /\ q \in Panels /\ q.w = p.w /\ q.l = p.l
      /\ q.n = [p.n EXCEPT !.open = FALSE, !.exportN = None, !.claimed = q.n.claimed,
                           !.releasing = q.n.releasing, !.worker = q.n.worker]
      /\ Wired(q.n)
  BY RevokeShape DEF Core
<1>2. p.n \in Nets BY DEF Core, Panels
<1> HIDE DEF q
<1>3. OnTrial(q.n, q.l)
  <2>1. /\ q.n.exportN = None /\ q.n.trial = p.n.trial /\ q.n.applyN = p.n.applyN
        /\ q.n.retry = p.n.retry /\ q.n.target = p.n.target /\ q.n.pending = p.n.pending
        /\ q.n.applying = p.n.applying /\ q.n.connecting = p.n.connecting
        /\ q.n.trialUp = p.n.trialUp /\ q.n.enabled = p.n.enabled
    BY <1>1, <1>2 DEF Nets
  <2> QED BY <1>1, <2>1 DEF Core, OnTrial
<1>4. Concluded(q.n, q.l) BY <1>1, <1>2 DEF Core, Concluded, Nets
<1> QED BY <1>1, <1>3, <1>4 DEF Core, q

LEMMA RevokeGood == ASSUME NEW p, Good(p) PROVE Good(Revoke(p))
<1> DEFINE q == Revoke(p)
<1>1. /\ q \in Panels /\ q.w = p.w /\ q.l = p.l
      /\ q.n = [p.n EXCEPT !.open = FALSE, !.exportN = None, !.claimed = q.n.claimed,
                           !.releasing = q.n.releasing, !.worker = q.n.worker]
  BY RevokeShape DEF Good, Core
<1>2. p.n \in Nets BY DEF Good, Core, Panels
<1>3. Core(q) BY RevokeCore DEF Good
<1> HIDE DEF q
<1>4. Joining(q.n, q.w) BY <1>1, <1>2 DEF Good, Joining, Nets
<1> QED BY <1>3, <1>4 DEF Good, q

LEMMA FinishGood == ASSUME NEW p, Good(p) PROVE Good(Finish(p))
<1> DEFINE q == Finish(p)
<1>1. /\ q \in Panels /\ q.w = p.w /\ q.l = p.l
      /\ q.n = [p.n EXCEPT !.claimed = q.n.claimed, !.releasing = q.n.releasing,
                           !.worker = q.n.worker]
      /\ Wired(q.n)
  BY FinishShape DEF Good, Core
<1>2. p.n \in Nets BY DEF Good, Core, Panels
<1> HIDE DEF q
<1>3. OnTrial(q.n, q.l) BY <1>1, <1>2 DEF Good, Core, OnTrial, Nets
<1>4. Concluded(q.n, q.l) BY <1>1, <1>2 DEF Good, Core, Concluded, Nets
<1>5. Joining(q.n, q.w) BY <1>1, <1>2 DEF Good, Core, Joining, Nets
<1> QED BY <1>1, <1>3, <1>4, <1>5 DEF Good, Core, q

LEMMA LineGood == ASSUME NEW p, Good(p) PROVE Good(Line(p))
<1> DEFINE m == [p.n EXCEPT !.tx = TRUE]
           q == [p EXCEPT !.n = m]
<1>1. p \in Panels /\ p.n \in Nets BY DEF Good, Core, Panels
<1>2. m \in Nets BY <1>1 DEF Nets
<1>3. OnTrial(m, p.l) BY <1>1 DEF Good, Core, OnTrial, Nets
<1>4. Concluded(m, p.l) BY <1>1 DEF Good, Core, Concluded, Nets
<1>5. Joining(m, p.w) BY <1>1 DEF Good, Core, Joining, Nets
<1>6. Wired(m) BY <1>1 DEF Good, Core, Wired, Nets
<1>7. Line(p) = q BY DEF Line
<1> HIDE DEF m
<1>8. q \in Panels /\ q.n = m /\ q.w = p.w /\ q.l = p.l BY <1>1, <1>2, NetChanged
<1> QED BY <1>3, <1>4, <1>5, <1>6, <1>7, <1>8 DEF Good, Core

(* What the host is told of an end holds already. *)
LEMMA TellGood ==
    ASSUME NEW p, Good(p), NEW nonce, NEW result, nonce # None, nonce = p.n.applyN,
           result \in Over => p.n.result \in Over
    PROVE  Good(Tell(p, nonce, result))
<1> DEFINE s == Line(p)
           o == IF result \in Over THEN s.l.over \cup {nonce} ELSE s.l.over
           l == [s.l EXCEPT !.over = o]
           q == [s EXCEPT !.l = l]
<1>1. Good(s) BY LineGood
<1>2. s.n.applyN = p.n.applyN /\ s.n.result = p.n.result
  BY DEF Line, Good, Core, Panels, Nets
<1> HIDE DEF s
<1>3. s \in Panels /\ s.n \in Nets /\ s.l \in Logs BY <1>1 DEF Good, Core, Panels
<1>4. nonce \in Nonces BY <1>2, <1>3 DEF Nets, Named
<1>5. o \in SUBSET Nonces BY <1>3, <1>4 DEF Logs
<1>6. OnTrial(s.n, l) BY <1>1, <1>3 DEF Good, Core, OnTrial, Logs
<1>7. Concluded(s.n, l)
  <2>1. l.over = o BY <1>3 DEF Logs
  <2>2. o # {} => /\ ~s.n.open
                  /\ s.n.applyN = None \/ (o \subseteq {s.n.applyN} /\ s.n.result \in Over)
    BY <1>1, <1>2, <1>3 DEF Good, Core, Concluded, Nets
  <2> HIDE DEF l, o
  <2> QED BY <1>1, <2>1, <2>2 DEF Good, Core, Concluded
<1>8. Tell(p, nonce, result) = q BY DEF Tell, s, Over
<1> HIDE DEF o
<1>9. l \in Logs BY <1>3, <1>5 DEF Logs
<1> HIDE DEF l
<1>10. q \in Panels /\ q.n = s.n /\ q.w = s.w /\ q.l = l BY <1>3, <1>9, LogChanged
<1> QED BY <1>1, <1>6, <1>7, <1>8, <1>10 DEF Good, Core

LEMMA LineShape ==
    ASSUME NEW p \in Panels
    PROVE  LET q == Line(p)
           IN  q \in Panels /\ q.n = [p.n EXCEPT !.tx = TRUE] /\ q.w = p.w /\ q.l = p.l
<1> DEFINE m == [p.n EXCEPT !.tx = TRUE]
           q == [p EXCEPT !.n = m]
<1>1. p.n \in Nets BY DEF Panels
<1>2. m \in Nets BY <1>1 DEF Nets
<1>3. Line(p) = q BY DEF Line
<1> HIDE DEF m
<1>4. q \in Panels /\ q.n = m /\ q.w = p.w /\ q.l = p.l BY <1>2, NetChanged
<1> HIDE DEF q
<1> QED BY <1>3, <1>4 DEF m

(* What the routines so far keep. *)
LEMMA StepsAdd ==
    ASSUME NEW p, NEW q, NEW r, Keeps(p, q)
    PROVE  /\ Keeps(q, r) => Keeps(p, r)
           /\ Answers(q, r) => Answers(p, r)
           /\ Answers(r, p) => Answers(r, q)
           /\ Answers(p, q)
BY DEF Keeps, Answers, PolicyStep

LEMMA FinishKeeps == ASSUME NEW p \in Panels PROVE Keeps(p, Finish(p))
<1> DEFINE q == Finish(p)
<1>1. /\ q \in Panels /\ q.l = p.l
      /\ q.n = [p.n EXCEPT !.claimed = q.n.claimed, !.releasing = q.n.releasing,
                           !.worker = q.n.worker]
  BY FinishShape
<1> HIDE DEF q
<1>2. p.n \in Nets /\ q.n \in Nets BY <1>1 DEF Panels
<1>3. q.n.commitN = p.n.commitN /\ q.n.active = p.n.active /\ q.n.policy = p.n.policy
  BY <1>1, <1>2 DEF Nets
<1> QED BY <1>1, <1>3 DEF Keeps, PolicyStep, q

LEMMA RevokeKeeps == ASSUME NEW p \in Panels PROVE Keeps(p, Revoke(p))
<1> DEFINE q == Revoke(p)
<1>1. /\ q \in Panels /\ q.l = p.l
      /\ q.n = [p.n EXCEPT !.open = FALSE, !.exportN = None, !.claimed = q.n.claimed,
                           !.releasing = q.n.releasing, !.worker = q.n.worker]
  BY RevokeShape
<1> HIDE DEF q
<1>2. p.n \in Nets /\ q.n \in Nets BY <1>1 DEF Panels
<1>3. q.n.commitN = p.n.commitN /\ q.n.active = p.n.active /\ q.n.policy = p.n.policy
  BY <1>1, <1>2 DEF Nets
<1> QED BY <1>1, <1>3 DEF Keeps, PolicyStep, q

LEMMA LineKeeps == ASSUME NEW p \in Panels PROVE Keeps(p, Line(p))
<1> DEFINE q == Line(p)
<1>1. q \in Panels /\ q.n = [p.n EXCEPT !.tx = TRUE] /\ q.l = p.l BY LineShape
<1> HIDE DEF q
<1>2. p.n \in Nets /\ q.n \in Nets BY <1>1 DEF Panels
<1>3. q.n.commitN = p.n.commitN /\ q.n.active = p.n.active /\ q.n.policy = p.n.policy
  BY <1>1, <1>2 DEF Nets
<1> QED BY <1>1, <1>3 DEF Keeps, PolicyStep, q

LEMMA TellKeeps == ASSUME NEW p \in Panels, NEW nonce, NEW result PROVE Keeps(p, Tell(p, nonce, result))
<1> DEFINE s == Line(p)
           o == IF result \in {"ABORTED", "FAILED"} THEN s.l.over \cup {nonce} ELSE s.l.over
           q == [s EXCEPT !.l = [s.l EXCEPT !.over = o]]
<1>1. s \in Panels BY LineShape
<1>2. Keeps(p, s) BY LineKeeps
<1>3. Tell(p, nonce, result) = q BY DEF Tell
<1> HIDE DEF s, o
<1>4. q.n = s.n /\ q.l.sent = s.l.sent /\ q.l.fine = s.l.fine /\ q.l.well = s.l.well
  BY <1>1 DEF Panels, Logs
<1> QED BY <1>2, <1>3, <1>4 DEF Keeps

-------------------------------------------------------------------------------
(* Joins *)

LEMMA DarkShape ==
    ASSUME NEW p \in Panels
    PROVE  LET q == Dark(p)
           IN  /\ q \in Panels /\ q.l = p.l /\ q.n = [p.n EXCEPT !.enabled = FALSE]
               /\ q.w = [p.w EXCEPT !.auto = FALSE, !.want = None]
<1> DEFINE m == [p.n EXCEPT !.enabled = FALSE]
           s == [p EXCEPT !.n = m]
           w == [s.w EXCEPT !.auto = FALSE, !.want = None]
           q == [s EXCEPT !.w = w]
<1>1. p.n \in Nets /\ p.w \in Wifis BY DEF Panels
<1>2. m \in Nets BY <1>1 DEF Nets
<1>3. Dark(p) = q BY DEF Dark, Disconnect
<1> HIDE DEF m
<1>4. s \in Panels /\ s.n = m /\ s.w = p.w /\ s.l = p.l BY <1>2, NetChanged
<1> HIDE DEF s
<1>5. w \in Wifis BY <1>1, <1>4 DEF Wifis, Saved
<1>6. q \in Panels /\ q.n = s.n /\ q.w = w /\ q.l = s.l BY <1>4, <1>5, DriverChanged
<1> QED BY <1>3, <1>4, <1>6 DEF m

(* The two kinds of join: of the committed profile, and on trial. *)
Rejoin(p, profile, origin) == BeginJoin(p, profile, FALSE, origin)
TrialJoin(p, profile) == BeginJoin(p, profile, TRUE, "explicit")

JoinPolicy(n, origin) == IF origin = "explicit" THEN Enabled ELSE n.policy
RejoinNet(n, profile, origin) ==
    [n EXCEPT !.target = profile, !.applying = FALSE, !.retry = FALSE, !.enabled = TRUE,
              !.connecting = TRUE, !.opAge = 0, !.guard = NoGuard, !.policy = JoinPolicy(n, origin)]
TrialNet(n, profile) ==
    [n EXCEPT !.target = profile, !.applying = TRUE, !.retry = FALSE, !.enabled = TRUE,
              !.connecting = TRUE, !.opAge = 0, !.guard = NoGuard, !.policy = Disabled]
JoinDriver(w, profile) == [w EXCEPT !.want = profile, !.auto = FALSE, !.address = FALSE]

LEMMA RejoinShape ==
    ASSUME NEW p \in Panels, NEW profile \in Saved, NEW origin
    PROVE  LET q == Rejoin(p, profile, origin)
           IN  /\ q \in Panels /\ q.l = p.l
               /\ q.n = RejoinNet(p.n, profile, origin) /\ q.w = JoinDriver(p.w, profile)
<1> DEFINE m == RejoinNet(p.n, profile, origin)
           s == [p EXCEPT !.n = m]
           w == JoinDriver(s.w, profile)
           q == [s EXCEPT !.w = w]
<1>1. p.n \in Nets /\ p.w \in Wifis BY DEF Panels
<1>2. NoGuard \in GuardType BY Ages DEF NoGuard, GuardType
<1>3. JoinPolicy(p.n, origin) \in PolicyType
  <2>1. p.n.policy \in PolicyType BY <1>1 DEF Nets
  <2>2. Disabled \in PolicyType /\ Enabled \in PolicyType BY <2>1, PolicyTypes
  <2> QED BY <2>1, <2>2 DEF JoinPolicy
<1>4. Rejoin(p, profile, origin) = q BY DEF BeginJoin, Rejoin, RejoinNet, JoinPolicy, JoinDriver
<1>5. m \in Nets BY <1>1, <1>2, <1>3, Ages DEF Nets, RejoinNet
<1> HIDE DEF m
<1>6. s \in Panels /\ s.n = m /\ s.w = p.w /\ s.l = p.l BY <1>5, NetChanged
<1> HIDE DEF s
<1>7. w \in Wifis BY <1>1, <1>6 DEF Wifis, JoinDriver
<1> HIDE DEF w
<1>8. q \in Panels /\ q.n = s.n /\ q.w = w /\ q.l = s.l BY <1>6, <1>7, DriverChanged
<1> QED BY <1>4, <1>6, <1>8 DEF m, w

LEMMA TrialShape ==
    ASSUME NEW p \in Panels, NEW profile \in Saved
    PROVE  LET q == TrialJoin(p, profile)
           IN  /\ q \in Panels /\ q.l = p.l
               /\ q.n = TrialNet(p.n, profile) /\ q.w = JoinDriver(p.w, profile)
<1> DEFINE m == TrialNet(p.n, profile)
           s == [p EXCEPT !.n = m]
           w == JoinDriver(s.w, profile)
           q == [s EXCEPT !.w = w]
<1>1. p.n \in Nets /\ p.w \in Wifis BY DEF Panels
<1>2. NoGuard \in GuardType BY Ages DEF NoGuard, GuardType
<1>3. Disabled \in PolicyType
  <2>1. p.n.policy \in PolicyType BY <1>1 DEF Nets
  <2>2. Disabled \in PolicyType /\ Enabled \in PolicyType BY <2>1, PolicyTypes
  <2> QED BY <2>1, <2>2 DEF JoinPolicy
<1>4. TrialJoin(p, profile) = q BY DEF BeginJoin, TrialJoin, TrialNet, JoinDriver
<1>5. m \in Nets BY <1>1, <1>2, <1>3, Ages DEF Nets, TrialNet
<1> HIDE DEF m
<1>6. s \in Panels /\ s.n = m /\ s.w = p.w /\ s.l = p.l BY <1>5, NetChanged
<1> HIDE DEF s
<1>7. w \in Wifis BY <1>1, <1>6 DEF Wifis, JoinDriver
<1> HIDE DEF w
<1>8. q \in Panels /\ q.n = s.n /\ q.w = w /\ q.l = s.l BY <1>6, <1>7, DriverChanged
<1> QED BY <1>4, <1>6, <1>8 DEF m, w

(* A join of the committed profile; the network may have been off. *)
LEMMA JoinGood ==
    ASSUME NEW p, NEW origin, Core(p), p.n.active # None, ~p.n.trial,
           origin = "explicit" \/ (p.n.policy.enabled /\ ~p.n.policy.paused)
    PROVE  Good(Rejoin(p, p.n.active, origin))
<1> DEFINE q == Rejoin(p, p.n.active, origin)
           m == RejoinNet(p.n, p.n.active, origin)
           w == JoinDriver(p.w, p.n.active)
           policy == JoinPolicy(p.n, origin)
<1>1. p.n \in Nets /\ p.w \in Wifis /\ p.n.active \in Saved /\ p \in Panels BY DEF Core, Panels, Nets
<1>2. q \in Panels /\ q.l = p.l /\ q.n = m /\ q.w = w BY <1>1, RejoinShape
<1>3. policy.enabled /\ ~policy.paused BY DEF Enabled, Disabled, JoinPolicy
<1> HIDE DEF q, policy
<1>4. /\ m.trial = p.n.trial /\ m.applyN = p.n.applyN /\ m.pending = p.n.pending
      /\ m.trialUp = p.n.trialUp /\ m.exportN = p.n.exportN /\ ~m.applying
      /\ m.connecting /\ m.enabled /\ ~m.retry /\ m.target = p.n.active /\ m.active = p.n.active
      /\ m.policy = policy /\ m.open = p.n.open /\ m.commitN = p.n.commitN
      /\ m.abortN = p.n.abortN /\ m.result = p.n.result /\ m.completion = p.n.completion
      /\ m.claimed = p.n.claimed /\ m.releasing = p.n.releasing /\ m.worker = p.n.worker
      /\ m.secret = p.n.secret /\ m.draining = p.n.draining
  BY <1>1 DEF Nets, RejoinNet, policy
<1>5. w.want = p.n.active /\ ~w.address BY <1>1 DEF Wifis, JoinDriver
<1> HIDE DEF m, w
<1>6. OnTrial(m, p.l) BY <1>4 DEF Core, OnTrial
<1>7. Concluded(m, p.l) BY <1>4 DEF Core, OnTrial, Concluded
<1>8. Joining(m, w) BY <1>3, <1>4, <1>5 DEF Core, OnTrial, Joining
<1>9. Wired(m) BY <1>4 DEF Core, Wired
<1> QED BY <1>2, <1>6, <1>7, <1>8, <1>9 DEF Good, Core, q

(* The network goes off: no trial may be up. *)
LEMMA DarkCore ==
    ASSUME NEW p, Core(p), ~p.n.trialUp
    PROVE  LET q == Dark(p)
           IN  /\ Core(q) /\ q.l = p.l /\ q.n = [p.n EXCEPT !.enabled = FALSE]
               /\ q.w.want = None /\ q.w.address = p.w.address
<1> DEFINE q == Dark(p)
           m == [p.n EXCEPT !.enabled = FALSE]
<1>1. p \in Panels /\ p.n \in Nets /\ p.w \in Wifis BY DEF Core, Panels
<1>2. q \in Panels /\ q.l = p.l /\ q.n = m /\ q.w = [p.w EXCEPT !.auto = FALSE, !.want = None]
  BY <1>1, DarkShape
<1> HIDE DEF q
<1>3. q.w.want = None /\ q.w.address = p.w.address BY <1>1, <1>2 DEF Wifis
<1>4. OnTrial(m, p.l) BY <1>1 DEF Core, OnTrial, Nets
<1>5. Concluded(m, p.l) BY <1>1 DEF Core, Concluded, Nets
<1>6. Wired(m) BY <1>1 DEF Core, Wired, Nets
<1> QED BY <1>2, <1>3, <1>4, <1>5, <1>6 DEF Core, q

(* A network change leaves a good panel when its parts hold of it. *)
LEMMA Parts ==
    ASSUME NEW p \in Panels, NEW m \in Nets,
           OnTrial(m, p.l), Concluded(m, p.l), Wired(m)
    PROVE  LET q == [p EXCEPT !.n = m]
           IN  /\ Core(q) /\ q.n = m /\ q.w = p.w /\ q.l = p.l
               /\ Joining(m, p.w) => Good(q)
BY NetChanged DEF Core, Good

Ended(n, result, completion) ==
    [n EXCEPT !.trial = FALSE, !.trialUp = FALSE, !.connecting = FALSE, !.applying = FALSE,
              !.abortN = n.applyN, !.pending = None, !.result = result, !.completion = completion]

LEMMA EndedNet ==
    ASSUME NEW n \in Nets, NEW r \in Results, NEW c \in BOOLEAN
    PROVE  LET m == Ended(n, r, c)
           IN  /\ m \in Nets
               /\ ~m.trial /\ ~m.trialUp /\ ~m.connecting /\ ~m.applying /\ m.abortN = n.applyN
               /\ m.pending = None /\ m.result = r /\ m.retry = n.retry /\ m.open = n.open
               /\ m.exportN = n.exportN /\ m.applyN = n.applyN /\ m.commitN = n.commitN
               /\ m.active = n.active /\ m.policy = n.policy /\ m.claimed = n.claimed
               /\ m.releasing = n.releasing /\ m.worker = n.worker /\ m.secret = n.secret
               /\ m.draining = n.draining
<1>1. None \in Saved /\ n.applyN \in Named BY DEF Saved, Nets
<1>2. Ended(n, r, c) \in Nets BY <1>1 DEF Ended, Nets
<1> QED BY <1>1, <1>2 DEF Ended, Nets

LEMMA AbortGood ==
    ASSUME NEW p, Good(p), p.n.trial, NEW automatic \in BOOLEAN
    PROVE  LET q == AbortTrial(p, automatic)
           IN  /\ Good(q) /\ Keeps(p, q) /\ q.n.applyN = p.n.applyN /\ q.n.result \in Over
               /\ ~q.n.trialUp /\ ~q.n.trial
<1> DEFINE r == IF automatic THEN "FAILED" ELSE "ABORTED"
           c == p.n.completion \/ automatic
           m == Ended(p.n, r, c)
           s == [p EXCEPT !.n = m]
           v == Revoke(s)
           off == Dark(v)
           k == [off.n EXCEPT !.target = None, !.rescan = TRUE]
           idle == [off EXCEPT !.n = k]
<1>1. p \in Panels /\ p.n \in Nets BY DEF Good, Core, Panels
<1>2. r \in Over /\ r \in Results BY DEF Over, Results
<1>3. c \in BOOLEAN BY <1>1 DEF Nets
<1>4. AbortTrial(p, automatic) =
        IF p.n.active # None THEN Rejoin(off, p.n.active, "explicit") ELSE idle
  BY Zenon DEF AbortTrial, Rejoin, Ended
<1> HIDE DEF r, c
<1>5. m \in Nets BY <1>1, <1>2, <1>3, EndedNet
<1>6. /\ ~m.trial /\ ~m.trialUp /\ ~m.connecting /\ ~m.applying /\ m.abortN = p.n.applyN
      /\ m.pending = None /\ m.result = r /\ m.retry = p.n.retry /\ m.open = p.n.open
      /\ m.exportN = p.n.exportN /\ m.applyN = p.n.applyN /\ m.commitN = p.n.commitN
      /\ m.active = p.n.active /\ m.policy = p.n.policy /\ m.claimed = p.n.claimed
      /\ m.releasing = p.n.releasing /\ m.worker = p.n.worker /\ m.secret = p.n.secret
      /\ m.draining = p.n.draining
  BY <1>1, <1>2, <1>3, EndedNet
<1>7. /\ p.n.applyN \in Nonces /\ ~p.n.retry /\ ~p.n.open /\ p.n.exportN = None
      /\ p.n.commitN = None /\ p.n.applyN # None
  BY Names DEF Good, Core, OnTrial, Concluded
<1> HIDE DEF m
<1>8. OnTrial(m, p.l) BY <1>6, <1>7 DEF OnTrial
<1>9. Concluded(m, p.l) BY <1>2, <1>6, <1>7 DEF Good, Core, Concluded
<1>10. Wired(m) BY <1>6 DEF Good, Core, Wired
<1>11. Core(s) /\ s.n = m /\ s.w = p.w /\ s.l = p.l BY <1>1, <1>5, <1>8, <1>9, <1>10, Parts
<1> HIDE DEF s
<1>12. /\ Core(v) /\ v.w = s.w /\ v.l = s.l
       /\ v.n = [s.n EXCEPT !.open = FALSE, !.exportN = None, !.claimed = v.n.claimed,
                            !.releasing = v.n.releasing, !.worker = v.n.worker]
  BY <1>11, RevokeCore, RevokeShape DEF Core
<1>13. v.n \in Nets BY <1>12 DEF Core, Panels
<1> HIDE DEF v
<1>14. /\ ~v.n.trial /\ ~v.n.trialUp /\ ~v.n.connecting /\ v.n.result = r
       /\ v.n.applyN = p.n.applyN /\ v.n.commitN = p.n.commitN /\ v.n.active = p.n.active
       /\ v.n.policy = p.n.policy /\ v.n.retry = p.n.retry
  <2>1. /\ v.n.trial = s.n.trial /\ v.n.trialUp = s.n.trialUp /\ v.n.connecting = s.n.connecting
        /\ v.n.result = s.n.result /\ v.n.applyN = s.n.applyN /\ v.n.commitN = s.n.commitN
        /\ v.n.active = s.n.active /\ v.n.policy = s.n.policy /\ v.n.retry = s.n.retry
    BY <1>5, <1>11, <1>12, <1>13 DEF Nets
  <2> QED BY <1>6, <1>11, <2>1
<1>15. Core(off) /\ off.n = [v.n EXCEPT !.enabled = FALSE] /\ off.w.want = None /\ off.l = p.l
  BY <1>11, <1>12, <1>14, DarkCore
<1>16. off \in Panels /\ off.n \in Nets BY <1>15 DEF Core, Panels
<1> HIDE DEF off
<1>17. /\ ~off.n.trial /\ ~off.n.trialUp /\ ~off.n.connecting /\ off.n.result = r
       /\ off.n.applyN = p.n.applyN /\ off.n.commitN = p.n.commitN
       /\ off.n.active = p.n.active /\ off.n.policy = p.n.policy /\ ~off.n.retry
       /\ ~off.n.enabled
  BY <1>7, <1>13, <1>14, <1>15, <1>16 DEF Nets
<1>18. CASE p.n.active # None
  <2> DEFINE q == Rejoin(off, off.n.active, "explicit")
  <2>1. Good(q) BY <1>15, <1>17, <1>18, JoinGood
  <2>2. off.n.active \in Saved BY <1>16 DEF Nets
  <2>3. q.n = RejoinNet(off.n, off.n.active, "explicit") /\ q.l = off.l BY <1>16, <2>2, RejoinShape
  <2>4. q = AbortTrial(p, automatic) BY <1>4, <1>17, <1>18
  <2> HIDE DEF q
  <2>5. /\ q.n.applyN = off.n.applyN /\ q.n.result = off.n.result /\ q.n.trialUp = off.n.trialUp
        /\ q.n.commitN = off.n.commitN /\ q.n.trial = off.n.trial /\ q.n.active = off.n.active
        /\ q.n.policy = Enabled
    BY <1>16, <2>3 DEF RejoinNet, JoinPolicy, Nets
  <2>6. ~Enabled.known /\ ~Enabled.connected BY DEF Enabled, Disabled
  <2>7. Keeps(p, q) BY <1>15, <1>17, <2>3, <2>5, <2>6 DEF Keeps, PolicyStep
  <2> QED BY <1>2, <1>17, <2>1, <2>4, <2>5, <2>7
<1>19. CASE p.n.active = None
  <2>1. k \in Nets BY <1>16 DEF Nets, Saved
  <2>2. /\ k.trial = off.n.trial /\ k.trialUp = off.n.trialUp /\ k.connecting = off.n.connecting
        /\ k.applyN = off.n.applyN /\ k.result = off.n.result /\ k.commitN = off.n.commitN
        /\ k.retry = off.n.retry /\ k.pending = off.n.pending /\ k.applying = off.n.applying
        /\ k.exportN = off.n.exportN /\ k.abortN = off.n.abortN /\ k.completion = off.n.completion
        /\ k.open = off.n.open /\ k.active = off.n.active /\ k.policy = off.n.policy
        /\ k.enabled = off.n.enabled /\ k.claimed = off.n.claimed
        /\ k.releasing = off.n.releasing /\ k.worker = off.n.worker /\ k.secret = off.n.secret
        /\ k.draining = off.n.draining
    BY <1>16 DEF Nets
  <2> HIDE DEF k
  <2>3. OnTrial(k, off.l) BY <1>15, <1>17, <2>2 DEF Core, OnTrial
  <2>4. Concluded(k, off.l) BY <1>15, <2>2 DEF Core, Concluded
  <2>5. Wired(k) BY <1>15, <2>2 DEF Core, Wired
  <2>6. Joining(k, off.w) BY <1>15, <1>17, <1>19, <2>2 DEF Good, Joining
  <2>7. Good(idle) /\ idle.n = k /\ idle.l = off.l
    BY <1>16, <2>1, <2>3, <2>4, <2>5, <2>6, Parts
  <2>8. Keeps(p, idle) BY <1>15, <1>17, <2>2, <2>7 DEF Keeps, PolicyStep
  <2> QED BY <1>2, <1>4, <1>17, <1>19, <2>2, <2>7, <2>8
<1> QED BY <1>18, <1>19

-------------------------------------------------------------------------------
(* Requests of the host *)

PausedNet(n, idle) == [Pause(n, idle) EXCEPT !.claimed = TRUE]
SentNet(n, nonce) ==
    [n EXCEPT !.tx = TRUE, !.exportN = nonce, !.secret = TRUE, !.releasing = TRUE]

LEMMA PausedNets ==
    ASSUME NEW n \in Nets, NEW idle \in BOOLEAN
    PROVE  LET m == PausedNet(n, idle)
           IN  /\ m \in Nets /\ m.claimed /\ (n.worker = "idle" => m.worker = "idle")
               /\ m = [n EXCEPT !.claimed = TRUE, !.worker = m.worker]
<1> DEFINE v == IF n.worker # "running" THEN n.worker ELSE IF idle THEN "idle" ELSE "stopping"
           k == [n EXCEPT !.worker = v]
           m == [k EXCEPT !.claimed = TRUE]
<1>1. v \in {"running", "stopping", "idle"} /\ (n.worker = "idle" => v = "idle") BY DEF Nets
<1>2. PausedNet(n, idle) = m BY DEF PausedNet, Pause
<1> HIDE DEF v
<1>3. k \in Nets BY <1>1 DEF Nets
<1>4. m \in Nets /\ m.claimed /\ m.worker = v BY <1>1, <1>3 DEF Nets
<1>5. m = [n EXCEPT !.claimed = TRUE, !.worker = v] BY <1>1 DEF Nets
<1> HIDE DEF m
<1> QED BY <1>1, <1>2, <1>4, <1>5

LEMMA SentNets ==
    ASSUME NEW n \in Nets, NEW nonce \in Nonces
    PROVE  SentNet(n, nonce) \in Nets
<1>1. nonce \in Named BY DEF Named
<1> QED BY <1>1 DEF SentNet, Nets

LEMMA ProfileGood ==
    ASSUME NEW p, Good(p), NEW nonce \in Nonces, NEW idle \in BOOLEAN
    PROVE  Good(Profile(p, nonce, idle)) /\ Answers(p, Profile(p, nonce, idle))
<1> DEFINE m == PausedNet(p.n, idle)
           s == [p EXCEPT !.n = m]
           t == [p.l.sent EXCEPT ![nonce] = p.n.pending]
           l == [p.l EXCEPT !.sent = t]
           k == SentNet(m, nonce)
           q == [p EXCEPT !.n = k, !.l = l]
<1>1. p \in Panels /\ p.n \in Nets /\ p.l \in Logs /\ p.w \in Wifis BY DEF Good, Core, Panels
<1>2. /\ m \in Nets /\ m.claimed = TRUE /\ (p.n.worker = "idle" => m.worker = "idle")
      /\ m = [p.n EXCEPT !.claimed = TRUE, !.worker = m.worker]
  BY <1>1, PausedNets
<1> HIDE DEF m
<1>3. CASE Expired(p.n)
  <2> DEFINE v == Revoke(p)
  <2>1. Good(v) /\ Keeps(p, v) BY <1>1, RevokeGood, RevokeKeeps
  <2>2. Profile(p, nonce, idle) = Line(v) BY <1>3 DEF Profile
  <2> HIDE DEF v
  <2>3. Good(Line(v)) /\ Keeps(v, Line(v)) BY <2>1, LineGood, LineKeeps DEF Good, Core
  <2> QED BY <2>1, <2>2, <2>3, StepsAdd
<1>4. CASE ~Expired(p.n) /\ (p.n.pending = None \/ p.n.exportN \notin {None, nonce})
  BY <1>1, <1>4, LineGood, LineKeeps, StepsAdd DEF Profile
<1>5. CASE ~Expired(p.n) /\ p.n.pending # None /\ p.n.exportN \in {None, nonce}
  <2>1. /\ p.n.open /\ p.n.applyN = None /\ ~p.n.trial /\ p.l.over = {}
        /\ ~p.n.applying /\ ~p.n.trialUp
    BY <1>1, <1>5, Names DEF Expired, Good, Core, Concluded, OnTrial
  <2>2. s \in Panels /\ s.n = m /\ s.w = p.w /\ s.l = p.l BY <1>1, <1>2, NetChanged
  <2>3. Good(s)
    <3>1. OnTrial(m, p.l) BY <1>1, <1>2 DEF Good, Core, OnTrial, Nets
    <3>2. Concluded(m, p.l) BY <1>1, <1>2 DEF Good, Core, Concluded, Nets
    <3>3. Joining(m, p.w) BY <1>1, <1>2 DEF Good, Core, Joining, Nets
    <3>4. m.open = p.n.open /\ m.secret = p.n.secret /\ m.draining = p.n.draining
      BY <1>1, <1>2 DEF Nets
    <3>5. Wired(m) BY <1>2, <2>1, <3>4 DEF Good, Core, Wired
    <3> QED BY <2>2, <3>1, <3>2, <3>3, <3>5 DEF Good, Core
  <2>4. CASE m.worker # "idle"
    <3>1. Profile(p, nonce, idle) = Line(s) BY <1>5, <2>2, <2>4 DEF Profile, m, PausedNet
    <3>2. m.commitN = p.n.commitN /\ m.active = p.n.active /\ m.policy = p.n.policy
      BY <1>1, <1>2 DEF Nets
    <3>3. Keeps(p, s) BY <2>2, <3>2 DEF Keeps, PolicyStep
    <3> HIDE DEF s
    <3> HIDE DEF m
    <3>4. Good(Line(s)) /\ Keeps(s, Line(s)) BY <2>2, <2>3, LineGood, LineKeeps
    <3>5. Answers(p, Line(s)) BY <3>3, <3>4, StepsAdd
    <3> QED BY <3>1, <3>4, <3>5
  <2>5. CASE m.worker = "idle"
    <3>1. p.n.pending \in Profiles BY <1>1, <1>5 DEF Nets, Saved
    <3>2. t \in [Nonces -> Saved] /\ t[nonce] = p.n.pending BY <1>1, <3>1 DEF Logs, Saved
    <3> HIDE DEF t
    <3>3. /\ l \in Logs /\ l.sent = t /\ l.over = p.l.over
          /\ l.fine = p.l.fine /\ l.well = p.l.well
      BY <1>1, <3>2 DEF Logs
    <3>4. k \in Nets BY <1>2, SentNets
    <3> HIDE DEF l
    <3>5. q \in Panels /\ q.n = k /\ q.w = p.w /\ q.l = l BY <1>1, <3>3, <3>4 DEF Panels
    <3>6. /\ k.exportN = nonce /\ k.claimed /\ k.releasing /\ k.worker = "idle"
          /\ k.trial = p.n.trial /\ k.applying = p.n.applying /\ k.trialUp = p.n.trialUp
          /\ k.pending = p.n.pending /\ k.applyN = p.n.applyN /\ k.commitN = p.n.commitN
          /\ k.abortN = p.n.abortN /\ k.result = p.n.result /\ k.completion = p.n.completion
          /\ k.connecting = p.n.connecting /\ k.target = p.n.target /\ k.enabled = p.n.enabled
          /\ k.retry = p.n.retry /\ k.active = p.n.active /\ k.policy = p.n.policy
      <4>1. /\ k.exportN = nonce /\ k.claimed = m.claimed /\ k.releasing /\ k.worker = m.worker
            /\ k.trial = m.trial /\ k.applying = m.applying /\ k.trialUp = m.trialUp
            /\ k.pending = m.pending /\ k.applyN = m.applyN /\ k.commitN = m.commitN
            /\ k.abortN = m.abortN /\ k.result = m.result /\ k.completion = m.completion
            /\ k.connecting = m.connecting /\ k.target = m.target /\ k.enabled = m.enabled
            /\ k.retry = m.retry /\ k.active = m.active /\ k.policy = m.policy
        BY <1>2 DEF Nets, SentNet
      <4>2. /\ m.trial = p.n.trial /\ m.applying = p.n.applying /\ m.trialUp = p.n.trialUp
              /\ m.pending = p.n.pending /\ m.applyN = p.n.applyN /\ m.commitN = p.n.commitN
              /\ m.abortN = p.n.abortN /\ m.result = p.n.result /\ m.completion = p.n.completion
              /\ m.connecting = p.n.connecting /\ m.target = p.n.target /\ m.enabled = p.n.enabled
              /\ m.retry = p.n.retry /\ m.active = p.n.active /\ m.policy = p.n.policy
        BY <1>1, <1>2 DEF Nets
      <4> QED BY <1>2, <2>5, <4>1, <4>2
    <3> HIDE DEF k
    <3>7. OnTrial(k, l) BY <2>1, <3>1, <3>2, <3>3, <3>6 DEF OnTrial
    <3>8. Concluded(k, l) BY <2>1, <3>3, <3>6 DEF Good, Core, Concluded
    <3>9. Joining(k, p.w) BY <3>6 DEF Good, Joining
    <3>10. Wired(k) BY <3>6 DEF Wired
    <3>11. Good(q) BY <3>5, <3>7, <3>8, <3>9, <3>10 DEF Good, Core
    <3>12. Profile(p, nonce, idle) = q
      <4>1. Profile(p, nonce, idle) =
              [Line(s) EXCEPT !.n = [@ EXCEPT !.exportN = nonce, !.secret = TRUE, !.releasing = TRUE],
                              !.l.sent[nonce] = p.n.pending]
        BY <1>5, <2>2, <2>5 DEF Profile, m, PausedNet
      <4> QED BY <1>1, <1>2, <2>2, <4>1 DEF Line, k, SentNet, l, t, Panels, Nets, Logs
    <3>13. Answers(p, q) BY <3>3, <3>5, <3>6 DEF Answers, PolicyStep
    <3> QED BY <3>11, <3>12, <3>13
  <2> QED BY <2>4, <2>5
<1> QED BY <1>3, <1>4, <1>5

TriedNet(n, nonce) ==
    [n EXCEPT !.applyN = nonce, !.result = "APPLYING", !.trial = TRUE, !.trialUp = FALSE,
              !.setupAge = 0]

LEMMA TriedNets ==
    ASSUME NEW n \in Nets, NEW nonce \in Nonces
    PROVE  TriedNet(n, nonce) \in Nets
<1>1. nonce \in Named /\ "APPLYING" \in Results BY DEF Named, Results
<1> QED BY <1>1, Ages DEF TriedNet, Nets

LEMMA ApplyGood ==
    ASSUME NEW p, Good(p), NEW nonce \in Nonces
    PROVE  Good(Apply(p, nonce)) /\ Keeps(p, Apply(p, nonce))
<1> DEFINE k == TriedNet(p.n, nonce)
           s == [p EXCEPT !.n = k]
           v == Revoke(s)
           t == Line(v)
           q == TrialJoin(t, p.n.pending)
           m == q.n
<1>1. p \in Panels /\ p.n \in Nets /\ p.w \in Wifis BY DEF Good, Core, Panels
<1>2. nonce # None BY Names
<1>3. CASE p.n.applyN = nonce
  BY <1>1, <1>2, <1>3, TellGood, TellKeeps DEF Apply
<1>4. CASE p.n.applyN # nonce /\ (Expired(p.n) \/ p.n.exportN # nonce \/ RadioBusy(p.n))
  BY <1>1, <1>4, LineGood, LineKeeps DEF Apply
<1>5. CASE p.n.applyN # nonce /\ ~Expired(p.n) /\ p.n.exportN = nonce /\ ~RadioBusy(p.n)
  <2>1. /\ p.n.applyN = None /\ p.l.over = {} /\ p.l.sent[nonce] = p.n.pending
        /\ p.n.pending \in Profiles /\ p.n.commitN = None /\ p.n.abortN = None
    BY <1>2, <1>5 DEF Expired, Good, Core, OnTrial, Concluded
  <2>2. k \in Nets BY <1>1, TriedNets
  <2>3. s \in Panels /\ s.n = k /\ s.w = p.w /\ s.l = p.l BY <1>1, <2>2, NetChanged
  <2>4. Wired(k)
    <3>1. /\ k.secret = p.n.secret /\ k.draining = p.n.draining /\ k.claimed = p.n.claimed
          /\ k.worker = p.n.worker /\ k.open = p.n.open /\ k.releasing = p.n.releasing
      BY <1>1 DEF TriedNet, Nets
    <3> QED BY <3>1 DEF Good, Core, Wired
  <2>5. k.applyN = nonce /\ k.result = "APPLYING" /\ k.trial = TRUE /\ k.trialUp = FALSE
        /\ k.pending = p.n.pending /\ k.active = p.n.active /\ k.commitN = p.n.commitN
        /\ k.abortN = p.n.abortN
    BY <1>1 DEF TriedNet, Nets
  <2> HIDE DEF k, s
  <2>6. /\ v \in Panels /\ v.w = s.w /\ v.l = s.l /\ Wired(v.n)
        /\ v.n = [s.n EXCEPT !.open = FALSE, !.exportN = None, !.claimed = v.n.claimed,
                             !.releasing = v.n.releasing, !.worker = v.n.worker]
    BY <2>3, <2>4, RevokeShape
  <2> HIDE DEF v
  <2>7. t \in Panels /\ t.n = [v.n EXCEPT !.tx = TRUE] /\ t.w = v.w /\ t.l = v.l
    BY <2>6, LineShape
  <2>8. v.n \in Nets /\ t.n \in Nets /\ t.w \in Wifis BY <2>6, <2>7 DEF Panels
  <2> HIDE DEF t
  <2>9. p.n.pending \in Saved BY <2>1 DEF Saved
  <2>10. /\ q \in Panels /\ q.l = t.l /\ m = TrialNet(t.n, p.n.pending)
         /\ q.w = JoinDriver(t.w, p.n.pending)
    BY <2>7, <2>9, TrialShape
  <2>11. m \in Nets BY <2>10 DEF Panels
  <2>12. Apply(p, nonce) = q
    <3>1. Apply(p, nonce) = BeginJoin(Line(Revoke([p EXCEPT !.n = TriedNet(p.n, nonce)])), p.n.pending, TRUE, "explicit")
      BY <1>5 DEF Apply, TriedNet
    <3> QED BY <3>1 DEF TrialJoin, t, v, s, k
  <2> HIDE DEF q
  <2>13. /\ v.n.applyN = nonce /\ v.n.result = "APPLYING" /\ v.n.trial = TRUE /\ v.n.trialUp = FALSE
         /\ v.n.pending = p.n.pending /\ v.n.active = p.n.active /\ v.n.commitN = p.n.commitN
         /\ v.n.abortN = p.n.abortN /\ v.n.open = FALSE /\ v.n.exportN = None
    <3>1. /\ v.n.applyN = k.applyN /\ v.n.result = k.result /\ v.n.trial = k.trial
          /\ v.n.trialUp = k.trialUp /\ v.n.pending = k.pending /\ v.n.active = k.active
          /\ v.n.commitN = k.commitN /\ v.n.abortN = k.abortN /\ v.n.open = FALSE
          /\ v.n.exportN = None
      BY <2>2, <2>3, <2>6, <2>8 DEF Nets
    <3> QED BY <2>5, <3>1
  <2>14. /\ t.n.applyN = v.n.applyN /\ t.n.result = v.n.result /\ t.n.trial = v.n.trial
         /\ t.n.trialUp = v.n.trialUp /\ t.n.pending = v.n.pending /\ t.n.active = v.n.active
         /\ t.n.commitN = v.n.commitN /\ t.n.abortN = v.n.abortN /\ t.n.open = v.n.open
         /\ t.n.exportN = v.n.exportN /\ t.n.claimed = v.n.claimed /\ t.n.secret = v.n.secret
         /\ t.n.releasing = v.n.releasing /\ t.n.worker = v.n.worker
         /\ t.n.draining = v.n.draining
    BY <2>7, <2>8 DEF Nets
  <2>15. /\ m.applyN = t.n.applyN /\ m.result = t.n.result /\ m.trial = t.n.trial
         /\ m.trialUp = t.n.trialUp /\ m.pending = t.n.pending /\ m.active = t.n.active
         /\ m.commitN = t.n.commitN /\ m.abortN = t.n.abortN /\ m.open = t.n.open
         /\ m.exportN = t.n.exportN /\ m.claimed = t.n.claimed /\ m.secret = t.n.secret
         /\ m.releasing = t.n.releasing /\ m.worker = t.n.worker
         /\ m.draining = t.n.draining /\ m.target = p.n.pending /\ m.applying /\ ~m.retry
         /\ m.enabled /\ m.connecting /\ m.policy = Disabled
    BY <2>8, <2>10 DEF TrialNet, Nets
  <2>16. q.w.want = p.n.pending /\ ~q.w.address BY <2>8, <2>10 DEF JoinDriver, Wifis
  <2> HIDE DEF m
  <2>17. q.l = p.l BY <2>3, <2>6, <2>7, <2>10
  <2>18. OnTrial(m, q.l) BY <2>1, <2>13, <2>14, <2>15, <2>17 DEF OnTrial
  <2>19. Concluded(m, q.l) BY <1>2, <2>1, <2>13, <2>14, <2>15, <2>17 DEF Concluded, Over
  <2>20. Wired(m) BY <2>6, <2>14, <2>15 DEF Wired
  <2>21. Joining(m, q.w)
    <3>1. ~m.policy.paused BY <2>15 DEF Disabled
    <3>2. p.n.pending # None BY <2>1, Names
    <3> QED BY <2>13, <2>14, <2>15, <2>16, <3>1, <3>2 DEF Joining
  <2>22. Keeps(p, q)
    <3>1. ~m.policy.known /\ ~m.policy.connected BY <2>15 DEF Disabled
    <3> QED BY <2>5, <2>13, <2>14, <2>15, <2>17, <3>1 DEF Keeps, PolicyStep, m
  <2> QED BY <2>10, <2>12, <2>18, <2>19, <2>20, <2>21, <2>22 DEF Good, Core, m
<1> QED BY <1>3, <1>4, <1>5

CommittedNet(n, nonce) ==
    [n EXCEPT !.active = n.target, !.pending = None, !.trial = FALSE, !.trialUp = FALSE,
              !.commitN = nonce, !.result = "COMMITTED", !.policy = Enabled]

LEMMA CommittedNets ==
    ASSUME NEW n \in Nets, NEW nonce \in Nonces
    PROVE  LET m == CommittedNet(n, nonce)
           IN  /\ m \in Nets /\ m.active = n.target /\ m.pending = None /\ ~m.trial /\ ~m.trialUp
               /\ m.commitN = nonce /\ m.result = "COMMITTED" /\ m.policy = Enabled
               /\ m.applyN = n.applyN /\ m.retry = n.retry /\ m.target = n.target
               /\ m.applying = n.applying /\ m.connecting = n.connecting /\ m.exportN = n.exportN
               /\ m.enabled = n.enabled /\ m.open = n.open /\ m.abortN = n.abortN
               /\ m.completion = n.completion /\ m.secret = n.secret /\ m.draining = n.draining
               /\ m.claimed = n.claimed /\ m.releasing = n.releasing /\ m.worker = n.worker
<1>1. n.policy \in PolicyType BY DEF Nets
<1>2. Enabled \in PolicyType BY <1>1, PolicyTypes
<1>3. nonce \in Named /\ None \in Saved /\ "COMMITTED" \in Results BY DEF Named, Saved, Results
<1>4. n.target \in Saved BY DEF Nets
<1>5. CommittedNet(n, nonce) \in Nets BY <1>2, <1>3, <1>4 DEF CommittedNet, Nets
<1> QED BY <1>5 DEF CommittedNet, Nets

LEMMA CommitGood ==
    ASSUME NEW p, Good(p), NEW nonce \in Nonces, NEW stored \in BOOLEAN
    PROVE  Good(Commit(p, nonce, stored)) /\ Answers(p, Commit(p, nonce, stored))
<1> DEFINE m == CommittedNet(p.n, nonce)
           s == [p EXCEPT !.n = m]
<1>1. p \in Panels /\ p.n \in Nets BY DEF Good, Core, Panels
<1>2. CASE p.n.commitN = nonce \/ ~Committable(p, nonce) \/ ~stored
  BY <1>1, <1>2, LineGood, LineKeeps, StepsAdd DEF Commit
<1>3. CASE p.n.commitN # nonce /\ Committable(p, nonce) /\ stored
  <2>1. p.n.applyN = nonce /\ p.n.trial /\ p.n.trialUp BY <1>3 DEF Committable
  <2>2. /\ ~p.n.applying /\ ~p.n.connecting /\ ~p.n.retry /\ p.n.enabled /\ p.n.target \in Works
        /\ p.n.target = p.l.sent[nonce] /\ p.n.exportN = None /\ ~p.n.open
        /\ p.n.abortN = None /\ p.l.over = {} /\ p.w.want \in {p.n.target, None}
    BY <2>1, Names DEF Good, Core, OnTrial, Concluded, Joining
  <2>3. Commit(p, nonce, stored) = Line(s) BY <1>3 DEF Commit, CommittedNet
  <2>4. /\ m \in Nets /\ m.active = p.n.target /\ m.pending = None /\ ~m.trial /\ ~m.trialUp
        /\ m.commitN = nonce /\ m.result = "COMMITTED" /\ m.policy = Enabled
        /\ m.applyN = p.n.applyN /\ m.retry = p.n.retry /\ m.target = p.n.target
        /\ m.applying = p.n.applying /\ m.connecting = p.n.connecting /\ m.exportN = p.n.exportN
        /\ m.enabled = p.n.enabled /\ m.open = p.n.open /\ m.abortN = p.n.abortN
        /\ m.completion = p.n.completion /\ m.secret = p.n.secret /\ m.draining = p.n.draining
        /\ m.claimed = p.n.claimed /\ m.releasing = p.n.releasing /\ m.worker = p.n.worker
    BY <1>1, CommittedNets
  <2> HIDE DEF m
  <2>5. OnTrial(m, p.l) BY <2>2, <2>4 DEF OnTrial
  <2>6. Concluded(m, p.l) BY <2>1, <2>2, <2>4, Names DEF Good, Core, Concluded, Over
  <2>7. Wired(m) BY <2>4 DEF Good, Core, Wired
  <2>8. Enabled.enabled /\ ~Enabled.paused /\ ~Enabled.known /\ ~Enabled.connected
    BY DEF Enabled, Disabled
  <2>9. Joining(m, p.w) BY <2>2, <2>4, <2>8 DEF Joining
  <2>10. Good(s) /\ s.n = m /\ s.l = p.l BY <1>1, <2>4, <2>5, <2>6, <2>7, <2>9, Parts
  <2> HIDE DEF s
  <2>11. Good(Line(s)) /\ Keeps(s, Line(s)) BY <2>10, LineGood, LineKeeps DEF Good, Core
  <2>12. Answers(p, s) BY <2>2, <2>4, <2>8, <2>10 DEF Answers, PolicyStep
  <2>13. Answers(p, Line(s)) BY <2>11, <2>12, StepsAdd
  <2> QED BY <2>3, <2>11, <2>13
<1> QED BY <1>2, <1>3

LEMMA AbortRequestGood ==
    ASSUME NEW p, Good(p), NEW nonce \in Nonces
    PROVE  Good(Abort(p, nonce)) /\ Keeps(p, Abort(p, nonce))
<1>1. p \in Panels BY DEF Good, Core
<1>2. nonce # None BY Names
<1>3. CASE p.n.commitN = nonce \/ (p.n.abortN # nonce /\ (~p.n.trial \/ p.n.applyN # nonce))
  BY <1>1, <1>3, LineGood, LineKeeps DEF Abort
<1>4. CASE p.n.commitN # nonce /\ p.n.abortN = nonce
  <2>1. p.n.applyN = nonce /\ p.n.result \in Over BY <1>2, <1>4 DEF Good, Core, Concluded
  <2>2. Good(Tell(p, nonce, "ABORTED")) BY <1>2, <2>1, TellGood
  <2> QED BY <1>1, <1>4, <2>2, TellKeeps DEF Abort
<1>5. CASE p.n.commitN # nonce /\ p.n.abortN # nonce /\ p.n.trial /\ p.n.applyN = nonce
  <2> DEFINE q == AbortTrial(p, FALSE)
  <2>1. Good(q) /\ Keeps(p, q) /\ q.n.applyN = p.n.applyN /\ q.n.result \in Over
    BY <1>5, AbortGood
  <2>2. Abort(p, nonce) = Tell(q, nonce, "ABORTED") BY <1>5 DEF Abort
  <2> HIDE DEF q
  <2>3. q \in Panels BY <2>1 DEF Good, Core
  <2>4. Good(Tell(q, nonce, "ABORTED")) BY <1>2, <1>5, <2>1, TellGood
  <2>5. Keeps(q, Tell(q, nonce, "ABORTED")) BY <2>3, TellKeeps
  <2> QED BY <2>1, <2>2, <2>4, <2>5, StepsAdd
<1> QED BY <1>3, <1>4, <1>5

LEMMA HandledGood ==
    ASSUME NEW p, Good(p), NEW q \in Requests
    PROVE  Good(Handled(p, q)) /\ Answers(p, Handled(p, q))
<1>1. q.nonce \in Nonces
      /\ q.command \in {"profile", "profile busy", "apply", "abort", "commit", "unstored"}
  BY DEF Requests
<1>2. Good(Profile(p, q.nonce, TRUE)) /\ Answers(p, Profile(p, q.nonce, TRUE))
  BY <1>1, ProfileGood
<1>3. Good(Profile(p, q.nonce, FALSE)) /\ Answers(p, Profile(p, q.nonce, FALSE))
  BY <1>1, ProfileGood
<1>4. Good(Apply(p, q.nonce)) /\ Answers(p, Apply(p, q.nonce))
  BY <1>1, ApplyGood, StepsAdd
<1>5. Good(Abort(p, q.nonce)) /\ Answers(p, Abort(p, q.nonce))
  BY <1>1, AbortRequestGood, StepsAdd
<1>6. Good(Commit(p, q.nonce, TRUE)) /\ Answers(p, Commit(p, q.nonce, TRUE))
  BY <1>1, CommitGood
<1>7. Good(Commit(p, q.nonce, FALSE)) /\ Answers(p, Commit(p, q.nonce, FALSE))
  BY <1>1, CommitGood
<1> QED BY <1>1, <1>2, <1>3, <1>4, <1>5, <1>6, <1>7 DEF Handled

-------------------------------------------------------------------------------
(* The serial line *)

(* A change of nothing that matters to the sessions, joins or claims. *)
Alike(m, n) ==
    /\ m.active = n.active /\ m.pending = n.pending /\ m.target = n.target
    /\ m.connecting = n.connecting /\ m.applying = n.applying /\ m.retry = n.retry
    /\ m.enabled = n.enabled /\ m.trial = n.trial /\ m.trialUp = n.trialUp /\ m.open = n.open
    /\ m.exportN = n.exportN /\ m.applyN = n.applyN /\ m.commitN = n.commitN
    /\ m.abortN = n.abortN /\ m.result = n.result /\ m.claimed = n.claimed
    /\ m.releasing = n.releasing /\ m.policy = n.policy /\ m.worker = n.worker
    /\ m.completion => n.completion
    /\ m.secret \/ m.draining => n.secret \/ n.draining

LEMMA AlikeGood ==
    ASSUME NEW p, Good(p), NEW m \in Nets, Alike(m, p.n)
    PROVE  LET q == [p EXCEPT !.n = m]
           IN  Good(q) /\ Keeps(p, q) /\ q.n = m /\ q.w = p.w /\ q.l = p.l
<1> DEFINE q == [p EXCEPT !.n = m]
<1>1. OnTrial(m, p.l) BY DEF Good, Core, OnTrial, Alike
<1>2. Concluded(m, p.l) BY DEF Good, Core, Concluded, Alike
<1>3. Wired(m) BY DEF Good, Core, Wired, Alike
<1>4. Joining(m, p.w) BY DEF Good, Joining, Alike
<1>5. Good(q) /\ q.n = m /\ q.w = p.w /\ q.l = p.l
  BY <1>1, <1>2, <1>3, <1>4, Parts DEF Good, Core
<1>6. Keeps(p, q) BY <1>5 DEF Keeps, PolicyStep, Alike
<1> QED BY <1>5, <1>6

LEMMA WrittenGood ==
    ASSUME NEW p, Good(p), NEW sent \in BOOLEAN
    PROVE  Good(Written(p, sent)) /\ Keeps(p, Written(p, sent))
<1> DEFINE m == [p.n EXCEPT !.tx = FALSE, !.secret = FALSE, !.draining = p.n.secret]
           q == [p EXCEPT !.n = m]
<1>1. p.n \in Nets BY DEF Good, Core, Panels
<1>2. m \in Nets BY <1>1 DEF Nets
<1>3. Alike(m, p.n) BY <1>1 DEF Alike, Nets
<1>4. Written(p, sent) = IF ~sent \/ ~p.n.tx THEN p ELSE q BY DEF Written
<1> HIDE DEF m
<1>5. Good(q) /\ Keeps(p, q) BY <1>2, <1>3, AlikeGood
<1>6. Keeps(p, p) BY DEF Keeps, PolicyStep
<1> HIDE DEF q
<1> QED BY <1>4, <1>5, <1>6

LEMMA CompletedGood ==
    ASSUME NEW p, Good(p)
    PROVE  Good(Completed(p)) /\ Keeps(p, Completed(p))
<1> DEFINE t == Tell(p, p.n.applyN, p.n.result)
           m == [t.n EXCEPT !.completion = FALSE]
           q == [t EXCEPT !.n = m]
<1>1. Keeps(p, p) BY DEF Keeps, PolicyStep
<1>2. CASE p.n.tx \/ ~p.n.completion BY <1>1, <1>2 DEF Completed
<1>3. CASE ~p.n.tx /\ p.n.completion
  <2>1. p.n.applyN # None BY <1>3 DEF Good, Core, Concluded
  <2>2. Good(t) BY <2>1, TellGood
  <2>3. Keeps(p, t) BY TellKeeps DEF Good, Core
  <2>4. Completed(p) = q BY <1>3 DEF Completed
  <2> HIDE DEF t
  <2>5. t.n \in Nets BY <2>2 DEF Good, Core, Panels
  <2>6. m \in Nets BY <2>5 DEF Nets
  <2>7. Alike(m, t.n) BY <2>5 DEF Alike, Nets
  <2> HIDE DEF m
  <2>8. Good(q) /\ Keeps(t, q) BY <2>2, <2>6, <2>7, AlikeGood
  <2> HIDE DEF q
  <2> QED BY <2>3, <2>4, <2>8, StepsAdd
<1> QED BY <1>2, <1>3

LEMMA PollSerialGood ==
    ASSUME NEW p, Good(p), NEW q \in Requests \cup {Silence}, NEW sent \in BOOLEAN
    PROVE  Good(PollSerial(p, q, sent)) /\ Answers(p, PollSerial(p, q, sent))
<1> DEFINE m == [p.n EXCEPT !.draining = FALSE]
           a == [p EXCEPT !.n = m]
           b == Finish(a)
           c == Completed(b)
           d == Answered(c, q)
           e == Written(d, sent)
<1>1. p.n \in Nets BY DEF Good, Core, Panels
<1>2. m \in Nets BY <1>1 DEF Nets
<1>3. Alike(m, p.n) BY <1>1 DEF Alike, Nets
<1>4. PollSerial(p, q, sent) = IF p.n.draining /\ ~sent THEN p ELSE e BY DEF PollSerial
<1> HIDE DEF m
<1>5. Good(a) /\ Keeps(p, a) BY <1>2, <1>3, AlikeGood
<1> HIDE DEF a
<1>6. Good(b) /\ Keeps(a, b) BY <1>5, FinishGood, FinishKeeps DEF Good, Core
<1> HIDE DEF b
<1>7. Good(c) /\ Keeps(b, c) BY <1>6, CompletedGood
<1> HIDE DEF c
<1>8. Good(d) /\ Answers(c, d)
  <2>1. CASE c.n.tx \/ q = Silence
    BY <1>7, <2>1 DEF Answered, Answers, PolicyStep
  <2>2. CASE ~c.n.tx /\ q # Silence
    BY <1>7, <2>2, HandledGood DEF Answered
  <2> QED BY <2>1, <2>2
<1> HIDE DEF d
<1>9. Good(e) /\ Keeps(d, e) BY <1>8, WrittenGood
<1> HIDE DEF e
<1>10. Answers(c, e) BY <1>8, <1>9, StepsAdd
<1>11. Answers(p, e) BY <1>5, <1>6, <1>7, <1>10, StepsAdd
<1>12. Answers(p, p) BY DEF Answers, PolicyStep
<1> QED BY <1>4, <1>9, <1>11, <1>12

-------------------------------------------------------------------------------
(* The tick *)

LEMMA SweptGood ==
    ASSUME NEW p, Good(p), NEW scanned \in BOOLEAN
    PROVE  Good(Swept(p, scanned)) /\ Keeps(p, Swept(p, scanned))
<1> DEFINE s == IF p.n.open /\ Expired(p.n) THEN Revoke(p) ELSE p
           c == s.n.scan /\ ~scanned
           m == [s.n EXCEPT !.scan = c]
           q == [s EXCEPT !.n = m]
<1>1. Good(s) /\ Keeps(p, s)
  BY RevokeGood, RevokeKeeps DEF Good, Core, Keeps, PolicyStep
<1>2. Swept(p, scanned) = q BY DEF Swept
<1> HIDE DEF s
<1>3. s.n \in Nets BY <1>1 DEF Good, Core, Panels
<1>4. c \in BOOLEAN BY <1>3 DEF Nets
<1> HIDE DEF c
<1>5. m \in Nets BY <1>3, <1>4 DEF Nets
<1>6. Alike(m, s.n) BY <1>3 DEF Alike, Nets
<1> HIDE DEF m
<1>7. Good(q) /\ Keeps(s, q) BY <1>1, <1>5, <1>6, AlikeGood
<1> HIDE DEF q
<1> QED BY <1>1, <1>2, <1>7, StepsAdd

LEMMA ExplicitGood ==
    ASSUME NEW p, Core(p), p.n.active # None, ~p.n.trial
    PROVE  LET q == Rejoin(p, p.n.active, "explicit") IN Good(q) /\ Keeps(p, q)
<1> DEFINE q == Rejoin(p, p.n.active, "explicit")
<1>1. Good(q) BY JoinGood
<1>2. p \in Panels /\ p.n \in Nets BY DEF Core, Panels
<1>3. p.n.active \in Saved BY <1>2 DEF Nets
<1>4. q.n = RejoinNet(p.n, p.n.active, "explicit") /\ q.l = p.l BY <1>2, <1>3, RejoinShape
<1> HIDE DEF q
<1>5. q.n.commitN = p.n.commitN /\ q.n.active = p.n.active /\ q.n.policy = Enabled
  BY <1>2, <1>4 DEF RejoinNet, JoinPolicy, Nets
<1>6. ~Enabled.known /\ ~Enabled.connected BY DEF Enabled, Disabled
<1>7. Keeps(p, q) BY <1>4, <1>5, <1>6 DEF Keeps, PolicyStep
<1> QED BY <1>1, <1>7 DEF q

LEMMA RetriedGood ==
    ASSUME NEW p, Good(p) PROVE Good(Retried(p)) /\ Keeps(p, Retried(p))
<1>1. CASE RetryDue(p.n)
  <2>1. p.n.active # None /\ ~p.n.trial BY <1>1 DEF RetryDue, Good, Core, OnTrial, Joining
  <2>2. Retried(p) = Rejoin(p, p.n.active, "explicit") BY <1>1 DEF Retried, Rejoin
  <2> QED BY <2>1, <2>2, ExplicitGood DEF Good
<1>2. CASE ~RetryDue(p.n) BY <1>2 DEF Retried, Keeps, PolicyStep
<1> QED BY <1>1, <1>2

LEMMA TriedGood ==
    ASSUME NEW p, Good(p) PROVE Good(Tried(p)) /\ Keeps(p, Tried(p))
<1>1. CASE TrialDue(p.n)
  <2>1. p.n.trial BY <1>1 DEF TrialDue
  <2> QED BY <1>1, <2>1, AbortGood DEF Tried
<1>2. CASE ~TrialDue(p.n) BY <1>2 DEF Tried, Keeps, PolicyStep
<1> QED BY <1>1, <1>2

SuccessNet(n, completion, result) ==
    [n EXCEPT !.connecting = FALSE, !.applying = FALSE, !.trialUp = n.applying,
              !.completion = completion, !.result = result]

LEMMA SuccessNets ==
    ASSUME NEW n \in Nets, NEW c \in BOOLEAN, NEW r \in Results
    PROVE  LET m == SuccessNet(n, c, r)
           IN  /\ m \in Nets /\ ~m.connecting /\ ~m.applying /\ m.trialUp = n.applying
               /\ m.completion = c /\ m.result = r
               /\ m.active = n.active /\ m.pending = n.pending /\ m.target = n.target
               /\ m.retry = n.retry /\ m.enabled = n.enabled /\ m.trial = n.trial
               /\ m.open = n.open /\ m.exportN = n.exportN /\ m.applyN = n.applyN
               /\ m.commitN = n.commitN /\ m.abortN = n.abortN /\ m.claimed = n.claimed
               /\ m.releasing = n.releasing /\ m.policy = n.policy /\ m.worker = n.worker
               /\ m.secret = n.secret /\ m.draining = n.draining
<1>1. n.applying \in BOOLEAN BY DEF Nets
<1>2. SuccessNet(n, c, r) \in Nets BY <1>1 DEF SuccessNet, Nets
<1> QED BY <1>2 DEF SuccessNet, Nets

LEMMA SuccessGood ==
    ASSUME NEW p, Good(p), p.n.connecting, Joined(p)
    PROVE  Good(Success(p)) /\ Keeps(p, Success(p))
<1> DEFINE c == p.n.completion \/ p.n.applying
           r == IF p.n.applying THEN "CONNECTED" ELSE p.n.result
           m == SuccessNet(p.n, c, r)
           s == [p EXCEPT !.n = m]
           w == [s.w EXCEPT !.auto = p.n.enabled]
           q == [s EXCEPT !.w = w]
<1>1. p \in Panels /\ p.n \in Nets /\ p.w \in Wifis BY DEF Good, Core, Panels
<1>2. c \in BOOLEAN /\ r \in Results BY <1>1 DEF Nets, Results
<1>3. Success(p) = q BY DEF Success, SuccessNet
<1>4. p.n.target \in Works /\ p.n.enabled /\ ~p.n.trialUp /\ p.w.want \in {p.n.target, None}
  BY DEF Joined, Good, Core, OnTrial, Joining
<1>5. p.n.applying => /\ c /\ r = "CONNECTED" /\ p.n.trial /\ p.n.commitN = None
                      /\ p.n.abortN = None /\ p.l.over = {} /\ p.n.applyN \in Nonces
                      /\ p.n.applyN # None
  BY Names DEF Good, Core, OnTrial, Concluded
<1>6. ~p.n.applying => (c => p.n.completion) /\ r = p.n.result OBVIOUS
<1> HIDE DEF c, r
<1>7. /\ m \in Nets /\ ~m.connecting /\ ~m.applying /\ m.trialUp = p.n.applying
      /\ m.completion = c /\ m.result = r
      /\ m.active = p.n.active /\ m.pending = p.n.pending /\ m.target = p.n.target
      /\ m.retry = p.n.retry /\ m.enabled = p.n.enabled /\ m.trial = p.n.trial
      /\ m.open = p.n.open /\ m.exportN = p.n.exportN /\ m.applyN = p.n.applyN
      /\ m.commitN = p.n.commitN /\ m.abortN = p.n.abortN /\ m.claimed = p.n.claimed
      /\ m.releasing = p.n.releasing /\ m.policy = p.n.policy /\ m.worker = p.n.worker
      /\ m.secret = p.n.secret /\ m.draining = p.n.draining
  BY <1>1, <1>2, SuccessNets
<1> HIDE DEF m
<1>8. s \in Panels /\ s.n = m /\ s.w = p.w /\ s.l = p.l BY <1>1, <1>7, NetChanged
<1> HIDE DEF s
<1>9. p.n.enabled \in BOOLEAN BY <1>1 DEF Nets
<1>10. w \in Wifis /\ w.want = p.w.want BY <1>1, <1>8, <1>9 DEF Wifis
<1> HIDE DEF w
<1>11. q \in Panels /\ q.n = m /\ q.w = w /\ q.l = p.l BY <1>8, <1>10, DriverChanged
<1>12. OnTrial(m, p.l) BY <1>4, <1>5, <1>7 DEF Good, Core, OnTrial
<1>13. Concluded(m, p.l) BY <1>5, <1>6, <1>7 DEF Good, Core, Concluded, Over
<1>14. Wired(m) BY <1>7 DEF Good, Core, Wired
<1>15. Joining(m, w) BY <1>4, <1>5, <1>7, <1>10 DEF Good, Joining
<1>16. Keeps(p, q) BY <1>7, <1>11 DEF Keeps, PolicyStep
<1> HIDE DEF q
<1> QED BY <1>3, <1>11, <1>12, <1>13, <1>14, <1>15, <1>16 DEF Good, Core

FailedNet(n) == [n EXCEPT !.connecting = FALSE, !.applying = FALSE, !.rescan = TRUE]
FailedTrial(n) == [n EXCEPT !.result = "FAILED", !.completion = TRUE]

LEMMA FailedNets == ASSUME NEW n \in Nets PROVE FailedNet(n) \in Nets
BY DEF FailedNet, Nets

LEMMA FailureGood ==
    ASSUME NEW p, Good(p), p.n.connecting
    PROVE  Good(Failure(p)) /\ Keeps(p, Failure(p))
<1> DEFINE m == FailedNet(p.n)
           s == [p EXCEPT !.n = m]
           off == Dark(s)
           k == FailedTrial(off.n)
           t == [off EXCEPT !.n = k]
           j == [off.n EXCEPT !.policy = Paused(off.n.policy)]
           u == [off EXCEPT !.n = j]
<1>1. p \in Panels /\ p.n \in Nets BY DEF Good, Core, Panels
<1>2. m \in Nets BY <1>1, FailedNets
<1>3. Failure(p) = IF p.n.applying THEN t ELSE u BY DEF Failure, FailedNet, FailedTrial
<1>4. /\ ~m.connecting /\ ~m.applying
      /\ m.active = p.n.active /\ m.pending = p.n.pending /\ m.target = p.n.target
      /\ m.retry = p.n.retry /\ m.enabled = p.n.enabled /\ m.trial = p.n.trial
      /\ m.trialUp = p.n.trialUp /\ m.open = p.n.open /\ m.exportN = p.n.exportN
      /\ m.applyN = p.n.applyN /\ m.commitN = p.n.commitN /\ m.abortN = p.n.abortN
      /\ m.result = p.n.result /\ m.completion = p.n.completion
      /\ m.claimed = p.n.claimed /\ m.releasing = p.n.releasing /\ m.policy = p.n.policy
      /\ m.worker = p.n.worker /\ m.secret = p.n.secret /\ m.draining = p.n.draining
  BY <1>1 DEF FailedNet, Nets
<1> HIDE DEF m
<1>5. ~p.n.trialUp /\ p.n.enabled BY DEF Good, Core, OnTrial, Joining
<1>6. OnTrial(m, p.l) BY <1>4, <1>5 DEF Good, Core, OnTrial
<1>7. Concluded(m, p.l) BY <1>4, <1>5 DEF Good, Core, Concluded
<1>8. Wired(m) BY <1>4 DEF Good, Core, Wired
<1>9. Core(s) /\ s.n = m /\ s.w = p.w /\ s.l = p.l
  BY <1>1, <1>2, <1>6, <1>7, <1>8, Parts
<1> HIDE DEF s
<1>10. Core(off) /\ off.l = p.l /\ off.n = [m EXCEPT !.enabled = FALSE] /\ off.w.want = None
  BY <1>4, <1>5, <1>9, DarkCore
<1> HIDE DEF off
<1>11. off \in Panels /\ off.n \in Nets BY <1>10 DEF Core, Panels
<1>12. /\ ~off.n.enabled
       /\ off.n.connecting = m.connecting /\ off.n.applying = m.applying
       /\ off.n.active = m.active /\ off.n.pending = m.pending /\ off.n.target = m.target
       /\ off.n.retry = m.retry /\ off.n.trial = m.trial
       /\ off.n.trialUp = m.trialUp /\ off.n.open = m.open /\ off.n.exportN = m.exportN
       /\ off.n.applyN = m.applyN /\ off.n.commitN = m.commitN /\ off.n.abortN = m.abortN
       /\ off.n.result = m.result /\ off.n.completion = m.completion
       /\ off.n.claimed = m.claimed /\ off.n.releasing = m.releasing /\ off.n.policy = m.policy
       /\ off.n.worker = m.worker /\ off.n.secret = m.secret /\ off.n.draining = m.draining
  BY <1>2, <1>10, <1>11 DEF Nets
<1>13. CASE p.n.applying
  <2>1. p.n.trial /\ p.n.commitN = None /\ p.n.applyN # None
    BY <1>13, Names DEF Good, Core, OnTrial, Concluded
  <2>2. "FAILED" \in Results BY DEF Results
  <2>3. k \in Nets BY <1>11, <2>2 DEF FailedTrial, Nets
  <2>4. /\ k.result = "FAILED" /\ k.enabled = off.n.enabled
        /\ k.connecting = off.n.connecting /\ k.applying = off.n.applying
        /\ k.active = off.n.active /\ k.pending = off.n.pending /\ k.target = off.n.target
        /\ k.retry = off.n.retry /\ k.trial = off.n.trial
        /\ k.trialUp = off.n.trialUp /\ k.open = off.n.open /\ k.exportN = off.n.exportN
        /\ k.applyN = off.n.applyN /\ k.commitN = off.n.commitN /\ k.abortN = off.n.abortN
        /\ k.claimed = off.n.claimed /\ k.releasing = off.n.releasing /\ k.policy = off.n.policy
        /\ k.worker = off.n.worker /\ k.secret = off.n.secret /\ k.draining = off.n.draining
    BY <1>11 DEF FailedTrial, Nets
  <2> HIDE DEF k
  <2>5. OnTrial(k, off.l) BY <1>10, <2>4 DEF Core, OnTrial
  <2>6. Concluded(k, off.l) BY <1>4, <1>5, <1>10, <1>12, <2>1, <2>4 DEF Core, Concluded, Over
  <2>7. Wired(k) BY <1>10, <2>4 DEF Core, Wired
  <2>8. Joining(k, off.w)
    BY <1>4, <1>5, <1>10, <1>12, <2>1, <2>4 DEF Good, Joining
  <2>9. Good(t) /\ t.n = k /\ t.l = off.l BY <1>11, <2>3, <2>5, <2>6, <2>7, <2>8, Parts
  <2>10. Keeps(p, t) BY <1>4, <1>10, <1>12, <2>4, <2>9 DEF Keeps, PolicyStep
  <2> HIDE DEF t
  <2> QED BY <1>3, <1>13, <2>9, <2>10
<1>14. CASE ~p.n.applying
  <2>1. off.n.policy \in PolicyType BY <1>11 DEF Nets
  <2>2. Paused(off.n.policy) \in PolicyType BY <2>1, PolicyTypes
  <2>3. j \in Nets BY <1>11, <2>2 DEF Nets
  <2>4. /\ j.policy = Paused(off.n.policy) /\ j.enabled = off.n.enabled /\ j.result = off.n.result
        /\ j.connecting = off.n.connecting /\ j.applying = off.n.applying
        /\ j.active = off.n.active /\ j.pending = off.n.pending /\ j.target = off.n.target
        /\ j.retry = off.n.retry /\ j.trial = off.n.trial
        /\ j.trialUp = off.n.trialUp /\ j.open = off.n.open /\ j.exportN = off.n.exportN
        /\ j.applyN = off.n.applyN /\ j.commitN = off.n.commitN /\ j.abortN = off.n.abortN
        /\ j.claimed = off.n.claimed /\ j.releasing = off.n.releasing
        /\ j.completion = off.n.completion
        /\ j.worker = off.n.worker /\ j.secret = off.n.secret /\ j.draining = off.n.draining
    BY <1>11 DEF Nets
  <2> HIDE DEF j
  <2>5. OnTrial(j, off.l) BY <1>10, <2>4 DEF Core, OnTrial
  <2>6. Concluded(j, off.l) BY <1>10, <2>4 DEF Core, Concluded
  <2>7. Wired(j) BY <1>10, <2>4 DEF Core, Wired
  <2>8. /\ j.policy.enabled = off.n.policy.enabled /\ (j.policy.enabled => j.policy.paused)
        /\ (~j.policy.enabled => j.policy = off.n.policy)
        /\ PolicyStep(off.n.policy, j.policy)
    BY <2>1, <2>4 DEF Paused, PolicyType, PolicyStep
  <2>9. Joining(j, off.w)
    BY <1>4, <1>5, <1>10, <1>12, <2>4, <2>8 DEF Good, Joining, AutoPaused
  <2>10. Good(u) /\ u.n = j /\ u.l = off.l BY <1>11, <2>3, <2>5, <2>6, <2>7, <2>9, Parts
  <2>11. Keeps(p, u) BY <1>4, <1>10, <1>12, <2>4, <2>8, <2>10 DEF Keeps
  <2> HIDE DEF u, t
  <2> QED BY <1>3, <1>14, <2>10, <2>11
<1> QED BY <1>13, <1>14

LEMMA ConnectingGood ==
    ASSUME NEW p, Good(p), NEW late \in BOOLEAN
    PROVE  Good(Connecting(p, late)) /\ Keeps(p, Connecting(p, late))
<1>1. Keeps(p, p) BY DEF Keeps, PolicyStep
<1>2. CASE p.n.connecting /\ Joined(p) BY <1>2, SuccessGood DEF Connecting
<1>3. CASE p.n.connecting /\ ~Joined(p)
  <2>1. Good(Failure(p)) /\ Keeps(p, Failure(p)) BY <1>3, FailureGood
  <2> QED BY <1>1, <1>3, <2>1 DEF Connecting
<1>4. CASE ~p.n.connecting BY <1>1, <1>4 DEF Connecting
<1> QED BY <1>2, <1>3, <1>4

LEMMA PolicyChanged ==
    ASSUME NEW n \in Nets, NEW policy \in PolicyType
    PROVE  LET m == [n EXCEPT !.policy = policy]
           IN  /\ m \in Nets /\ m.policy = policy /\ m.enabled = n.enabled /\ m.scan = n.scan
               /\ m.connecting = n.connecting /\ m.applying = n.applying
               /\ m.active = n.active /\ m.pending = n.pending /\ m.target = n.target
               /\ m.retry = n.retry /\ m.trial = n.trial /\ m.trialUp = n.trialUp
               /\ m.open = n.open /\ m.exportN = n.exportN /\ m.applyN = n.applyN
               /\ m.commitN = n.commitN /\ m.abortN = n.abortN /\ m.result = n.result
               /\ m.completion = n.completion /\ m.claimed = n.claimed
               /\ m.releasing = n.releasing /\ m.worker = n.worker /\ m.secret = n.secret
               /\ m.draining = n.draining
<1>1. [n EXCEPT !.policy = policy] \in Nets BY DEF Nets
<1> QED BY <1>1 DEF Nets

LostNet(n) ==
    [n EXCEPT !.rescan = TRUE, !.trialUp = FALSE, !.result = "FAILED", !.completion = TRUE]

LEMMA LostNets ==
    ASSUME NEW n \in Nets
    PROVE  LET m == LostNet(n)
           IN  /\ m \in Nets /\ ~m.trialUp /\ m.result = "FAILED" /\ m.completion
               /\ m.enabled = n.enabled /\ m.connecting = n.connecting /\ m.applying = n.applying
               /\ m.active = n.active /\ m.pending = n.pending /\ m.target = n.target
               /\ m.retry = n.retry /\ m.trial = n.trial /\ m.policy = n.policy
               /\ m.open = n.open /\ m.exportN = n.exportN /\ m.applyN = n.applyN
               /\ m.commitN = n.commitN /\ m.abortN = n.abortN /\ m.claimed = n.claimed
               /\ m.releasing = n.releasing /\ m.worker = n.worker /\ m.secret = n.secret
               /\ m.draining = n.draining
<1>1. "FAILED" \in Results BY DEF Results
<1>2. LostNet(n) \in Nets BY <1>1 DEF LostNet, Nets
<1> QED BY <1>2 DEF LostNet, Nets

LEMMA DarkNet ==
    ASSUME NEW n \in Nets
    PROVE  LET m == [n EXCEPT !.enabled = FALSE]
           IN  /\ m \in Nets /\ ~m.enabled /\ m.trialUp = n.trialUp /\ m.result = n.result
               /\ m.completion = n.completion /\ m.connecting = n.connecting
               /\ m.applying = n.applying /\ m.active = n.active /\ m.pending = n.pending
               /\ m.target = n.target /\ m.retry = n.retry /\ m.trial = n.trial
               /\ m.policy = n.policy /\ m.open = n.open /\ m.exportN = n.exportN
               /\ m.applyN = n.applyN /\ m.commitN = n.commitN /\ m.abortN = n.abortN
               /\ m.claimed = n.claimed /\ m.releasing = n.releasing /\ m.worker = n.worker
               /\ m.secret = n.secret /\ m.draining = n.draining
<1>1. [n EXCEPT !.enabled = FALSE] \in Nets BY DEF Nets
<1> QED BY <1>1 DEF Nets

LEMMA PausedPolicy ==
    ASSUME NEW policy \in PolicyType
    PROVE  LET q == Paused(policy)
           IN  /\ q \in PolicyType /\ q.enabled = policy.enabled /\ q.attempts = policy.attempts
               /\ q.fresh = policy.fresh /\ q.known = policy.known /\ (policy.enabled => q.paused /\ ~q.connected)
               /\ (~policy.enabled => q = policy) /\ q.attempts \in Nat
<1>1. Paused(policy) \in PolicyType BY PolicyTypes
<1> QED BY <1>1, Limits DEF Paused, PolicyType, Attempts

LEMMA PeerLostGood ==
    ASSUME NEW p, Good(p)
    PROVE  Good(PeerLost(p)) /\ Spends(p, PeerLost(p))
<1> DEFINE policy == Paused(p.n.policy)
           m == [p.n EXCEPT !.policy = policy]
           s == [p EXCEPT !.n = m]
           off == Dark(s)
           k == LostNet(off.n)
           t == [off EXCEPT !.n = k]
<1>1. p \in Panels /\ p.n \in Nets /\ p.w \in Wifis /\ p.n.policy \in PolicyType
  BY DEF Good, Core, Panels, Nets
<1>2. CASE ~(p.n.enabled /\ ~p.n.connecting /\ ~p.n.scan /\ Missing(p.n.policy))
  <2>1. p.n.policy.attempts \in Nat BY <1>1, Limits DEF PolicyType, Attempts
  <2>2. p.n.policy.attempts >= p.n.policy.attempts BY <2>1
  <2> QED BY <1>2, <2>2 DEF PeerLost, Spends
<1>3. CASE p.n.enabled /\ ~p.n.connecting /\ ~p.n.scan /\ Missing(p.n.policy)
  <2>1. PeerLost(p) = IF p.n.trial THEN t ELSE off
    BY <1>3 DEF PeerLost, TrialLost, LostNet
  <2>2. ~p.n.policy.fresh BY <1>3 DEF Missing
  <2>3. ~p.n.applying BY <1>3 DEF Good, Core, OnTrial
  <2>4. /\ policy \in PolicyType /\ policy.enabled = p.n.policy.enabled
        /\ policy.attempts >= p.n.policy.attempts /\ ~policy.fresh
        /\ policy.known = p.n.policy.known
        /\ (p.n.policy.enabled => policy.paused)
        /\ (~p.n.policy.enabled => policy = p.n.policy)
    BY <1>1, <2>2, PausedPolicy
  <2> HIDE DEF policy
  <2>5. /\ m \in Nets /\ m.policy = policy /\ m.enabled = p.n.enabled
        /\ m.connecting = p.n.connecting /\ m.applying = p.n.applying
        /\ m.active = p.n.active /\ m.pending = p.n.pending /\ m.target = p.n.target
        /\ m.retry = p.n.retry /\ m.trial = p.n.trial /\ m.trialUp = p.n.trialUp
        /\ m.open = p.n.open /\ m.exportN = p.n.exportN /\ m.applyN = p.n.applyN
        /\ m.commitN = p.n.commitN /\ m.abortN = p.n.abortN /\ m.result = p.n.result
        /\ m.completion = p.n.completion /\ m.claimed = p.n.claimed
        /\ m.releasing = p.n.releasing /\ m.worker = p.n.worker /\ m.secret = p.n.secret
        /\ m.draining = p.n.draining
    BY <1>1, <2>4, PolicyChanged
  <2> HIDE DEF m
  <2>6. s \in Panels /\ s.n = m /\ s.w = p.w /\ s.l = p.l BY <1>1, <2>5, NetChanged
  <2> HIDE DEF s
  <2>7. /\ off \in Panels /\ off.l = p.l /\ off.n = [m EXCEPT !.enabled = FALSE]
        /\ off.w = [p.w EXCEPT !.auto = FALSE, !.want = None]
    BY <2>6, DarkShape
  <2>8. off.w.want = None BY <1>1, <2>7 DEF Wifis
  <2> HIDE DEF off
  <2>9. /\ off.n \in Nets /\ ~off.n.enabled /\ off.n.trialUp = m.trialUp /\ off.n.result = m.result
        /\ off.n.completion = m.completion /\ off.n.connecting = m.connecting
        /\ off.n.applying = m.applying /\ off.n.active = m.active /\ off.n.pending = m.pending
        /\ off.n.target = m.target /\ off.n.retry = m.retry /\ off.n.trial = m.trial
        /\ off.n.policy = m.policy /\ off.n.open = m.open /\ off.n.exportN = m.exportN
        /\ off.n.applyN = m.applyN /\ off.n.commitN = m.commitN /\ off.n.abortN = m.abortN
        /\ off.n.claimed = m.claimed /\ off.n.releasing = m.releasing /\ off.n.worker = m.worker
        /\ off.n.secret = m.secret /\ off.n.draining = m.draining
    BY <2>5, <2>7, DarkNet
  <2>10. CASE p.n.trial
    <3>1. /\ p.n.commitN = None /\ p.n.applyN # None /\ ~p.n.retry
      BY <2>10, Names DEF Good, Core, OnTrial, Concluded
    <3>2. /\ k \in Nets /\ ~k.trialUp /\ k.result = "FAILED" /\ k.completion
          /\ k.enabled = off.n.enabled /\ k.connecting = off.n.connecting
          /\ k.applying = off.n.applying /\ k.active = off.n.active
          /\ k.pending = off.n.pending /\ k.target = off.n.target
          /\ k.retry = off.n.retry /\ k.trial = off.n.trial /\ k.policy = off.n.policy
          /\ k.open = off.n.open /\ k.exportN = off.n.exportN /\ k.applyN = off.n.applyN
          /\ k.commitN = off.n.commitN /\ k.abortN = off.n.abortN /\ k.claimed = off.n.claimed
          /\ k.releasing = off.n.releasing /\ k.worker = off.n.worker
          /\ k.secret = off.n.secret /\ k.draining = off.n.draining
      BY <2>9, LostNets
    <3> HIDE DEF k
    <3>3. OnTrial(k, off.l) BY <2>3, <2>5, <2>7, <2>9, <3>2 DEF Good, Core, OnTrial
    <3>4. Concluded(k, off.l)
      BY <2>3, <2>5, <2>7, <2>9, <3>1, <3>2 DEF Good, Core, Concluded, Over
    <3>5. Wired(k) BY <2>5, <2>9, <3>2 DEF Good, Core, Wired
    <3>6. Joining(k, off.w)
      BY <1>3, <2>4, <2>5, <2>8, <2>9, <2>10, <3>1, <3>2 DEF Good, Joining
    <3>7. Good(t) /\ t.n = k /\ t.l = off.l BY <2>7, <3>2, <3>3, <3>4, <3>5, <3>6, Parts
    <3>8. Spends(p, t) BY <2>4, <2>5, <2>7, <2>9, <3>2, <3>7 DEF Spends
    <3> HIDE DEF t
    <3> QED BY <2>1, <2>10, <3>7, <3>8
  <2>11. CASE ~p.n.trial
    <3>1. ~p.n.trialUp BY <2>11 DEF Good, Core, OnTrial
    <3>2. OnTrial(off.n, off.l) BY <2>3, <2>5, <2>7, <2>9, <3>1 DEF Good, Core, OnTrial
    <3>3. Concluded(off.n, off.l) BY <2>5, <2>7, <2>9 DEF Good, Core, Concluded
    <3>4. Wired(off.n) BY <2>5, <2>9 DEF Good, Core, Wired
    <3>5. Joining(off.n, off.w)
      BY <1>3, <2>4, <2>5, <2>8, <2>9, <2>11, <3>1 DEF Good, Joining, AutoPaused
    <3>6. Good(off) BY <2>7, <3>2, <3>3, <3>4, <3>5 DEF Good, Core
    <3>7. Spends(p, off) BY <2>4, <2>5, <2>7, <2>9 DEF Spends
    <3> QED BY <2>1, <2>11, <3>6, <3>7
  <2> QED BY <2>10, <2>11
<1> QED BY <1>2, <1>3

LEMMA LocalJoinPolicy ==
    ASSUME NEW policy \in PolicyType, LocalJoinDue(policy)
    PROVE  LET q == LocalJoin(policy)
           IN  /\ q \in PolicyType /\ q.enabled /\ ~q.paused /\ ~q.connected
               /\ q.attempts >= policy.attempts /\ q.known = policy.known
<1>1. LocalJoin(policy) \in PolicyType BY PolicyTypes
<1>2. policy.enabled /\ policy.attempts \in Nat BY Limits DEF LocalJoinDue, PolicyType, Attempts
<1>3. /\ LocalJoin(policy).enabled = policy.enabled /\ ~LocalJoin(policy).paused
      /\ ~LocalJoin(policy).connected /\ LocalJoin(policy).attempts = policy.attempts + 1
      /\ LocalJoin(policy).known = policy.known
  BY DEF LocalJoin, PolicyType
<1> QED BY <1>1, <1>2, <1>3

LEMMA RejoinedGood ==
    ASSUME NEW p, Good(p), NEW newly \in BOOLEAN
    PROVE  Good(Rejoined(p, newly)) /\ Spends(p, Rejoined(p, newly))
<1> DEFINE policy == LocalJoin(p.n.policy)
           m == [p.n EXCEPT !.policy = policy]
           s == [p EXCEPT !.n = m]
           q == Rejoin(s, s.n.active, "automatic")
<1>1. p \in Panels /\ p.n \in Nets /\ p.w \in Wifis /\ p.n.policy \in PolicyType
  BY DEF Good, Core, Panels, Nets
<1>2. CASE ~JoinDue(p, newly)
  <2>1. p.n.policy.attempts \in Nat BY <1>1, Limits DEF PolicyType, Attempts
  <2>2. p.n.policy.attempts >= p.n.policy.attempts BY <2>1
  <2> QED BY <1>2, <2>2 DEF Rejoined, Spends
<1>3. CASE JoinDue(p, newly)
  <2>1. ~p.n.trial /\ p.n.active # None /\ LocalJoinDue(p.n.policy) BY <1>3 DEF JoinDue
  <2>2. /\ policy \in PolicyType /\ policy.enabled /\ ~policy.paused /\ ~policy.connected
        /\ policy.attempts >= p.n.policy.attempts /\ policy.known = p.n.policy.known
    BY <1>1, <2>1, LocalJoinPolicy
  <2>3. Rejoined(p, newly) = BeginJoin(s, p.n.active, FALSE, "automatic") BY <1>3 DEF Rejoined
  <2> HIDE DEF policy
  <2>4. /\ m \in Nets /\ m.policy = policy /\ m.enabled = p.n.enabled
        /\ m.connecting = p.n.connecting /\ m.applying = p.n.applying
        /\ m.active = p.n.active /\ m.pending = p.n.pending /\ m.target = p.n.target
        /\ m.retry = p.n.retry /\ m.trial = p.n.trial /\ m.trialUp = p.n.trialUp
        /\ m.open = p.n.open /\ m.exportN = p.n.exportN /\ m.applyN = p.n.applyN
        /\ m.commitN = p.n.commitN /\ m.abortN = p.n.abortN /\ m.result = p.n.result
        /\ m.completion = p.n.completion /\ m.claimed = p.n.claimed
        /\ m.releasing = p.n.releasing /\ m.worker = p.n.worker /\ m.secret = p.n.secret
        /\ m.draining = p.n.draining
    BY <1>1, <2>2, PolicyChanged
  <2> HIDE DEF m
  <2>5. OnTrial(m, p.l) BY <2>4 DEF Good, Core, OnTrial
  <2>6. Concluded(m, p.l) BY <2>4 DEF Good, Core, Concluded
  <2>7. Wired(m) BY <2>4 DEF Good, Core, Wired
  <2>8. Core(s) /\ s.n = m /\ s.w = p.w /\ s.l = p.l BY <1>1, <2>4, <2>5, <2>6, <2>7, Parts
  <2>9. Rejoined(p, newly) = q BY <2>3, <2>4, <2>8 DEF Rejoin
  <2> HIDE DEF s
  <2>10. Good(q) BY <2>1, <2>2, <2>4, <2>8, JoinGood
  <2>11. s \in Panels /\ s.n.active \in Saved BY <2>4, <2>8 DEF Core, Nets
  <2>12. q.n = RejoinNet(s.n, s.n.active, "automatic") /\ q.l = s.l BY <2>11, RejoinShape
  <2> HIDE DEF q
  <2>13. q.n.commitN = m.commitN /\ q.n.active = m.active /\ q.n.policy = m.policy
    BY <2>4, <2>8, <2>12 DEF RejoinNet, JoinPolicy, Nets
  <2>14. Spends(p, q) BY <2>2, <2>4, <2>8, <2>12, <2>13 DEF Spends
  <2> QED BY <2>9, <2>10, <2>14
<1> QED BY <1>2, <1>3

LEMMA DiscoveredGood ==
    ASSUME NEW p, Good(p), NEW hop \in BOOLEAN
    PROVE  Good(Discovered(p, hop)) /\ Spends(p, Discovered(p, hop))
<1> DEFINE m == [p.n EXCEPT !.guard = Required]
           q == [p EXCEPT !.n = m]
<1>1. p.n \in Nets /\ p.n.policy.attempts \in Nat
  BY Limits DEF Good, Core, Panels, Nets, PolicyType, Attempts
<1>2. Required \in GuardType BY Ages DEF Required, NoGuard, GuardType
<1>3. m \in Nets BY <1>1, <1>2 DEF Nets
<1>4. /\ Alike(m, p.n) /\ m.enabled = p.n.enabled /\ m.connecting = p.n.connecting
      /\ m.trial = p.n.trial /\ m.applying = p.n.applying /\ m.active = p.n.active
      /\ m.target = p.n.target
  BY <1>1 DEF Alike, Nets
<1>5. Discovered(p, hop) = IF hop /\ DiscoveryAllowed(p) THEN q ELSE p BY DEF Discovered
<1> HIDE DEF m
<1>6. Good(q) /\ q.n = m /\ q.w = p.w /\ q.l = p.l BY <1>3, <1>4, AlikeGood
<1> HIDE DEF q
<1>7. CommittedConnected(q) <=> CommittedConnected(p)
  BY <1>4, <1>6 DEF CommittedConnected, TargetConnected
<1>8. p.n.policy.attempts >= p.n.policy.attempts BY <1>1
<1>9. Spends(p, q) BY <1>4, <1>6, <1>7, <1>8 DEF Spends, Alike
<1>10. Spends(p, p) BY <1>8 DEF Spends
<1> QED BY <1>5, <1>6, <1>9, <1>10

-------------------------------------------------------------------------------
(* A pass of the main loop *)

(* A link and a peer that are both well have been so for as long as well    *)
(* counts, or one of them is younger.                                       *)
Timed(policy, well) ==
    policy.connected /\ policy.fresh
        => well >= RearmStable \/ well >= policy.age \/ well >= policy.peerAge
Earned(n, l) ==
    Timed(n.policy, l.well) /\ (n.policy.connected /\ n.policy.fresh => l.fine)

LEMMA ConnectedPolicy ==
    ASSUME NEW policy \in PolicyType, NEW up \in BOOLEAN, NEW well \in Nat,
           Timed(policy, well), policy.paused => ~up
    PROVE  LET q == Connected(policy, up)
           IN  /\ q \in PolicyType /\ q.enabled = policy.enabled /\ q.paused = policy.paused
               /\ q.connected = up /\ q.known = policy.known /\ Timed(q, well)
               /\ q.attempts >= policy.attempts \/ well >= RearmStable
<1> DEFINE a == IF policy.paused \/ up = policy.connected THEN policy.age ELSE 0
           s == [policy EXCEPT !.connected = up, !.age = a]
           z == [s EXCEPT !.attempts = 0]
<1>1. /\ policy.age \in Nat /\ policy.peerAge \in Nat /\ policy.attempts \in Nat
      /\ policy.connected \in BOOLEAN /\ policy.fresh \in BOOLEAN /\ policy.paused \in BOOLEAN
  BY Limits DEF PolicyType, PolicyAges, PeerAges, Attempts
<1>2. a \in PolicyAges /\ a \in Nat BY <1>1, Ages DEF PolicyType
<1>3. RearmStable \in Nat \ {0} BY Limits
<1>4. Connected(policy, up) = IF s.enabled /\ ~s.paused /\ Stable(s, a) THEN z ELSE s
  BY DEF Connected
<1>5. (up /\ policy.connected) \/ policy.paused => a = policy.age
  <2>1. CASE policy.paused BY <2>1
  <2>2. CASE up /\ policy.connected
    <3>1. up = policy.connected BY <1>1, <2>2, Zenon
    <3> QED BY <3>1
  <2> QED BY <2>1, <2>2
<1>6. up /\ ~policy.connected => a = 0
  <2>1. up /\ ~policy.connected => up # policy.connected BY <1>1, Zenon
  <2> QED BY <2>1
<1> HIDE DEF a
<1>13. up /\ policy.fresh => well >= RearmStable \/ well >= a \/ well >= policy.peerAge
  <2> SUFFICES ASSUME up, policy.fresh
               PROVE  well >= RearmStable \/ well >= a \/ well >= policy.peerAge
    OBVIOUS
  <2>1. CASE policy.connected BY <1>5, <2>1 DEF Timed
  <2>2. CASE ~policy.connected
    <3>1. a = 0 BY <1>6, <2>2
    <3> QED BY <3>1
  <2> QED BY <2>1, <2>2
<1>7. /\ s \in PolicyType /\ s.enabled = policy.enabled /\ s.paused = policy.paused
      /\ s.connected = up /\ s.age = a /\ s.fresh = policy.fresh /\ s.known = policy.known
      /\ s.peerAge = policy.peerAge /\ s.attempts = policy.attempts
  BY <1>2 DEF PolicyType
<1>8. Timed(s, well) BY <1>7, <1>13 DEF Timed
<1> HIDE DEF s
<1>9. /\ z \in PolicyType /\ z.enabled = s.enabled /\ z.paused = s.paused
      /\ z.connected = s.connected /\ z.age = s.age /\ z.fresh = s.fresh /\ z.known = s.known
      /\ z.peerAge = s.peerAge
  BY <1>7, Ages DEF PolicyType
<1>10. Timed(z, well) BY <1>8, <1>9 DEF Timed
<1> HIDE DEF z
<1>11. CASE s.enabled /\ ~s.paused /\ Stable(s, a)
  <2>1. up /\ ~policy.paused /\ policy.fresh /\ a >= RearmStable /\ policy.peerAge >= RearmStable
    BY <1>7, <1>11 DEF Stable
  <2>2. well >= RearmStable BY <1>1, <1>2, <1>3, <1>13, <2>1
  <2> QED BY <1>4, <1>7, <1>9, <1>10, <1>11, <2>2
<1>12. CASE ~(s.enabled /\ ~s.paused /\ Stable(s, a))
  <2>1. s.attempts >= policy.attempts BY <1>1, <1>7
  <2> QED BY <1>4, <1>7, <1>8, <1>12, <2>1
<1> QED BY <1>11, <1>12

LEMMA JudgedGood ==
    ASSUME NEW p, Good(p), Timed(p.n.policy, p.l.well)
    PROVE  LET q == Judged(p)
           IN  /\ Good(q) /\ q.l = p.l /\ q.n.commitN = p.n.commitN /\ q.n.active = p.n.active
               /\ Timed(q.n.policy, q.l.well)
               /\ q.n.policy.connected => CommittedConnected(q)
               /\ q.n.policy.known => p.n.policy.known
               /\ q.n.policy.attempts >= p.n.policy.attempts \/ p.l.well >= RearmStable
<1> DEFINE up == CommittedConnected(p)
           policy == Connected(p.n.policy, up)
           m == [p.n EXCEPT !.policy = policy]
           q == [p EXCEPT !.n = m]
<1>1. p \in Panels /\ p.n \in Nets /\ p.n.policy \in PolicyType /\ p.l.well \in Nat
  BY DEF Good, Core, Panels, Nets, Logs
<1>2. up \in BOOLEAN BY DEF CommittedConnected
<1>3. p.n.policy.paused => ~up BY DEF Good, Joining, CommittedConnected
<1>4. Judged(p) = q BY DEF Judged
<1>5. up <=> CommittedConnected(p) OBVIOUS
<1> HIDE DEF up
<1>6. /\ policy \in PolicyType /\ policy.enabled = p.n.policy.enabled
      /\ policy.paused = p.n.policy.paused /\ policy.connected = up
      /\ policy.known = p.n.policy.known
      /\ Timed(policy, p.l.well)
      /\ policy.attempts >= p.n.policy.attempts \/ p.l.well >= RearmStable
  BY <1>1, <1>2, <1>3, ConnectedPolicy
<1> HIDE DEF policy
<1>7. /\ m \in Nets /\ m.policy = policy /\ m.enabled = p.n.enabled
      /\ m.connecting = p.n.connecting /\ m.applying = p.n.applying
      /\ m.active = p.n.active /\ m.pending = p.n.pending /\ m.target = p.n.target
      /\ m.retry = p.n.retry /\ m.trial = p.n.trial /\ m.trialUp = p.n.trialUp
      /\ m.open = p.n.open /\ m.exportN = p.n.exportN /\ m.applyN = p.n.applyN
      /\ m.commitN = p.n.commitN /\ m.abortN = p.n.abortN /\ m.result = p.n.result
      /\ m.completion = p.n.completion /\ m.claimed = p.n.claimed
      /\ m.releasing = p.n.releasing /\ m.worker = p.n.worker /\ m.secret = p.n.secret
      /\ m.draining = p.n.draining
  BY <1>1, <1>6, PolicyChanged
<1> HIDE DEF m
<1>8. OnTrial(m, p.l) BY <1>7 DEF Good, Core, OnTrial
<1>9. Concluded(m, p.l) BY <1>7 DEF Good, Core, Concluded
<1>10. Wired(m) BY <1>7 DEF Good, Core, Wired
<1>11. Joining(m, p.w) BY <1>6, <1>7 DEF Good, Joining, AutoPaused
<1>12. Good(q) /\ q.n = m /\ q.w = p.w /\ q.l = p.l
  BY <1>1, <1>7, <1>8, <1>9, <1>10, <1>11, Parts
<1> HIDE DEF q
<1>13. CommittedConnected(q) <=> CommittedConnected(p)
  BY <1>7, <1>12 DEF CommittedConnected, TargetConnected
<1> QED BY <1>4, <1>5, <1>6, <1>7, <1>12, <1>13

LEMMA HeardPolicy ==
    ASSUME NEW policy \in PolicyType, NEW fresh \in BOOLEAN, NEW well \in Nat,
           Timed(policy, well)
    PROVE  LET q == Heard(policy, fresh)
           IN  /\ q \in PolicyType /\ q.enabled = policy.enabled /\ q.paused = policy.paused
               /\ q.attempts = policy.attempts /\ Timed(q, well)
<1> DEFINE a == IF policy.known /\ policy.fresh = fresh THEN policy.peerAge ELSE 0
<1>1. Heard(policy, fresh) \in PolicyType BY PolicyTypes
<1>2. policy.connected /\ fresh => well >= RearmStable \/ well >= policy.age \/ well >= a
  <2> SUFFICES ASSUME policy.connected, fresh
               PROVE  well >= RearmStable \/ well >= policy.age \/ well >= a
    OBVIOUS
  <2>1. CASE policy.known /\ policy.fresh
    <3>1. policy.fresh = fresh BY <2>1, Zenon DEF PolicyType
    <3>2. a = policy.peerAge BY <2>1, <3>1
    <3> QED BY <2>1, <3>2 DEF Timed
  <2>2. CASE ~(policy.known /\ policy.fresh)
    <3>1. ~(policy.known /\ policy.fresh = fresh) BY <2>2, Zenon
    <3>2. a = 0 BY <3>1
    <3> HIDE DEF a
    <3> QED BY <3>2
  <2> QED BY <2>1, <2>2
<1>3. Heard(policy, fresh) = [policy EXCEPT !.known = TRUE, !.fresh = fresh, !.peerAge = a]
  BY DEF Heard
<1> HIDE DEF a
<1>4. /\ Heard(policy, fresh).connected = policy.connected /\ Heard(policy, fresh).fresh = fresh
      /\ Heard(policy, fresh).age = policy.age /\ Heard(policy, fresh).peerAge = a
      /\ Heard(policy, fresh).enabled = policy.enabled /\ Heard(policy, fresh).paused = policy.paused
      /\ Heard(policy, fresh).attempts = policy.attempts
  BY <1>3 DEF PolicyType
<1> QED BY <1>1, <1>2, <1>4 DEF Timed

LEMMA ReceivedGood ==
    ASSUME NEW p, Good(p), Timed(p.n.policy, p.l.well), NEW fresh \in BOOLEAN, NEW newly \in BOOLEAN
    PROVE  LET q == Received(p, fresh, newly)
           IN  /\ Good(q) /\ q.l = p.l /\ q.n.commitN = p.n.commitN /\ q.n.active = p.n.active
               /\ q.n.policy.attempts = p.n.policy.attempts /\ Timed(q.n.policy, q.l.well)
<1> DEFINE policy == Heard(p.n.policy, fresh)
           guard == Observed(p.n.guard, fresh, newly)
           m == [p.n EXCEPT !.policy = policy]
           s == [p EXCEPT !.n = m]
           k == [m EXCEPT !.guard = guard]
           q == [s EXCEPT !.n = k]
<1>1. /\ p \in Panels /\ p.n \in Nets /\ p.n.policy \in PolicyType /\ p.l.well \in Nat
      /\ p.n.guard \in GuardType
  BY DEF Good, Core, Panels, Nets, Logs
<1>2. /\ policy \in PolicyType /\ policy.enabled = p.n.policy.enabled
      /\ policy.paused = p.n.policy.paused /\ policy.attempts = p.n.policy.attempts
      /\ Timed(policy, p.l.well)
  BY <1>1, HeardPolicy
<1>3. guard \in GuardType BY <1>1, GuardTypes
<1>4. Received(p, fresh, newly) = [p EXCEPT !.n = [p.n EXCEPT !.policy = policy, !.guard = guard]]
  BY DEF Received
<1> HIDE DEF policy, guard
<1>5. k = [p.n EXCEPT !.policy = policy, !.guard = guard] BY <1>1 DEF Nets
<1>6. q = [p EXCEPT !.n = k] BY <1>1 DEF Panels
<1>7. Received(p, fresh, newly) = q BY <1>4, <1>5, <1>6
<1>8. /\ m \in Nets /\ m.policy = policy /\ m.enabled = p.n.enabled
      /\ m.connecting = p.n.connecting /\ m.applying = p.n.applying
      /\ m.active = p.n.active /\ m.pending = p.n.pending /\ m.target = p.n.target
      /\ m.retry = p.n.retry /\ m.trial = p.n.trial /\ m.trialUp = p.n.trialUp
      /\ m.open = p.n.open /\ m.exportN = p.n.exportN /\ m.applyN = p.n.applyN
      /\ m.commitN = p.n.commitN /\ m.abortN = p.n.abortN /\ m.result = p.n.result
      /\ m.completion = p.n.completion /\ m.claimed = p.n.claimed
      /\ m.releasing = p.n.releasing /\ m.worker = p.n.worker /\ m.secret = p.n.secret
      /\ m.draining = p.n.draining
  BY <1>1, <1>2, PolicyChanged
<1> HIDE DEF m
<1>9. OnTrial(m, p.l) BY <1>8 DEF Good, Core, OnTrial
<1>10. Concluded(m, p.l) BY <1>8 DEF Good, Core, Concluded
<1>11. Wired(m) BY <1>8 DEF Good, Core, Wired
<1>12. Joining(m, p.w) BY <1>2, <1>8 DEF Good, Joining, AutoPaused
<1>13. Good(s) /\ s.n = m /\ s.w = p.w /\ s.l = p.l
  BY <1>1, <1>8, <1>9, <1>10, <1>11, <1>12, Parts
<1> HIDE DEF s
<1>14. k \in Nets BY <1>3, <1>8 DEF Nets
<1>15. Alike(k, s.n) BY <1>8, <1>13 DEF Alike, Nets
<1> HIDE DEF k
<1>16. Good(q) /\ q.n = k /\ q.l = s.l BY <1>13, <1>14, <1>15, AlikeGood
<1> QED BY <1>2, <1>7, <1>8, <1>13, <1>15, <1>16 DEF Alike

(* What a pass may do to the budget and to what was committed. *)
PassStep(p, q) ==
    /\ \/ q.n.commitN \in {None, p.n.commitN}
       \/ q.n.active \in Works /\ q.n.active = p.l.sent[q.n.commitN]
    /\ \/ q.n.policy.attempts >= p.n.policy.attempts \/ ~q.n.policy.known
       \/ p.l.well >= RearmStable

(* What every step of the panel does. *)
Fine(p, q) == Good(q) /\ Earned(q.n, q.l) /\ PassStep(p, q)

LEMMA TickGood ==
    ASSUME NEW p, Good(p), Timed(p.n.policy, p.l.well), NEW q \in Requests \cup {Silence},
           NEW newly \in BOOLEAN, NEW sent \in BOOLEAN, NEW scanned \in BOOLEAN, NEW late \in BOOLEAN
    PROVE  LET r == Tick(p, q, newly, sent, scanned, late)
           IN  /\ Good(r) /\ PassStep(p, r) /\ Timed(r.n.policy, r.l.well)
               /\ r.n.policy.connected /\ r.n.policy.fresh => CommittedConnected(r)
<1> DEFINE a == PollSerial(p, q, sent)
           b == Swept(a, scanned)
           c == Retried(b)
           d == Tried(c)
           last == late /\ (RetryDue(b.n) \/ TrialDue(b.n))
           e == Connecting(d, last)
           f == Judged(e)
           g == PeerLost(f)
           r == Rejoined(g, newly)
<1>1. Tick(p, q, newly, sent, scanned, late) = r BY DEF Tick
<1>2. Good(a) /\ Answers(p, a) BY PollSerialGood
<1> HIDE DEF a
<1>3. Good(b) /\ Keeps(a, b) BY <1>2, SweptGood
<1>4. last \in BOOLEAN OBVIOUS
<1> HIDE DEF b, last
<1>5. Good(c) /\ Keeps(b, c) BY <1>3, RetriedGood
<1> HIDE DEF c
<1>6. Good(d) /\ Keeps(c, d) BY <1>5, TriedGood
<1> HIDE DEF d
<1>7. Good(e) /\ Keeps(d, e) BY <1>4, <1>6, ConnectingGood
<1> HIDE DEF e
<1>8. Answers(p, e) BY <1>2, <1>3, <1>5, <1>6, <1>7, StepsAdd
<1>9. Timed(e.n.policy, e.l.well) BY <1>8 DEF Answers, PolicyStep, Timed
<1>10. /\ Good(f) /\ f.l = e.l /\ f.n.commitN = e.n.commitN /\ f.n.active = e.n.active
       /\ Timed(f.n.policy, f.l.well)
       /\ f.n.policy.connected => CommittedConnected(f)
       /\ f.n.policy.known => e.n.policy.known
       /\ f.n.policy.attempts >= e.n.policy.attempts \/ e.l.well >= RearmStable
  BY <1>7, <1>9, JudgedGood
<1> HIDE DEF f
<1>11. Good(g) /\ Spends(f, g) BY <1>10, PeerLostGood
<1> HIDE DEF g
<1>12. Good(r) /\ Spends(g, r) BY <1>11, RejoinedGood
<1> HIDE DEF r
<1>13. \A x \in {p, e, f, g, r} : x.n.policy.attempts \in Nat
  <2>1. \A x : Good(x) => x.n.policy.attempts \in Nat
    BY Limits DEF Good, Core, Panels, Nets, PolicyType, Attempts
  <2> QED BY <1>7, <1>10, <1>11, <1>12, <2>1
<1>14. Timed(r.n.policy, r.l.well) /\ (r.n.policy.connected /\ r.n.policy.fresh => CommittedConnected(r))
  BY <1>10, <1>11, <1>12 DEF Spends, Timed
<1>15. PassStep(p, r)
  <2>1. r.n.commitN = e.n.commitN /\ r.n.active = e.n.active /\ e.l.well = p.l.well
    BY <1>8, <1>10, <1>11, <1>12 DEF Spends, Answers
  <2>2. e.n.policy.attempts = p.n.policy.attempts \/ ~e.n.policy.known
    BY <1>8 DEF Answers, PolicyStep
  <2>3. r.n.policy.known => e.n.policy.known BY <1>10, <1>11, <1>12 DEF Spends
  <2>4. r.n.policy.attempts >= f.n.policy.attempts BY <1>11, <1>12, <1>13 DEF Spends
  <2>5. r.n.policy.attempts >= e.n.policy.attempts \/ p.l.well >= RearmStable
    BY <1>10, <1>13, <2>1, <2>4
  <2> QED BY <1>8, <2>1, <2>2, <2>3, <2>5 DEF PassStep, Answers
<1> QED BY <1>1, <1>12, <1>14, <1>15

LEMMA WeighedGood ==
    ASSUME NEW p, Good(p), Timed(p.n.policy, p.l.well),
           p.n.policy.connected /\ p.n.policy.fresh => CommittedConnected(p)
    PROVE  LET q == Weighed(p) IN Good(q) /\ Earned(q.n, q.l) /\ q.n = p.n
<1> DEFINE fine == CommittedConnected(p) /\ p.n.policy.fresh
           well == IF fine THEN p.l.well ELSE 0
           l == [p.l EXCEPT !.fine = fine, !.well = well]
           q == [p EXCEPT !.l = l]
<1>1. p \in Panels /\ p.l \in Logs /\ p.l.well \in Nat /\ p.n.policy \in PolicyType
  BY DEF Good, Core, Panels, Nets, Logs
<1>2. fine \in BOOLEAN /\ well \in Nat BY <1>1 DEF CommittedConnected, PolicyType
<1>3. Weighed(p) = q BY DEF Weighed
<1>4. p.n.policy.connected /\ p.n.policy.fresh => fine /\ well = p.l.well OBVIOUS
<1> HIDE DEF fine, well
<1>5. l \in Logs /\ l.sent = p.l.sent /\ l.over = p.l.over /\ l.fine = fine /\ l.well = well
  BY <1>1, <1>2 DEF Logs
<1> HIDE DEF l
<1>6. q \in Panels /\ q.n = p.n /\ q.w = p.w /\ q.l = l BY <1>1, <1>5, LogChanged
<1> HIDE DEF q
<1>7. OnTrial(q.n, q.l) BY <1>5, <1>6 DEF Good, Core, OnTrial
<1>8. Concluded(q.n, q.l) BY <1>5, <1>6 DEF Good, Core, Concluded
<1>9. Good(q) BY <1>6, <1>7, <1>8 DEF Good, Core
<1>10. Earned(q.n, q.l) BY <1>4, <1>5, <1>6 DEF Earned, Timed
<1> QED BY <1>3, <1>6, <1>9, <1>10

Passed(p, fresh, newly, q, sent, scanned, late, hop) ==
    LET a == Tick(Received(p, fresh, newly), q, newly, sent, scanned, late)
    IN  Weighed(Discovered([a EXCEPT !.n.rescan = FALSE], hop))

LEMMA LoopGood ==
    ASSUME NEW p, Good(p), Earned(p.n, p.l), NEW fresh \in BOOLEAN, NEW newly \in BOOLEAN,
           NEW q \in Requests \cup {Silence}, NEW sent \in BOOLEAN, NEW scanned \in BOOLEAN,
           NEW late \in BOOLEAN, NEW hop \in BOOLEAN
    PROVE  Fine(p, Passed(p, fresh, newly, q, sent, scanned, late, hop))
<1> DEFINE h == Received(p, fresh, newly)
           a == Tick(h, q, newly, sent, scanned, late)
           m == [a.n EXCEPT !.rescan = FALSE]
           b == [a EXCEPT !.n = m]
           c == Discovered(b, hop)
           r == Weighed(c)
<1>1. Timed(p.n.policy, p.l.well) BY DEF Earned
<1>2. /\ Good(h) /\ h.l = p.l /\ h.n.commitN = p.n.commitN /\ h.n.active = p.n.active
      /\ h.n.policy.attempts = p.n.policy.attempts /\ Timed(h.n.policy, h.l.well)
  BY <1>1, ReceivedGood
<1> HIDE DEF h
<1>3. /\ Good(a) /\ PassStep(h, a) /\ Timed(a.n.policy, a.l.well)
      /\ a.n.policy.connected /\ a.n.policy.fresh => CommittedConnected(a)
  BY <1>2, TickGood
<1>4. b = [a EXCEPT !.n.rescan = FALSE] OBVIOUS
<1> HIDE DEF a
<1>5. a.n \in Nets BY <1>3 DEF Good, Core, Panels
<1>6. m \in Nets BY <1>5 DEF Nets
<1>7. Alike(m, a.n) BY <1>5 DEF Alike, Nets
<1> HIDE DEF m
<1>8. Good(b) /\ b.n = m /\ b.w = a.w /\ b.l = a.l BY <1>3, <1>6, <1>7, AlikeGood
<1> HIDE DEF b
<1>9. CommittedConnected(b) <=> CommittedConnected(a)
  BY <1>7, <1>8 DEF CommittedConnected, TargetConnected, Alike
<1>10. Good(c) /\ Spends(b, c) BY <1>8, DiscoveredGood
<1> HIDE DEF c
<1>11. /\ Timed(c.n.policy, c.l.well)
       /\ c.n.policy.connected /\ c.n.policy.fresh => CommittedConnected(c)
  BY <1>3, <1>7, <1>8, <1>9, <1>10 DEF Spends, Alike, Timed
<1>12. Good(r) /\ Earned(r.n, r.l) /\ r.n = c.n BY <1>10, <1>11, WeighedGood
<1> HIDE DEF r
<1>13. r.n.commitN = a.n.commitN /\ r.n.active = a.n.active
  BY <1>7, <1>8, <1>10, <1>12 DEF Spends, Alike
<1>14. r.n.policy.attempts >= a.n.policy.attempts /\ (r.n.policy.known => a.n.policy.known)
  BY <1>7, <1>8, <1>10, <1>12 DEF Spends, Alike
<1>15. \A x \in {h, a, r} : x.n.policy.attempts \in Nat
  <2>1. \A x : Good(x) => x.n.policy.attempts \in Nat
    BY Limits DEF Good, Core, Panels, Nets, PolicyType, Attempts
  <2> QED BY <1>2, <1>3, <1>12, <2>1
<1>16. PassStep(p, r)
  <2>1. \/ r.n.commitN \in {None, p.n.commitN}
        \/ r.n.active \in Works /\ r.n.active = p.l.sent[r.n.commitN]
    BY <1>2, <1>3, <1>13 DEF PassStep
  <2>2. \/ r.n.policy.attempts >= p.n.policy.attempts \/ ~r.n.policy.known
        \/ p.l.well >= RearmStable
    BY <1>2, <1>3, <1>14, <1>15 DEF PassStep
  <2> QED BY <2>1, <2>2 DEF PassStep
<1>17. Passed(p, fresh, newly, q, sent, scanned, late, hop) = r
  BY <1>4 DEF Passed, r, c, a, h
<1> QED BY <1>12, <1>16, <1>17 DEF Fine

LEMMA KeepsFine ==
    ASSUME NEW p, NEW q, Good(p), Earned(p.n, p.l), Good(q), Keeps(p, q)
    PROVE  Fine(p, q)
<1>1. p.n.policy.attempts \in Nat /\ q.n.policy.attempts \in Nat
  BY Limits DEF Good, Core, Panels, Nets, PolicyType, Attempts
<1>2. Earned(q.n, q.l) BY DEF Earned, Timed, Keeps, PolicyStep
<1>3. q.n.policy.attempts >= p.n.policy.attempts \/ ~q.n.policy.known
  BY <1>1 DEF Keeps, PolicyStep
<1>4. PassStep(p, q) BY <1>3 DEF PassStep, Keeps
<1> QED BY <1>2, <1>4 DEF Fine

-------------------------------------------------------------------------------
(* Sleep *)

WorkerNet(n, worker, preparing) == [n EXCEPT !.worker = worker, !.preparing = preparing]

BesidesWorker(k, n) ==
    /\ k.active = n.active /\ k.pending = n.pending /\ k.target = n.target
    /\ k.connecting = n.connecting /\ k.applying = n.applying /\ k.retry = n.retry
    /\ k.enabled = n.enabled /\ k.trial = n.trial /\ k.trialUp = n.trialUp
    /\ k.open = n.open /\ k.exportN = n.exportN /\ k.applyN = n.applyN
    /\ k.commitN = n.commitN /\ k.abortN = n.abortN /\ k.result = n.result
    /\ k.claimed = n.claimed /\ k.releasing = n.releasing /\ k.policy = n.policy
    /\ k.completion = n.completion /\ k.secret = n.secret /\ k.draining = n.draining

LEMMA WorkerNets ==
    ASSUME NEW n \in Nets, NEW v \in {"running", "stopping", "idle"}, NEW b \in BOOLEAN
    PROVE  WorkerNet(n, v, b) \in Nets /\ BesidesWorker(WorkerNet(n, v, b), n)
<1>1. WorkerNet(n, v, b) \in Nets BY DEF WorkerNet, Nets
<1> QED BY <1>1 DEF WorkerNet, BesidesWorker, Nets

LEMMA WorkerGood ==
    ASSUME NEW p, Good(p), ~p.n.secret, ~p.n.draining,
           NEW v \in {"running", "stopping", "idle"}, NEW b \in BOOLEAN
    PROVE  LET q == [p EXCEPT !.n = WorkerNet(p.n, v, b)]
           IN  /\ Good(q) /\ Keeps(p, q) /\ q.n = WorkerNet(p.n, v, b)
               /\ q.n.active = p.n.active /\ q.n.enabled = p.n.enabled /\ q.n.policy = p.n.policy
               /\ q.n.trial = p.n.trial /\ q.n.connecting = p.n.connecting
               /\ q.n.retry = p.n.retry /\ q.n.commitN = p.n.commitN /\ q.w = p.w /\ q.l = p.l
<1> DEFINE m == WorkerNet(p.n, v, b)
           q == [p EXCEPT !.n = m]
<1>1. p \in Panels /\ p.n \in Nets BY DEF Good, Core, Panels
<1>2. m \in Nets /\ BesidesWorker(m, p.n) BY <1>1, WorkerNets
<1> HIDE DEF m
<1>3. OnTrial(m, p.l) BY <1>2 DEF Good, Core, OnTrial, BesidesWorker
<1>4. Concluded(m, p.l) BY <1>2 DEF Good, Core, Concluded, BesidesWorker
<1>5. Joining(m, p.w) BY <1>2 DEF Good, Joining, BesidesWorker
<1>6. Wired(m) BY <1>2 DEF Good, Core, Wired, BesidesWorker
<1>8. Good(q) /\ q.n = m /\ q.w = p.w /\ q.l = p.l
  BY <1>1, <1>3, <1>4, <1>5, <1>2, <1>6, Parts
<1>9. /\ m.active = p.n.active /\ m.enabled = p.n.enabled /\ m.policy = p.n.policy
      /\ m.trial = p.n.trial /\ m.connecting = p.n.connecting
      /\ m.retry = p.n.retry /\ m.commitN = p.n.commitN
  BY <1>2 DEF BesidesWorker
<1> HIDE DEF q
<1>10. Keeps(p, q) BY <1>8, <1>9 DEF Keeps, PolicyStep
<1> QED BY <1>8, <1>9, <1>10 DEF q, m

SleptNet(n, policy) ==
    [n EXCEPT !.policy = policy, !.worker = "running", !.preparing = FALSE, !.enabled = FALSE,
              !.rescan = FALSE]
SleptDriver(w) == [w EXCEPT !.want = None, !.link = None, !.auto = FALSE]

LEMMA SleptNets ==
    ASSUME NEW n \in Nets, NEW policy \in PolicyType
    PROVE  LET m == SleptNet(n, policy)
           IN  /\ m \in Nets /\ m.policy = policy /\ ~m.enabled
               /\ m.connecting = n.connecting /\ m.applying = n.applying
               /\ m.active = n.active /\ m.pending = n.pending /\ m.target = n.target
               /\ m.retry = n.retry /\ m.trial = n.trial /\ m.trialUp = n.trialUp
               /\ m.open = n.open /\ m.exportN = n.exportN /\ m.applyN = n.applyN
               /\ m.commitN = n.commitN /\ m.abortN = n.abortN /\ m.result = n.result
               /\ m.completion = n.completion /\ m.claimed = n.claimed
               /\ m.releasing = n.releasing /\ m.secret = n.secret
               /\ m.draining = n.draining
<1>1. SleptNet(n, policy) \in Nets BY DEF SleptNet, Nets
<1> QED BY <1>1 DEF SleptNet, Nets

LEMMA ResumedPolicy ==
    ASSUME NEW policy \in PolicyType
    PROVE  LET q == Resumed(policy)
           IN  /\ q \in PolicyType /\ q.enabled = policy.enabled /\ q.paused = policy.paused
               /\ ~q.known /\ ~q.fresh
<1>1. Resumed(policy) \in PolicyType BY PolicyTypes
<1> QED BY <1>1 DEF Resumed, PolicyType

LEMMA WokenGood ==
    ASSUME NEW p, Good(p), NetworkSleeps(p.n)
    PROVE  LET q == Woken(p)
           IN  Good(q) /\ q.l = p.l /\ q.n.commitN = p.n.commitN /\ ~q.n.policy.known /\ ~q.n.policy.fresh
<1> DEFINE v == Revoke(p)
           policy == Resumed(p.n.policy)
           m == SleptNet(v.n, policy)
           w == SleptDriver(v.w)
           s == [v EXCEPT !.n = m, !.w = w]
           j == [m EXCEPT !.rescan = TRUE]
           t == [s EXCEPT !.n = j]
           q == Rejoin(s, p.n.active, "resume")
<1>1. p \in Panels /\ p.n \in Nets /\ p.w \in Wifis /\ p.n.policy \in PolicyType
  BY DEF Good, Core, Panels, Nets
<1>2. /\ ~p.n.trial /\ ~p.n.connecting /\ ~p.n.retry /\ ~p.n.secret /\ ~p.n.draining
      /\ ~p.n.applying /\ ~p.n.trialUp
  BY DEF NetworkSleeps, RadioBusy, SerialBusy, Good, Core, Wired, OnTrial
<1>3. /\ policy \in PolicyType /\ policy.enabled = p.n.policy.enabled
      /\ policy.paused = p.n.policy.paused /\ ~policy.known /\ ~policy.fresh
  BY <1>1, ResumedPolicy
<1>4. Woken(p) = IF p.n.active # None /\ p.n.enabled THEN q ELSE [s EXCEPT !.n.rescan = TRUE]
  BY DEF Woken, Rejoin, SleptNet, SleptDriver
<1> HIDE DEF policy
<1>5. /\ v \in Panels /\ v.w = p.w /\ v.l = p.l
      /\ v.n = [p.n EXCEPT !.open = FALSE, !.exportN = None, !.claimed = v.n.claimed,
                           !.releasing = v.n.releasing, !.worker = v.n.worker]
      /\ Core(v)
  BY <1>1, RevokeShape, RevokeCore DEF Good
<1>6. v.n \in Nets /\ v.w \in Wifis BY <1>5 DEF Panels
<1> HIDE DEF v
<1>7. /\ v.n.trial = p.n.trial /\ v.n.connecting = p.n.connecting /\ v.n.retry = p.n.retry
      /\ v.n.secret = p.n.secret /\ v.n.draining = p.n.draining /\ v.n.applying = p.n.applying
      /\ v.n.trialUp = p.n.trialUp /\ v.n.active = p.n.active /\ v.n.commitN = p.n.commitN
  BY <1>1, <1>5, <1>6 DEF Nets
<1>8. /\ m \in Nets /\ m.policy = policy /\ ~m.enabled
      /\ m.connecting = v.n.connecting /\ m.applying = v.n.applying
      /\ m.active = v.n.active /\ m.pending = v.n.pending /\ m.target = v.n.target
      /\ m.retry = v.n.retry /\ m.trial = v.n.trial /\ m.trialUp = v.n.trialUp
      /\ m.open = v.n.open /\ m.exportN = v.n.exportN /\ m.applyN = v.n.applyN
      /\ m.commitN = v.n.commitN /\ m.abortN = v.n.abortN /\ m.result = v.n.result
      /\ m.completion = v.n.completion /\ m.claimed = v.n.claimed
      /\ m.releasing = v.n.releasing /\ m.secret = v.n.secret
      /\ m.draining = v.n.draining
  BY <1>3, <1>6, SleptNets
<1> HIDE DEF m
<1>9. w \in Wifis /\ w.want = None BY <1>6 DEF SleptDriver, Wifis, Saved
<1> HIDE DEF w
<1>10. s \in Panels /\ s.n = m /\ s.w = w /\ s.l = p.l BY <1>5, <1>8, <1>9 DEF Panels
<1>11. [s EXCEPT !.n.rescan = TRUE] = t BY <1>10
<1> HIDE DEF s
<1>12. OnTrial(m, p.l) BY <1>2, <1>5, <1>7, <1>8 DEF Core, OnTrial
<1>13. Concluded(m, p.l) BY <1>5, <1>8 DEF Core, Concluded
<1>14. Wired(m) BY <1>2, <1>5, <1>7, <1>8 DEF Core, Wired
<1>15. Core(s) BY <1>10, <1>12, <1>13, <1>14 DEF Core
<1>16. CASE p.n.active # None /\ p.n.enabled
  <2>1. policy.enabled /\ ~policy.paused BY <1>2, <1>3, <1>16 DEF Good, Joining
  <2>2. s.n.active = p.n.active /\ ~s.n.trial BY <1>2, <1>7, <1>8, <1>10
  <2>3. Good(Rejoin(s, s.n.active, "resume"))
    BY <1>8, <1>10, <1>15, <1>16, <2>1, <2>2, JoinGood
  <2>4. p.n.active \in Saved BY <1>1 DEF Nets
  <2>5. q.n = RejoinNet(m, p.n.active, "resume") /\ q.l = p.l BY <1>10, <2>4, RejoinShape
  <2>6. Good(q) BY <2>2, <2>3
  <2> HIDE DEF q
  <2>7. q.n.commitN = m.commitN /\ q.n.policy = policy
    BY <1>8, <2>5 DEF RejoinNet, JoinPolicy, Nets
  <2> QED BY <1>3, <1>4, <1>7, <1>8, <1>16, <2>5, <2>6, <2>7
<1>17. CASE ~(p.n.active # None /\ p.n.enabled)
  <2>1. j \in Nets BY <1>8 DEF Nets
  <2>2. Alike(j, m) BY <1>8 DEF Alike, Nets
  <2> HIDE DEF j
  <2>3. Joining(m, w) BY <1>2, <1>3, <1>7, <1>8, <1>9, <1>17 DEF Good, Joining, AutoPaused
  <2>4. Good(s) BY <1>10, <1>15, <2>3 DEF Good
  <2>5. Good(t) /\ t.n = j /\ t.l = p.l BY <1>10, <2>1, <2>2, <2>4, AlikeGood
  <2> HIDE DEF t
  <2>6. Woken(p) = t BY <1>4, <1>11, <1>17
  <2> QED BY <1>3, <1>7, <1>8, <2>2, <2>5, <2>6 DEF Alike
<1> QED BY <1>16, <1>17

-------------------------------------------------------------------------------
(* Every step *)

IInv == Good(Panel) /\ Earned(net, log)
Step == IInv' /\ PassStep(Panel, Panel')

LEMMA StepFine == ASSUME NEW q, Fine(Panel, q), Becomes(q) PROVE Step
<1>1. q \in Panels BY DEF Fine, Good, Core
<1>2. q = [n |-> q.n, w |-> q.w, l |-> q.l] BY <1>1 DEF Panels
<1>3. net' = q.n /\ wifi' = q.w /\ log' = q.l BY DEF Becomes
<1>4. Panel' = q BY <1>2, <1>3 DEF Panel
<1> QED BY <1>3, <1>4 DEF Fine, IInv, Step

LEMMA StepKeeps == ASSUME IInv, NEW q, Good(q), Keeps(Panel, q), Becomes(q) PROVE Step
<1>1. Panel.n = net /\ Panel.l = log BY DEF Panel
<1>2. Fine(Panel, q) BY <1>1, KeepsFine DEF IInv
<1> QED BY <1>2, StepFine

LEMMA PanelParts ==
    /\ Panel.n = net /\ Panel.w = wifi /\ Panel.l = log
    /\ IInv => /\ Good(Panel) /\ Panel \in Panels /\ net \in Nets /\ wifi \in Wifis /\ log \in Logs
               /\ OnTrial(net, log) /\ Concluded(net, log) /\ Joining(net, wifi) /\ Wired(net)
<1>1. Panel.n = net /\ Panel.w = wifi /\ Panel.l = log BY DEF Panel
<1>2. IInv => Panel \in Panels BY DEF IInv, Good, Core
<1>3. IInv => net \in Nets /\ wifi \in Wifis /\ log \in Logs BY <1>1, <1>2 DEF Panels
<1>4. IInv => OnTrial(net, log) /\ Concluded(net, log) /\ Joining(net, wifi) /\ Wired(net)
  BY <1>1 DEF IInv, Good, Core
<1> QED BY <1>1, <1>2, <1>3, <1>4 DEF IInv

LEMMA LoopStep ==
    ASSUME IInv, NEW fresh \in BOOLEAN, NEW newly \in BOOLEAN,
           NEW q \in Requests \cup {Silence}, NEW sent \in BOOLEAN, NEW scanned \in BOOLEAN,
           NEW late \in BOOLEAN, NEW hop \in BOOLEAN, Loop(fresh, newly, q, sent, scanned, late, hop)
    PROVE  Step
<1> DEFINE r == Passed(Panel, fresh, newly, q, sent, scanned, late, hop)
<1>1. Good(Panel) /\ Earned(Panel.n, Panel.l) BY PanelParts DEF IInv
<1>2. Fine(Panel, r) BY <1>1, LoopGood
<1>3. Becomes(r) BY DEF Loop, Passed
<1> HIDE DEF r
<1> QED BY <1>2, <1>3, StepFine

LEMMA StayAwakeStep == ASSUME IInv, StayAwake PROVE Step
<1> DEFINE v == IF SerialBusy(net) THEN net.worker ELSE "running"
           q == [Panel EXCEPT !.n = WorkerNet(net, v, FALSE)]
           m == [net EXCEPT !.preparing = FALSE]
           r == [Panel EXCEPT !.n = m]
<1>1. /\ Panel.n = net /\ Good(Panel) /\ net \in Nets /\ Wired(net) /\ Panel \in Panels
  BY PanelParts
<1>2. CASE ~SerialBusy(net)
  <2>1. ~net.secret /\ ~net.draining BY <1>1, <1>2 DEF SerialBusy, Wired
  <2>2. Good(q) /\ Keeps(Panel, q) BY <1>1, <1>2, <2>1, WorkerGood
  <2>3. Becomes(q) BY <1>1, <1>2 DEF StayAwake, Unclaimed, WorkerNet
  <2> HIDE DEF q
  <2> QED BY <2>2, <2>3, StepKeeps
<1>3. CASE SerialBusy(net)
  <2>1. m \in Nets BY <1>1 DEF Nets
  <2>2. Alike(m, net) BY <1>1 DEF Alike, Nets
  <2>3. m = [net EXCEPT !.preparing = FALSE, !.worker = net.worker] BY <1>1 DEF Nets
  <2>4. Becomes(r) BY <1>1, <1>3, <2>3 DEF StayAwake, Unclaimed
  <2> HIDE DEF m
  <2>5. Good(r) /\ Keeps(Panel, r) BY <1>1, <2>1, <2>2, AlikeGood
  <2> HIDE DEF r
  <2> QED BY <2>4, <2>5, StepKeeps
<1> QED BY <1>2, <1>3

LEMMA PrepareSleepStep == ASSUME IInv, NEW idle \in BOOLEAN, PrepareSleep(idle) PROVE Step
<1> DEFINE v == IF net.worker # "running" THEN net.worker ELSE IF idle THEN "idle" ELSE "stopping"
           m == WorkerNet(net, v, TRUE)
           p == [Panel EXCEPT !.n = m]
           u == Woken(p)
           r == Weighed(u)
<1>1. /\ Panel.n = net /\ Good(Panel) /\ net \in Nets /\ Wired(net) /\ Panel \in Panels
      /\ Panel.l = log /\ log \in Logs /\ Earned(net, log)
  BY PanelParts DEF IInv
<1>2. ~SerialBusy(net) BY DEF PrepareSleep
<1>3. ~net.secret /\ ~net.draining BY <1>1, <1>2 DEF SerialBusy, Wired
<1>4. v \in {"running", "stopping", "idle"} BY <1>1 DEF Nets
<1>5. p = [Panel EXCEPT !.n = [Pause(net, idle) EXCEPT !.preparing = TRUE]]
  BY <1>1 DEF WorkerNet, Pause, Nets
<1>6. IF p.n.worker = "idle" /\ NetworkSleeps(net) THEN Becomes(r) ELSE Becomes(p)
  BY <1>1, <1>5 DEF PrepareSleep
<1> HIDE DEF v
<1>7. Good(p) /\ Keeps(Panel, p) /\ p.n = m /\ p.l = log
  <2>1. TRUE \in BOOLEAN OBVIOUS
  <2>2. /\ Good([Panel EXCEPT !.n = WorkerNet(Panel.n, v, TRUE)])
        /\ Keeps(Panel, [Panel EXCEPT !.n = WorkerNet(Panel.n, v, TRUE)])
    BY <1>1, <1>3, <1>4, <2>1, WorkerGood
  <2>3. p.n = m /\ p.l = log BY <1>1 DEF Panels
  <2> QED BY <1>1, <2>2, <2>3
<1>8. /\ m.trial = net.trial /\ m.connecting = net.connecting /\ m.scan = net.scan
      /\ m.retry = net.retry /\ m.tx = net.tx /\ m.claimed = net.claimed
      /\ m.draining = net.draining /\ m.completion = net.completion /\ m.open = net.open
  BY <1>1, <1>4 DEF WorkerNet, Nets
<1> HIDE DEF m, p
<1>9. CASE p.n.worker = "idle" /\ NetworkSleeps(net)
  <2>1. NetworkSleeps(p.n) BY <1>7, <1>8, <1>9 DEF NetworkSleeps, RadioBusy, SerialBusy
  <2>2. Good(u) /\ u.l = p.l /\ u.n.commitN = p.n.commitN /\ ~u.n.policy.known /\ ~u.n.policy.fresh
    BY <1>7, <2>1, WokenGood
  <2> HIDE DEF u
  <2>3. Timed(u.n.policy, u.l.well) BY <2>2 DEF Timed
  <2>4. Good(r) /\ Earned(r.n, r.l) /\ r.n = u.n BY <2>2, <2>3, WeighedGood
  <2> HIDE DEF r
  <2>5. PassStep(Panel, r) BY <1>7, <2>2, <2>4 DEF PassStep, Keeps
  <2>6. Fine(Panel, r) BY <2>4, <2>5 DEF Fine
  <2> QED BY <1>6, <1>9, <2>6, StepFine
<1>10. CASE ~(p.n.worker = "idle" /\ NetworkSleeps(net))
  BY <1>6, <1>7, <1>10, StepKeeps
<1> QED BY <1>9, <1>10

LEMMA CloseStep == ASSUME IInv, Close PROVE Step
<1> DEFINE a == AbortTrial(Panel, FALSE)
           m == FailedTrial(a.n)
           q == [a EXCEPT !.n = m]
           v == Revoke(Panel)
<1>1. /\ Panel.n = net /\ Good(Panel) /\ net \in Nets /\ Panel \in Panels
      /\ OnTrial(net, log) /\ Panel.l = log
  BY PanelParts
<1>2. IF net.trial THEN Becomes(q) ELSE Becomes(v) BY DEF Close, FailedTrial
<1>3. CASE net.trial
  <2>1. /\ Good(a) /\ Keeps(Panel, a) /\ a.n.applyN = net.applyN /\ a.n.result \in Over
        /\ ~a.n.trialUp /\ ~a.n.trial
    BY <1>1, <1>3, AbortGood
  <2>2. net.applyN \in Nonces BY <1>1, <1>3 DEF OnTrial
  <2>3. net.applyN # None BY <2>2, Names
  <2> HIDE DEF a
  <2>4. a \in Panels /\ a.n \in Nets BY <2>1 DEF Good, Core, Panels
  <2>5. "FAILED" \in Results BY DEF Results
  <2>7. /\ m \in Nets /\ m.result = "FAILED" /\ m.enabled = a.n.enabled
        /\ m.connecting = a.n.connecting /\ m.applying = a.n.applying
        /\ m.active = a.n.active /\ m.pending = a.n.pending /\ m.target = a.n.target
        /\ m.retry = a.n.retry /\ m.trial = a.n.trial
        /\ m.trialUp = a.n.trialUp /\ m.open = a.n.open /\ m.exportN = a.n.exportN
        /\ m.applyN = a.n.applyN /\ m.commitN = a.n.commitN /\ m.abortN = a.n.abortN
        /\ m.claimed = a.n.claimed /\ m.releasing = a.n.releasing /\ m.policy = a.n.policy
        /\ m.worker = a.n.worker /\ m.secret = a.n.secret /\ m.draining = a.n.draining
    BY <2>4, <2>5 DEF FailedTrial, Nets
  <2> HIDE DEF m
  <2>8. OnTrial(m, a.l) BY <2>1, <2>7 DEF Good, Core, OnTrial
  <2>9. Concluded(m, a.l) BY <2>1, <2>3, <2>7 DEF Good, Core, Concluded, Over
  <2>10. Wired(m) BY <2>1, <2>7 DEF Good, Core, Wired
  <2>11. Joining(m, a.w) BY <2>1, <2>7 DEF Good, Joining
  <2>12. Good(q) /\ q.n = m /\ q.l = a.l BY <2>4, <2>7, <2>8, <2>9, <2>10, <2>11, Parts
  <2> HIDE DEF q
  <2>13. Keeps(Panel, q) BY <2>1, <2>7, <2>12 DEF Keeps
  <2> QED BY <1>2, <1>3, <2>12, <2>13, StepKeeps
<1>4. CASE ~net.trial
  <2>1. Good(v) /\ Keeps(Panel, v) BY <1>1, RevokeGood, RevokeKeeps
  <2> HIDE DEF v
  <2> QED BY <1>2, <1>4, <2>1, StepKeeps
<1> QED BY <1>3, <1>4

LEMMA StartScanStep == ASSUME IInv, StartScan PROVE Step
<1> DEFINE v == Revoke(Panel)
           m == [v.n EXCEPT !.scan = TRUE]
           q == [v EXCEPT !.n = m]
<1>1. Good(Panel) /\ Panel \in Panels BY PanelParts
<1>2. Good(v) /\ Keeps(Panel, v) BY <1>1, RevokeGood, RevokeKeeps
<1>3. Becomes(q) BY DEF StartScan
<1> HIDE DEF v
<1>4. v.n \in Nets BY <1>2 DEF Good, Core, Panels
<1>5. m \in Nets BY <1>4 DEF Nets
<1>6. Alike(m, v.n) BY <1>4 DEF Alike, Nets
<1> HIDE DEF m
<1>7. Good(q) /\ Keeps(v, q) BY <1>2, <1>5, <1>6, AlikeGood
<1> HIDE DEF q
<1>8. Keeps(Panel, q) BY <1>2, <1>7, StepsAdd
<1> QED BY <1>3, <1>7, <1>8, StepKeeps

RetryNet(n) == [n EXCEPT !.policy = Disabled, !.retry = TRUE, !.opAge = 0]

LEMMA RetryBothStep == ASSUME IInv, RetryBoth PROVE Step
<1> DEFINE v == Revoke(Panel)
           off == Dark(v)
           m == RetryNet(off.n)
           q == [off EXCEPT !.n = m]
<1>1. /\ Good(Panel) /\ Panel \in Panels /\ Panel.n = net /\ net \in Nets
      /\ OnTrial(net, log)
  BY PanelParts
<1>2. net.active # None /\ ~RadioBusy(net) /\ ~net.trial BY DEF RetryBoth
<1>3. /\ ~net.connecting /\ ~net.retry /\ ~net.applying /\ ~net.trialUp
  BY <1>1, <1>2 DEF RadioBusy, OnTrial
<1>4. Becomes(q) BY DEF RetryBoth, RetryNet
<1>5. /\ Core(v) /\ Keeps(Panel, v) /\ v \in Panels
      /\ v.n = [net EXCEPT !.open = FALSE, !.exportN = None, !.claimed = v.n.claimed,
                           !.releasing = v.n.releasing, !.worker = v.n.worker]
  BY <1>1, RevokeCore, RevokeKeeps, RevokeShape DEF Good
<1> HIDE DEF v
<1>6. v.n \in Nets BY <1>5 DEF Panels
<1>7. /\ v.n.trial = net.trial /\ v.n.trialUp = net.trialUp /\ v.n.connecting = net.connecting
      /\ v.n.active = net.active /\ v.n.applying = net.applying
  BY <1>1, <1>5, <1>6 DEF Nets
<1>8. Core(off) /\ off.l = v.l /\ off.n = [v.n EXCEPT !.enabled = FALSE] /\ off.w.want = None
  BY <1>3, <1>5, <1>7, DarkCore
<1> HIDE DEF off
<1>9. off \in Panels /\ off.n \in Nets BY <1>8 DEF Core, Panels
<1>10. /\ off.n.trial = v.n.trial /\ off.n.trialUp = v.n.trialUp /\ off.n.applying = v.n.applying
       /\ off.n.connecting = v.n.connecting /\ off.n.active = v.n.active
       /\ off.n.commitN = v.n.commitN
  BY <1>6, <1>8, <1>9 DEF Nets
<1>11. Disabled \in PolicyType BY Ages DEF Disabled, PolicyType
<1>12. /\ m \in Nets /\ m.policy = Disabled /\ m.retry
       /\ m.connecting = off.n.connecting /\ m.applying = off.n.applying
       /\ m.active = off.n.active /\ m.trial = off.n.trial /\ m.trialUp = off.n.trialUp
       /\ m.open = off.n.open /\ m.exportN = off.n.exportN /\ m.applyN = off.n.applyN
       /\ m.commitN = off.n.commitN /\ m.abortN = off.n.abortN /\ m.result = off.n.result
       /\ m.completion = off.n.completion /\ m.pending = off.n.pending
       /\ m.claimed = off.n.claimed /\ m.releasing = off.n.releasing
       /\ m.worker = off.n.worker /\ m.secret = off.n.secret /\ m.draining = off.n.draining
  <2>1. m \in Nets BY <1>9, <1>11, Ages DEF RetryNet, Nets
  <2> QED BY <1>9, <2>1 DEF RetryNet, Nets
<1> HIDE DEF m
<1>13. OnTrial(m, off.l) BY <1>2, <1>3, <1>7, <1>8, <1>10, <1>12 DEF Core, OnTrial
<1>14. Concluded(m, off.l) BY <1>2, <1>7, <1>8, <1>10, <1>12 DEF Core, Concluded
<1>15. Wired(m) BY <1>8, <1>12 DEF Core, Wired
<1>16. ~Disabled.paused /\ ~Disabled.known /\ ~Disabled.connected BY DEF Disabled
<1>17. Joining(m, off.w)
  <2>1. /\ ~m.connecting /\ ~m.trialUp /\ m.active # None /\ ~m.trial /\ m.retry /\ ~m.enabled
        /\ off.w.want = None /\ ~m.policy.paused
    <3>1. ~m.enabled BY <1>8, <1>6, <1>9 DEF RetryNet, Nets, m
    <3> QED BY <1>2, <1>3, <1>7, <1>8, <1>10, <1>12, <1>16, <3>1
  <2> QED BY <2>1 DEF Joining
<1>18. Good(q) /\ q.n = m /\ q.l = off.l
  BY <1>9, <1>12, <1>13, <1>14, <1>15, <1>17, Parts
<1> HIDE DEF q
<1>19. Keeps(Panel, q)
  BY <1>5, <1>7, <1>8, <1>10, <1>12, <1>16, <1>18 DEF Keeps, PolicyStep
<1> QED BY <1>4, <1>18, <1>19, StepKeeps

SavedNet(n, profile) ==
    [n EXCEPT !.pending = profile, !.open = TRUE, !.setupAge = 0, !.exportN = None, !.applyN = None,
              !.commitN = None, !.abortN = None, !.result = None, !.completion = FALSE]

LEMMA SavedNets ==
    ASSUME NEW n \in Nets, NEW profile \in Profiles
    PROVE  LET m == SavedNet(n, profile)
           IN  /\ m \in Nets /\ m.open /\ m.exportN = None /\ m.applyN = None /\ m.commitN = None
               /\ m.abortN = None /\ m.result = None /\ ~m.completion
               /\ m.connecting = n.connecting /\ m.applying = n.applying /\ m.policy = n.policy
               /\ m.active = n.active /\ m.trial = n.trial /\ m.trialUp = n.trialUp
               /\ m.retry = n.retry /\ m.enabled = n.enabled /\ m.target = n.target
               /\ m.claimed = n.claimed /\ m.releasing = n.releasing
               /\ m.worker = n.worker /\ m.secret = n.secret /\ m.draining = n.draining
<1>1. profile \in Saved /\ None \in Named /\ None \in Results BY DEF Saved, Named, Results
<1> DEFINE m == SavedNet(n, profile)
<1>2. m \in Nets BY <1>1, Ages DEF SavedNet, Nets
<1>3. /\ m.open /\ m.exportN = None /\ m.applyN = None /\ m.commitN = None
      /\ m.abortN = None /\ m.result = None /\ ~m.completion
  BY DEF SavedNet, Nets
<1>4. /\ m.connecting = n.connecting /\ m.applying = n.applying /\ m.policy = n.policy
      /\ m.active = n.active /\ m.trial = n.trial /\ m.trialUp = n.trialUp
      /\ m.retry = n.retry /\ m.enabled = n.enabled /\ m.target = n.target
      /\ m.claimed = n.claimed /\ m.releasing = n.releasing
      /\ m.worker = n.worker /\ m.secret = n.secret /\ m.draining = n.draining
  BY DEF SavedNet, Nets
<1> HIDE DEF m
<1> QED BY <1>2, <1>3, <1>4 DEF m

LEMMA SavePendingStep ==
    ASSUME IInv, NEW profile \in Profiles, SavePending(profile) PROVE Step
<1> DEFINE m == SavedNet(net, profile)
           c == log.saves + 1
           l == [log EXCEPT !.saves = c, !.over = {}]
           q == [n |-> m, w |-> wifi, l |-> l]
<1>1. /\ net \in Nets /\ wifi \in Wifis /\ log \in Logs /\ Panel.n = net /\ Panel.l = log
      /\ OnTrial(net, log) /\ Joining(net, wifi) /\ Wired(net)
  BY PanelParts
<1>2. ~RadioBusy(net) /\ ~net.trial BY DEF SavePending
<1>3. ~net.connecting /\ ~net.applying /\ ~net.trialUp
  BY <1>1, <1>2 DEF RadioBusy, OnTrial
<1>4. Becomes(q) BY DEF SavePending, Becomes, SavedNet
<1>5. c \in Nat BY <1>1 DEF Logs
<1> HIDE DEF c
<1>6. /\ l \in Logs /\ l.over = {} /\ l.sent = log.sent /\ l.well = log.well /\ l.fine = log.fine
  BY <1>1, <1>5 DEF Logs
<1> HIDE DEF l
<1>7. /\ m \in Nets /\ m.open /\ m.exportN = None /\ m.applyN = None /\ m.commitN = None
      /\ m.abortN = None /\ m.result = None /\ ~m.completion
      /\ m.connecting = net.connecting /\ m.applying = net.applying /\ m.policy = net.policy
      /\ m.active = net.active /\ m.trial = net.trial /\ m.trialUp = net.trialUp
      /\ m.retry = net.retry /\ m.enabled = net.enabled /\ m.target = net.target
      /\ m.claimed = net.claimed /\ m.releasing = net.releasing
      /\ m.worker = net.worker /\ m.secret = net.secret /\ m.draining = net.draining
  BY <1>1, SavedNets
<1> HIDE DEF m
<1>8. q \in Panels /\ q.n = m /\ q.w = wifi /\ q.l = l BY <1>1, <1>6, <1>7 DEF Panels
<1>9. OnTrial(m, l) BY <1>2, <1>3, <1>7 DEF OnTrial
<1>10. Concluded(m, l)
  <2>1. None \notin Over BY DEF None, Over
  <2> QED BY <1>6, <1>7, <2>1 DEF Concluded
<1>11. Wired(m) BY <1>1, <1>7 DEF Wired
<1>12. Joining(m, wifi) BY <1>1, <1>7 DEF Joining
<1> HIDE DEF q
<1>13. Good(q) BY <1>8, <1>9, <1>10, <1>11, <1>12 DEF Good, Core
<1>14. Earned(q.n, q.l) BY <1>1, <1>6, <1>7, <1>8 DEF IInv, Earned
<1>15. net.policy.attempts \in Nat BY <1>1, Limits DEF Nets, PolicyType, Attempts
<1>16. q.n.policy.attempts >= Panel.n.policy.attempts BY <1>1, <1>7, <1>8, <1>15
<1>17. PassStep(Panel, q) BY <1>7, <1>8, <1>16 DEF PassStep
<1>18. Fine(Panel, q) BY <1>13, <1>14, <1>17 DEF Fine
<1> QED BY <1>4, <1>18, StepFine

-------------------------------------------------------------------------------
(* The driver, the worker, a restart and time *)

(* The driver's step changes nothing else. *)
LEMMA DriverStep ==
    ASSUME IInv, NEW w \in Wifis, Joining(net, w),
           net' = net /\ wifi' = w /\ log' = log
    PROVE  Step
<1> DEFINE q == [n |-> net, w |-> w, l |-> log]
<1>1. /\ net \in Nets /\ log \in Logs /\ OnTrial(net, log) /\ Concluded(net, log) /\ Wired(net)
      /\ Panel.n = net /\ Panel.l = log
  BY PanelParts
<1>2. q \in Panels /\ q.n = net /\ q.w = w /\ q.l = log BY <1>1 DEF Panels
<1>3. Becomes(q) BY DEF Becomes
<1> HIDE DEF q
<1>4. Good(q) BY <1>1, <1>2 DEF Good, Core
<1>5. Keeps(Panel, q) BY <1>1, <1>2 DEF Keeps, PolicyStep
<1> QED BY <1>3, <1>4, <1>5, StepKeeps

LEMMA LinkUpStep == ASSUME IInv, LinkUp PROVE Step
<1> DEFINE w == [wifi EXCEPT !.link = wifi.want, !.address = TRUE]
<1>1. wifi \in Wifis /\ Joining(net, wifi) BY PanelParts
<1>2. wifi.want \in Works /\ wifi.want # None BY Names DEF LinkUp
<1>3. wifi.want \in Saved BY <1>1 DEF Wifis
<1>4. w \in Wifis /\ w.want = wifi.want BY <1>1, <1>3 DEF Wifis
<1>5. net' = net /\ wifi' = w /\ log' = log BY DEF LinkUp
<1> HIDE DEF w
<1>6. Joining(net, w) BY <1>1, <1>2, <1>4 DEF Joining
<1> QED BY <1>4, <1>5, <1>6, DriverStep

LEMMA LinkDownStep == ASSUME IInv, LinkDown PROVE Step
<1> DEFINE v == IF wifi.auto \/ net.connecting THEN wifi.want ELSE None
           w == [wifi EXCEPT !.link = None, !.want = v]
<1>1. wifi \in Wifis /\ Joining(net, wifi) BY PanelParts
<1>2. v \in Saved /\ v \in {wifi.want, None} BY <1>1 DEF Wifis, Saved
<1>3. net' = net /\ wifi' = w /\ log' = log BY DEF LinkDown
<1> HIDE DEF v
<1>4. w \in Wifis /\ w.want = v /\ w.address = wifi.address BY <1>1, <1>2 DEF Wifis, Saved
<1> HIDE DEF w
<1>5. Joining(net, w) BY <1>1, <1>2, <1>4 DEF Joining
<1> QED BY <1>3, <1>4, <1>5, DriverStep

LEMMA WorkerStopsStep == ASSUME IInv, WorkerStops PROVE Step
<1> DEFINE q == [Panel EXCEPT !.n = WorkerNet(net, "idle", net.preparing)]
<1>1. /\ net \in Nets /\ Wired(net) /\ Panel.n = net /\ Panel.w = wifi /\ Panel.l = log
      /\ Good(Panel) /\ Panel \in Panels
  BY PanelParts
<1>2. ~net.secret /\ ~net.draining BY <1>1 DEF WorkerStops, Wired
<1>3. net.preparing \in BOOLEAN BY <1>1 DEF Nets
<1>4. Good(q) /\ Keeps(Panel, q) BY <1>1, <1>2, <1>3, WorkerGood
<1>5. WorkerNet(net, "idle", net.preparing) = [net EXCEPT !.worker = "idle"]
  BY <1>1 DEF WorkerNet, Nets
<1>6. Becomes(q) BY <1>1, <1>5 DEF WorkerStops, Becomes, Panels
<1> HIDE DEF q
<1> QED BY <1>4, <1>6, StepKeeps

LEMMA BlankNets ==
    ASSUME NEW active \in Saved, NEW pending \in Saved
    PROVE  LET n == Blank(active, pending)
           IN  /\ n \in Nets /\ n.active = active /\ n.pending = pending /\ n.target = None
               /\ ~n.connecting /\ ~n.applying /\ ~n.retry /\ ~n.enabled /\ ~n.trial /\ ~n.trialUp
               /\ ~n.open /\ n.exportN = None /\ n.applyN = None /\ n.commitN = None
               /\ n.abortN = None /\ n.result = None /\ ~n.completion /\ ~n.secret
               /\ ~n.draining /\ ~n.claimed /\ n.policy = Disabled
<1>1. None \in Saved /\ None \in Named /\ None \in Results BY DEF Saved, Named, Results
<1>2. Disabled \in PolicyType /\ NoGuard \in GuardType
  BY Ages DEF Disabled, PolicyType, NoGuard, GuardType
<1>3. Blank(active, pending) \in Nets BY <1>1, <1>2, Ages DEF Blank, Nets
<1> QED BY <1>3 DEF Blank

LEMMA BegunGood ==
    ASSUME NEW active \in Saved, NEW pending \in Saved, NEW l \in Logs
    PROVE  LET q == Begun(active, pending, l)
           IN  /\ Good(q) /\ q.l = l /\ q.n.commitN = None /\ ~q.n.policy.known
               /\ ~q.n.policy.connected
<1> DEFINE n == Blank(active, pending)
           p == [n |-> n, w |-> Unlinked, l |-> l]
           q == Rejoin(p, active, "explicit")
<1>1. /\ n \in Nets /\ n.active = active /\ n.pending = pending /\ n.target = None
      /\ ~n.connecting /\ ~n.applying /\ ~n.retry /\ ~n.enabled /\ ~n.trial /\ ~n.trialUp
      /\ ~n.open /\ n.exportN = None /\ n.applyN = None /\ n.commitN = None
      /\ n.abortN = None /\ n.result = None /\ ~n.completion /\ ~n.secret
      /\ ~n.draining /\ ~n.claimed /\ n.policy = Disabled
  BY BlankNets
<1>2. Begun(active, pending, l) = IF active = None THEN p ELSE q BY DEF Begun, Rejoin
<1> HIDE DEF n
<1>3. Unlinked \in Wifis /\ Unlinked.want = None BY DEF Unlinked, Wifis, Saved
<1>4. p \in Panels /\ p.n = n /\ p.w = Unlinked /\ p.l = l BY <1>1, <1>3 DEF Panels
<1> HIDE DEF p
<1>5. OnTrial(n, l) BY <1>1 DEF OnTrial
<1>6. Concluded(n, l)
  <2>1. None \notin Over BY DEF None, Over
  <2> QED BY <1>1, <2>1 DEF Concluded
<1>7. Wired(n) BY <1>1 DEF Wired
<1>8. Core(p) BY <1>4, <1>5, <1>6, <1>7 DEF Core
<1>9. ~Disabled.paused /\ ~Disabled.known /\ ~Disabled.connected BY DEF Disabled
<1>10. CASE active = None
  <2>1. Joining(n, Unlinked) BY <1>1, <1>3, <1>9, <1>10 DEF Joining
  <2> QED BY <1>1, <1>2, <1>4, <1>8, <1>9, <1>10, <2>1 DEF Good
<1>11. CASE active # None
  <2>1. Good(Rejoin(p, p.n.active, "explicit")) /\ Keeps(p, Rejoin(p, p.n.active, "explicit"))
    BY <1>1, <1>4, <1>8, <1>11, ExplicitGood
  <2>2. Good(q) /\ Keeps(p, q) BY <1>1, <1>4, <2>1
  <2>3. q.n = RejoinNet(n, active, "explicit") /\ q.l = l BY <1>4, RejoinShape
  <2> HIDE DEF q
  <2>4. q.n.policy = Enabled BY <1>1, <2>3 DEF RejoinNet, JoinPolicy, Nets
  <2>5. ~Enabled.known /\ ~Enabled.connected BY DEF Enabled, Disabled
  <2> QED BY <1>1, <1>2, <1>4, <1>11, <2>2, <2>3, <2>4, <2>5 DEF Keeps
<1> QED BY <1>10, <1>11

LEMMA RestartStep == ASSUME IInv, Restart PROVE Step
<1> DEFINE l == [log EXCEPT !.fine = FALSE, !.well = 0]
           q == Begun(net.active, net.pending, l)
<1>1. net \in Nets /\ log \in Logs BY PanelParts
<1>2. net.active \in Saved /\ net.pending \in Saved BY <1>1 DEF Nets
<1>3. l \in Logs BY <1>1 DEF Logs
<1>4. Becomes(q) BY DEF Restart
<1> HIDE DEF l
<1>5. Good(q) /\ q.l = l /\ q.n.commitN = None /\ ~q.n.policy.known /\ ~q.n.policy.connected
  BY <1>2, <1>3, BegunGood
<1> HIDE DEF q
<1>6. Fine(Panel, q) BY <1>5 DEF Fine, Earned, Timed, PassStep
<1> QED BY <1>4, <1>6, StepFine

LEMMA InitGood == Init => IInv
<1> SUFFICES ASSUME Init PROVE IInv
  OBVIOUS
<1>1. PICK active \in Works \cup {None} :
        LET l == [saves |-> 0, sent |-> [n \in Nonces |-> None], over |-> {}, fine |-> FALSE, well |-> 0]
            p == Begun(active, None, l)
        IN  net = p.n /\ wifi = p.w /\ log = p.l
  BY DEF Init
<1> DEFINE l == [saves |-> 0, sent |-> [n \in Nonces |-> None], over |-> {}, fine |-> FALSE, well |-> 0]
           q == Begun(active, None, l)
<1>2. active \in Saved /\ None \in Saved BY Names DEF Saved
<1>3. l \in Logs BY <1>2 DEF Logs
<1>4. net = q.n /\ wifi = q.w /\ log = q.l BY <1>1
<1> HIDE DEF l
<1>5. Good(q) /\ q.l = l /\ ~q.n.policy.connected BY <1>2, <1>3, BegunGood
<1> HIDE DEF q
<1>6. q \in Panels BY <1>5 DEF Good, Core
<1>7. Panel = q BY <1>4, <1>6 DEF Panel, Panels
<1>8. Earned(net, log) BY <1>4, <1>5 DEF Earned, Timed
<1> QED BY <1>5, <1>7, <1>8 DEF IInv

LEMMA OlderPolicy ==
    ASSUME NEW policy \in PolicyType, NEW well \in Nat,
           Timed(policy, well)
    PROVE  LET q == PolicyOlder(policy)
           IN  /\ q \in PolicyType /\ q.enabled = policy.enabled /\ q.paused = policy.paused
               /\ q.connected = policy.connected /\ q.fresh = policy.fresh
               /\ q.attempts = policy.attempts /\ Timed(q, Older(well, RearmStable))
<1> DEFINE a == IF policy.known THEN Older(policy.peerAge, PeerLimit) ELSE policy.peerAge
           b == IF policy.connected \/ policy.paused THEN Older(policy.age, PolicyLimit) ELSE policy.age
           q == PolicyOlder(policy)
<1>1. q \in PolicyType BY PolicyTypes
<1>2. q = [policy EXCEPT !.peerAge = a, !.age = b] BY DEF PolicyOlder
<1>3. policy.peerAge \in Nat /\ policy.age \in Nat BY Limits DEF PolicyType, PeerAges, PolicyAges
<1>4. a \in {policy.peerAge, policy.peerAge + 1} /\ b \in {policy.age, policy.age + 1}
  BY DEF Older
<1> HIDE DEF a, b
<1>5. /\ q.enabled = policy.enabled /\ q.paused = policy.paused
      /\ q.connected = policy.connected /\ q.fresh = policy.fresh
      /\ q.attempts = policy.attempts /\ q.peerAge = a /\ q.age = b
  BY <1>2 DEF PolicyType
<1> HIDE DEF q
<1>6. Older(well, RearmStable) \in {well, well + 1}
      /\ (well < RearmStable => Older(well, RearmStable) = well + 1)
      /\ (~(well < RearmStable) => Older(well, RearmStable) = well)
  BY DEF Older
<1>7. Timed(q, Older(well, RearmStable))
  <2> SUFFICES ASSUME policy.connected, policy.fresh
               PROVE  \/ Older(well, RearmStable) >= RearmStable \/ Older(well, RearmStable) >= b
                      \/ Older(well, RearmStable) >= a
    BY <1>5 DEF Timed
  <2>1. RearmStable \in Nat BY Limits
  <2>2. well >= RearmStable \/ well >= policy.age \/ well >= policy.peerAge BY DEF Timed
  <2>3. CASE well >= RearmStable BY <1>6, <2>1, <2>3
  <2>4. CASE ~(well >= RearmStable) BY <1>3, <1>4, <1>6, <2>1, <2>2, <2>4
  <2> QED BY <2>3, <2>4
<1> QED BY <1>1, <1>5, <1>7 DEF q

LEMMA PassTimeStep == ASSUME IInv, Pass PROVE Step
<1> DEFINE o == IF net.connecting \/ net.retry THEN Older(net.opAge, OpLimit) ELSE 0
           s == IF net.trial \/ net.open THEN Older(net.setupAge, SetupLimit) ELSE 0
           policy == PolicyOlder(net.policy)
           g == GuardOlder(net.guard)
           k == [net EXCEPT !.policy = policy]
           m == [k EXCEPT !.opAge = o, !.setupAge = s, !.guard = g]
           well == IF log.fine THEN Older(log.well, RearmStable) ELSE 0
           l == [log EXCEPT !.well = well]
           q == [n |-> m, w |-> wifi, l |-> l]
<1>1. /\ net \in Nets /\ wifi \in Wifis /\ log \in Logs /\ Panel.n = net /\ Panel.l = log
      /\ OnTrial(net, log) /\ Concluded(net, log) /\ Joining(net, wifi) /\ Wired(net)
      /\ Earned(net, log)
  BY PanelParts DEF IInv
<1>2. net.opAge \in OpAges /\ net.setupAge \in SetupAges /\ net.policy \in PolicyType
      /\ net.guard \in GuardType /\ log.well \in Nat
  BY <1>1 DEF Nets, Logs
<1>3. o \in OpAges BY <1>2, Ages
<1>4. s \in SetupAges BY <1>2, Ages
<1>5. TRUE \in BOOLEAN OBVIOUS
<1>6. g \in GuardType BY <1>2, <1>5, GuardTypes
<1>7. net' = [net EXCEPT !.opAge = o, !.setupAge = s, !.policy = policy, !.guard = g]
  BY DEF Pass
<1>8. log' = l /\ wifi' = wifi BY DEF Pass
<1>9. /\ policy \in PolicyType /\ policy.enabled = net.policy.enabled
      /\ policy.paused = net.policy.paused /\ policy.connected = net.policy.connected
      /\ policy.fresh = net.policy.fresh /\ policy.attempts = net.policy.attempts
      /\ Timed(policy, Older(log.well, RearmStable))
  BY <1>1, <1>2, OlderPolicy DEF Earned
<1>10. Earned(net, log) => /\ policy.connected /\ policy.fresh => log.fine
                           /\ Timed(policy, well)
  BY <1>9 DEF Earned, Timed
<1>11. well \in Nat
  <2>1. RearmStable \in Nat BY Limits
  <2> QED BY <1>2, <2>1 DEF Older
<1> HIDE DEF o, s, policy, g, well
<1>12. net' = m BY <1>1, <1>7 DEF Nets
<1>13. /\ l \in Logs /\ l.sent = log.sent /\ l.over = log.over /\ l.fine = log.fine
       /\ l.well = well
  BY <1>1, <1>11 DEF Logs
<1> HIDE DEF l
<1>14. /\ k \in Nets /\ k.policy = policy /\ k.enabled = net.enabled
       /\ k.connecting = net.connecting /\ k.applying = net.applying
       /\ k.active = net.active /\ k.pending = net.pending /\ k.target = net.target
       /\ k.retry = net.retry /\ k.trial = net.trial /\ k.trialUp = net.trialUp
       /\ k.open = net.open /\ k.exportN = net.exportN /\ k.applyN = net.applyN
       /\ k.commitN = net.commitN /\ k.abortN = net.abortN /\ k.result = net.result
       /\ k.completion = net.completion /\ k.claimed = net.claimed
       /\ k.releasing = net.releasing /\ k.worker = net.worker /\ k.secret = net.secret
       /\ k.draining = net.draining
  BY <1>1, <1>9, PolicyChanged
<1> HIDE DEF k
<1>15. m \in Nets BY <1>3, <1>4, <1>6, <1>14 DEF Nets
<1>16. Alike(m, k) BY <1>14 DEF Alike, Nets
<1> HIDE DEF m
<1>17. q \in Panels /\ q.n = m /\ q.w = wifi /\ q.l = l BY <1>1, <1>13, <1>15 DEF Panels
<1>18. Becomes(q) BY <1>8, <1>12 DEF Becomes
<1> HIDE DEF q
<1>19. OnTrial(m, l) BY <1>1, <1>13, <1>14, <1>16 DEF OnTrial, Alike
<1>20. Concluded(m, l) BY <1>1, <1>13, <1>14, <1>16 DEF Concluded, Alike
<1>21. Wired(m) BY <1>1, <1>14, <1>16 DEF Wired, Alike
<1>22. Joining(m, wifi) BY <1>1, <1>9, <1>14, <1>16 DEF Joining, AutoPaused, Alike
<1>23. Good(q) BY <1>17, <1>19, <1>20, <1>21, <1>22 DEF Good, Core
<1>24. m.policy = policy /\ m.commitN = net.commitN BY <1>14, <1>16 DEF Alike
<1>25. Earned(q.n, q.l) BY <1>1, <1>10, <1>13, <1>17, <1>24 DEF Earned
<1>26. net.policy.attempts \in Nat BY <1>2, Limits DEF PolicyType, Attempts
<1>27. q.n.policy.attempts >= Panel.n.policy.attempts BY <1>1, <1>9, <1>17, <1>24, <1>26
<1>28. PassStep(Panel, q) BY <1>1, <1>17, <1>24, <1>27 DEF PassStep
<1>29. Fine(Panel, q) BY <1>23, <1>25, <1>28 DEF Fine
<1> QED BY <1>18, <1>29, StepFine

LEMMA NextStep == ASSUME IInv, Next PROVE Step
<1>1. net.scan \in BOOLEAN BY PanelParts DEF Nets
<1>2. ASSUME NEW fresh \in BOOLEAN, NEW q \in Asked, NEW scanned \in Maybe(net.scan),
             NEW late \in Maybe(RetryDue(net) \/ TrialDue(net)),
             NEW newly \in Maybe(fresh /\ net.guard.required),
             NEW hop \in Maybe(~fresh /\ AutoPaused(net.policy)),
             NEW sent \in Maybe(SerialBusy(net) \/ net.completion \/ q # Silence),
             Loop(fresh, newly, q, sent, scanned, late, hop)
      PROVE  Step
  <2>1. q \in Requests \cup {Silence} BY DEF Asked
  <2>2. scanned \in BOOLEAN BY <1>1 DEF Maybe
  <2>3. late \in BOOLEAN BY DEF Maybe
  <2>4. newly \in BOOLEAN BY DEF Maybe
  <2>5. hop \in BOOLEAN BY DEF Maybe
  <2>6. sent \in BOOLEAN BY DEF Maybe
  <2> QED BY <1>2, <2>1, <2>2, <2>3, <2>4, <2>5, <2>6, LoopStep
<1>3. ASSUME NEW idle \in BOOLEAN, PrepareSleep(idle) PROVE Step BY <1>3, PrepareSleepStep
<1>4. ASSUME NEW profile \in Profiles, SavePending(profile) PROVE Step BY <1>4, SavePendingStep
<1>5. StayAwake => Step BY StayAwakeStep
<1>6. Close => Step BY CloseStep
<1>7. StartScan => Step BY StartScanStep
<1>8. RetryBoth => Step BY RetryBothStep
<1>9. LinkUp => Step BY LinkUpStep
<1>10. LinkDown => Step BY LinkDownStep
<1>11. WorkerStops => Step BY WorkerStopsStep
<1>12. Restart => Step BY RestartStep
<1>13. Pass => Step BY PassTimeStep
<1> QED BY <1>2, <1>3, <1>4, <1>5, <1>6, <1>7, <1>8, <1>9, <1>10, <1>11, <1>12, <1>13 DEF Next

-------------------------------------------------------------------------------
(* What holds of the panel *)

(* Every step of the loop, the user and the driver keeps the four facts.    *)
THEOREM Invariance == Spec => []IInv
<1>1. IInv /\ [Next]_vars => IInv'
  <2> SUFFICES ASSUME IInv, [Next]_vars PROVE IInv'
    OBVIOUS
  <2>1. CASE Next BY <2>1, NextStep DEF Step
  <2>2. CASE UNCHANGED vars BY <2>2 DEF vars, IInv, Panel
  <2> QED BY <2>1, <2>2
<1> QED BY <1>1, InitGood, PTL DEF Spec

(* The state of the panel has its types, and a join has a target. *)
THEOREM TypesHold == Spec => []TypeOK
<1>1. IInv => TypeOK
  <2> SUFFICES ASSUME IInv PROVE TypeOK
    OBVIOUS
  <2>1. net \in Nets /\ Joining(net, wifi) BY PanelParts
  <2>2. /\ net.active \in Profiles \cup {None} /\ net.pending \in Profiles \cup {None}
        /\ net.policy \in PolicyType /\ net.guard \in GuardType
        /\ net.opAge \in 0..OpLimit /\ net.setupAge \in 0..SetupLimit
    BY <2>1 DEF Nets, Saved, OpAges, SetupAges
  <2>3. {net.exportN, net.applyN, net.commitN, net.abortN} \subseteq Nonces \cup {None}
    BY <2>1 DEF Nets, Named
  <2>4. net.result \in {None, "APPLYING", "CONNECTED", "FAILED", "ABORTED", "COMMITTED"}
    BY <2>1 DEF Nets, Results
  <2>5. net.connecting => net.target # None /\ net.enabled BY <2>1 DEF Joining
  <2> QED BY <2>2, <2>3, <2>4, <2>5 DEF TypeOK
<1> QED BY <1>1, Invariance, PTL

(* A session that the host was told is over is not committed any more. *)
THEOREM OverIsOver == Spec => []FailedStaysFailed
<1>1. IInv => FailedStaysFailed
  <2> SUFFICES ASSUME IInv, net.commitN \in log.over PROVE FALSE
    BY DEF FailedStaysFailed
  <2>1. Concluded(net, log) /\ log \in Logs BY PanelParts
  <2>2. net.commitN # None BY <2>1, Names DEF Logs
  <2>3. net.commitN = net.applyN /\ net.result = "COMMITTED" BY <2>1, <2>2 DEF Concluded
  <2>4. net.result \in Over BY <2>1, <2>2, <2>3 DEF Concluded
  <2> QED BY <2>3, <2>4 DEF Over
<1> QED BY <1>1, Invariance, PTL

(* A panel with a saved network always has a way to it. *)
THEOREM AlwaysAWay == Spec => []NeverStranded
<1>1. IInv => NeverStranded BY PanelParts DEF Joining, NeverStranded
<1> QED BY <1>1, Invariance, PTL

(* The worker is still while the password is on the wire, and the pause is  *)
(* given back.                                                              *)
THEOREM QuietSecret == Spec => [](SecretNeedsQuiet /\ ClaimHasAnEnd)
<1>1. IInv => SecretNeedsQuiet /\ ClaimHasAnEnd
  BY PanelParts DEF Wired, SecretNeedsQuiet, ClaimHasAnEnd
<1> QED BY <1>1, Invariance, PTL

(* The driver joins the saved profile, or one on trial. *)
THEOREM OnlyOnTrial == Spec => []UncommittedOnTrial
<1>1. IInv => UncommittedOnTrial BY PanelParts DEF Joining, UncommittedOnTrial
<1> QED BY <1>1, Invariance, PTL

(* What is saved is what the host was sent and the access point accepted.   *)
THEOREM CommitIsEarned == Spec => CommitsWhatWorked
<1>1. IInv /\ [Next]_vars =>
        [net'.commitN \notin {None, net.commitN} =>
            net'.active = log.sent[net'.commitN] /\ net'.active \in Works]_vars
  <2> SUFFICES ASSUME IInv, Next
               PROVE  net'.commitN \notin {None, net.commitN} =>
                        net'.active = log.sent[net'.commitN] /\ net'.active \in Works
    OBVIOUS
  <2>1. PassStep(Panel, Panel') BY NextStep DEF Step
  <2>2. Panel.n = net /\ Panel.l = log /\ Panel'.n = net' BY DEF Panel
  <2> QED BY <2>1, <2>2 DEF PassStep
<1> QED BY <1>1, Invariance, PTL DEF Spec, CommitsWhatWorked

(* Automatic joins are given back by a link that held, by nothing else.     *)
THEOREM BudgetHolds == Spec => BudgetIsEarned
<1>1. IInv /\ [Next]_vars =>
        [net'.policy.attempts < net.policy.attempts /\ net'.policy.known /\ net'.policy.enabled
            => log.well >= RearmStable]_vars
  <2> SUFFICES ASSUME IInv, Next, net'.policy.attempts < net.policy.attempts, net'.policy.known
               PROVE  log.well >= RearmStable
    OBVIOUS
  <2>1. IInv' /\ PassStep(Panel, Panel') BY NextStep DEF Step
  <2>2. Panel.n = net /\ Panel.l = log /\ Panel'.n = net' BY DEF Panel
  <2>3. net.policy.attempts \in Nat
    BY PanelParts, Limits DEF Nets, PolicyType, Attempts
  <2>4. Panel' \in Panels BY <2>1 DEF IInv, Good, Core
  <2>5. net'.policy.attempts \in Nat
    BY <2>2, <2>4, Limits DEF Panels, Nets, PolicyType, Attempts
  <2> QED BY <2>1, <2>2, <2>3, <2>5 DEF PassStep
<1> QED BY <1>1, Invariance, PTL DEF Spec, BudgetIsEarned
===============================================================================

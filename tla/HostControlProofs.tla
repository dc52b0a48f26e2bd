--------------------------- MODULE HostControlProofs ---------------------------
(***************************************************************************)
(* Host control for any hosts, requests, packets, queue and faults. The    *)
(* invariant is Good: a function of the policy n, its owner o, the         *)
(* publisher p, the panel q, the commands cs ever sent and the queue w of  *)
(* those that wait. Its parts follow a request on its way: Numbered (the   *)
(* panel), Ordered (the queue), Once (it becomes an operation), Told (what *)
(* the publisher says of it), Shown (what the panel believes of it). The   *)
(* lemmas Good... say that each half of a step keeps it; the steps combine *)
(* them.                                                                   *)
(***************************************************************************)
EXTENDS HostControl, SequenceTheorems, TLAPS

(* Types. *)
Targets == Hosts \cup {NoHost, Flash.status.target}
Peers == [Hosts -> Marks]
Fates == {"none", "acknowledged", "failed"}

Statuses ==
    [op : Nat, requested : Modes \ {"ALIAS"}, applied : Modes,
     state : {"PAUSED", "SWITCHING", "WAITING", "ENROLLING", "CONNECTED", "ERROR"},
     target : Targets, connected : Targets, error : {"none", "failed", "timeout"}, bonds : Nat \ {0}]
Askers == [client : Nat, request : Nat, opcode : Opcodes, target : Targets, gen : Nat]
Natives ==
    [status : Statuses, queue : {NoCmd} \cup [mode : Modes, target : Targets, op : Nat],
     peers : Peers, peersAt : Seq(Peers), asked : Seq(Askers), done : SUBSET Nat]
Orders == [mode : Modes, target : Targets, by : Askers]
Owners ==
    [pending : {NoCmd} \cup Orders, expected : Nat,
     status : Statuses, peers : Peers, peerGen : Nat, error : {0, 7, 10}, failed : BOOLEAN,
     alias : Targets, blocked : BOOLEAN]

Commands == [session : Nat \ {0}, client : Nat \ {0}, request : Nat \ {0}, opcode : Opcodes, gen : Nat,
             target : Targets]
Shakes == [client : Nat, request : Nat, gen : Nat]
Answers == 0..Listed
StatusPackets ==
    [kind : {"status"}, session : Nat \ {0}, client : Nat, request : Nat, result : Answers, error : Nat,
     op : Nat, ready : BOOLEAN, native : Statuses]
ListPackets == [kind : {"list"}, session : Nat \ {0}, gen : Nat \ {0}, peers : Peers]
Packets == {NoPacket} \cup StatusPackets \cup ListPackets
Publishers ==
    [session : Nat \ {0}, client : Nat, request : Nat, result : Answers, error : Nat, last : Nat,
     established : BOOLEAN, handshake : Shakes, policy : BOOLEAN, alias : BOOLEAN, echo : BOOLEAN,
     seq : Nat, out : Packets, fate : Fates,
     challenges : SUBSET Nat, rejection : Shakes]
Panels ==
    [client : Nat \ {0}, counter : Nat, session : Nat, observed : Nat,
     status : {BlankStatus} \cup StatusPackets, sseq : Nat, sfresh : BOOLEAN,
     list : [gen : Nat, peers : Peers], lseq : Nat, lfresh : BOOLEAN,
     admitted : Nat, waiting : BOOLEAN, challenge : Nat, shake : Nat, selected : Targets,
     pending : BOOLEAN, own : BOOLEAN, opcode : Opcodes, request : Nat, target : Targets,
     baseline : Nat, baseOp : Nat, operation : Nat, result : Results]

-------------------------------------------------------------------------------
(* What a status s that was read from the policy n says of its operation.   *)
Met(s, peers, by) ==
    CASE by.opcode = "DISCONNECT" ->
             s.state = "PAUSED" /\ s.requested = "PAUSED" /\ s.connected = NoHost /\ s.error = "none"
      [] by.opcode = "SELECT" -> s.state = "CONNECTED" /\ s.connected = by.target
      [] by.opcode = "ENROLL" -> s.state = "CONNECTED"
      [] by.opcode = "ALIAS" -> s.error = "none" /\ peers[by.target] = "named"

(* A status s that somebody holds was true of n once: if it shows its      *)
(* operation carried out, the operation is on record as carried out.        *)
Seen(s, n) ==
    /\ s.bonds \in 1..Len(n.peersAt) /\ s.op \in 0..Len(n.asked)
    /\ s.op # 0 => (Met(s, n.peersAt[s.bonds], n.asked[s.op]) => s.op \in n.done)

(* A list of saved hosts is that of its generation. *)
Listing(gen, peers, n) == gen = 0 \/ (gen \in 1..Len(n.peersAt) /\ peers = n.peersAt[gen])

(* The policy: its peers are those of its last generation. *)
Policy(n) ==
    /\ n \in Natives
    /\ n.status.bonds = Len(n.peersAt) /\ n.peers = n.peersAt[n.status.bonds] /\ Seen(n.status, n)
    /\ n.queue # NoCmd => n.queue.op \in 1..Len(n.asked)
    /\ \A i \in 1..Len(n.asked) : n.asked[i].opcode # "LIST"

(* The owner: its copies were true, and a request that waits has no number. *)
Owning(n, o) ==
    /\ o \in Owners
    /\ Listing(o.peerGen, o.peers, n) /\ Seen(o.status, n)
    /\ o.expected \in 0..Len(n.asked) /\ (o.pending # NoCmd => o.expected = 0 /\ o.pending.by.opcode # "LIST")

(* c is the command of by. *)
Asks1(c, by) ==
    c.client = by.client /\ c.request = by.request /\ c.opcode = by.opcode /\ c.target = by.target
Aired(by, cs) == by.client # 0 => \E c \in cs : Asks1(c, by)
SameKey(x, y) == x.client = y.client /\ x.request = y.request

(* The commands on the air: one number, one command; none ahead of the panel. *)
Numbered(p, q, cs) ==
    /\ cs \subseteq Commands
    /\ \A c, d \in cs : SameKey(c, d) => c = d
    /\ \A c \in cs :
          /\ c.client <= q.client /\ (c.client = q.client => c.request <= q.counter)
          /\ c.session <= p.session

(* The queue is in the order of the panel's boots, and none of it is older  *)
(* than the boot the publisher has admitted.                                *)
Ordered(p, q, cs, w) ==
    /\ w \in Seq(Commands)
    /\ \A i \in 1..Len(w) : w[i] \in cs /\ p.client <= w[i].client
    /\ \A i, j \in 1..Len(w) : i <= j => w[i].client <= w[j].client
    /\ p.client <= q.client /\ (p.client # 0 => \E c \in cs : c.client = p.client)

(* c was taken up: it is an operation, or waits to become one. *)
Taken(c, n, o) ==
    \/ \E i \in 1..Len(n.asked) : SameKey(c, n.asked[i])
    \/ o.pending # NoCmd /\ SameKey(c, o.pending.by)

(* No request is taken up twice. The publisher can only tell a repetition   *)
(* by its numbers, hence the fifth line: whatever of this session was taken *)
(* up is not ahead of what it has on record.                                *)
Once(n, o, p, cs) ==
    /\ \A i \in 1..Len(n.asked) : Aired(n.asked[i], cs)
    /\ o.pending # NoCmd => Aired(o.pending.by, cs)
    /\ \A i, j \in 1..Len(n.asked) : n.asked[i].client # 0 /\ i # j => ~SameKey(n.asked[i], n.asked[j])
    /\ o.pending # NoCmd /\ o.pending.by.client # 0 =>
          \A i \in 1..Len(n.asked) : ~SameKey(n.asked[i], o.pending.by)
    /\ \A c \in cs : c.session = p.session /\ Taken(c, n, o) =>
          p.established /\ (c.client < p.client \/ (c.client = p.client /\ c.request <= p.last))
    /\ p.established => p.last > 0 /\ p.client > 0

(* What a status packet says of an operation is said of the operation that  *)
(* was made of its request.                                                 *)
Honest(st, n, cs) ==
    st.client # 0 /\ st.result # Rejected /\ st.op # 0 /\ st.ready =>
        /\ st.op <= Len(n.asked)
        /\ \E c \in cs : /\ SameKey(c, st)
                         /\ c.opcode # "LIST" => Asks1(c, n.asked[st.op]) /\ st.native.op = st.op

(* The publisher and its packet speak of the request they name. *)
Told(n, o, p, cs) ==
    /\ p.policy =>
          /\ p.client # 0 /\ \E c \in cs : SameKey(c, p) /\ c.opcode # "LIST"
          /\ IF o.pending # NoCmd THEN SameKey(o.pending.by, p)
             ELSE o.expected = 0 \/ SameKey(n.asked[o.expected], p)
    /\ p.alias => p.policy
    /\ p.echo /\ p.client # 0 =>
          /\ p.result # 0
          /\ p.result \in {Accepted, Applied} => p.policy
          /\ p.result = Listed => \E c \in cs : SameKey(c, p) /\ c.opcode = "LIST"
    /\ p.out.kind = "status" => Honest(p.out, n, cs) /\ Seen(p.out.native, n)
    /\ p.out.kind = "list" => Listing(p.out.gen, p.out.peers, n)
    /\ p.out # NoPacket => p.out.session = p.session

(* What the panel has seen, and what it waits for, was really said and sent. *)
Shown(n, p, q, cs) ==
    /\ q.session <= p.session /\ q.observed \in {0, q.session}
    /\ q.sfresh => q.status.kind = "status" /\ q.observed = q.session /\ q.session # 0
    /\ q.status.kind = "status" => Honest(q.status, n, cs) /\ Seen(q.status.native, n)
    /\ Listing(q.list.gen, q.list.peers, n)
    /\ q.waiting =>
          /\ q.observed = q.session /\ q.session # 0 /\ q.shake <= q.counter /\ q.shake # 0
          /\ Command(q, "LIST", q.shake, NoHost, q.challenge) \in cs
    /\ q.request <= q.counter
    /\ q.pending =>
          /\ q.opcode # "LIST"
          /\ \E c \in cs : c.client = q.client /\ c.request = q.request /\ c.opcode = q.opcode /\ c.target = q.target

Good(n, o, p, q, cs, w) ==
    /\ p \in Publishers /\ q \in Panels
    /\ Policy(n) /\ Owning(n, o) /\ Numbered(p, q, cs) /\ Ordered(p, q, cs, w)
    /\ Once(n, o, p, cs) /\ Told(n, o, p, cs) /\ Shown(n, p, q, cs)

IInv == Good(native, own, pub, panel, aired, queue)

-------------------------------------------------------------------------------
(* What was said of the policy n remains true of m. *)
Grows(n, m) ==
    /\ Len(n.peersAt) <= Len(m.peersAt) /\ \A i \in 1..Len(n.peersAt) : m.peersAt[i] = n.peersAt[i]
    /\ Len(n.asked) <= Len(m.asked) /\ \A i \in 1..Len(n.asked) : m.asked[i] = n.asked[i]
    /\ n.done \subseteq m.done

(* The parts of the invariant about the policy survive its growth. *)
LEMMA LogLengths ==
    ASSUME NEW n \in Natives
    PROVE  /\ Len(n.peersAt) \in Nat /\ Len(n.asked) \in Nat
           /\ \A i \in 1..Len(n.asked) : n.asked[i] \in Askers
           /\ \A i \in 1..Len(n.peersAt) : n.peersAt[i] \in Peers
BY LenProperties, ElementOfSeq DEF Natives

LEMMA GrowsItself == ASSUME NEW n \in Natives PROVE Grows(n, n)
BY LogLengths DEF Grows

LEMMA SeenGrows ==
    ASSUME NEW n \in Natives, NEW m \in Natives, Grows(n, m), NEW s, Seen(s, n)
    PROVE  Seen(s, m)
<1> DEFINE a == Len(n.peersAt)
           b == Len(m.peersAt)
           c == Len(n.asked)
           d == Len(m.asked)
<1>1. a \in Nat /\ b \in Nat /\ c \in Nat /\ d \in Nat BY LogLengths
<1>2. a <= b /\ c <= d BY DEF Grows
<1>3. s.bonds \in 1..a /\ s.op \in 0..c BY DEF Seen
<1>4. m.peersAt[s.bonds] = n.peersAt[s.bonds] BY <1>3 DEF Grows
<1>5. s.op # 0 => m.asked[s.op] = n.asked[s.op]
  <2>1. s.op # 0 => s.op \in 1..c BY <1>1, <1>3
  <2> QED BY <2>1 DEF Grows
<1> HIDE DEF a, b, c, d
<1>6. s.bonds \in 1..b /\ s.op \in 0..d BY <1>1, <1>2, <1>3
<1> QED BY <1>4, <1>5, <1>6 DEF Seen, Grows, b, d

LEMMA ListingGrows ==
    ASSUME NEW n \in Natives, NEW m \in Natives, Grows(n, m), NEW gen, NEW peers, Listing(gen, peers, n)
    PROVE  Listing(gen, peers, m)
<1> DEFINE a == Len(n.peersAt)
           b == Len(m.peersAt)
<1>1. a \in Nat /\ b \in Nat /\ a <= b BY LogLengths DEF Grows
<1>2. CASE gen = 0 BY <1>2 DEF Listing
<1>3. CASE gen \in 1..a /\ peers = n.peersAt[gen]
  <2>1. m.peersAt[gen] = n.peersAt[gen] BY <1>3 DEF Grows
  <2> HIDE DEF a, b
  <2>2. gen \in 1..b BY <1>1, <1>3
  <2> QED BY <1>3, <2>1, <2>2 DEF Listing, b
<1> QED BY <1>2, <1>3 DEF Listing

LEMMA HonestGrows ==
    ASSUME NEW n \in Natives, NEW m \in Natives, Grows(n, m), NEW cs, NEW ds, cs \subseteq ds,
           NEW st, st.op \in Nat, Honest(st, n, cs)
    PROVE  Honest(st, m, ds)
<1> DEFINE a == Len(n.asked)
           b == Len(m.asked)
<1>1. a \in Nat /\ b \in Nat /\ a <= b BY LogLengths DEF Grows
<1> SUFFICES ASSUME st.client # 0, st.result # Rejected, st.op # 0, st.ready
             PROVE  /\ st.op <= b
                    /\ \E c \in ds : /\ SameKey(c, st)
                                     /\ c.opcode # "LIST" => Asks1(c, m.asked[st.op]) /\ st.native.op = st.op
  BY DEF Honest
<1>2. st.op <= a BY DEF Honest
<1>3. PICK c \in cs : SameKey(c, st) /\ (c.opcode # "LIST" => Asks1(c, n.asked[st.op]) /\ st.native.op = st.op)
  BY DEF Honest
<1>4. m.asked[st.op] = n.asked[st.op]
  <2>1. st.op \in 1..a BY <1>1, <1>2
  <2> QED BY <2>1 DEF Grows
<1> HIDE DEF a, b
<1>5. st.op <= b BY <1>1, <1>2
<1> QED BY <1>3, <1>4, <1>5

-------------------------------------------------------------------------------
(* The policy's own task. *)

(* What a step of the policy leaves of n, before it is marked. *)
Moves(n, m) ==
    /\ m \in Natives /\ m.asked = n.asked /\ m.done = n.done
    /\ Len(n.peersAt) <= Len(m.peersAt) /\ \A i \in 1..Len(n.peersAt) : m.peersAt[i] = n.peersAt[i]
    /\ m.status.bonds = Len(m.peersAt) /\ m.peers = m.peersAt[m.status.bonds]
    /\ m.status.op \in 0..Len(m.asked)
    /\ m.queue # NoCmd => m.queue.op \in 1..Len(m.asked)

LEMMA MovesItself == ASSUME NEW n, Policy(n) PROVE Moves(n, n)
BY LogLengths DEF Moves, Policy, Seen

(* Only the status changes, and not its bonds. *)
LEMMA StatusMoves ==
    ASSUME NEW n, NEW k, Moves(n, k), NEW s \in Statuses, s.bonds = k.status.bonds, s.op = k.status.op
    PROVE  Moves(n, [k EXCEPT !.status = s])
BY DEF Moves, Natives

LEMMA PeersMove ==
    ASSUME NEW n \in Natives, NEW k, Moves(n, k), NEW peers \in Peers
    PROVE  Moves(n, SetPeers(k, peers)) /\ SetPeers(k, peers).status = [k.status EXCEPT !.bonds = @ + 1]
<1> DEFINE s == [k.status EXCEPT !.bonds = @ + 1]
           ps == Append(k.peersAt, peers)
           m == SetPeers(k, peers)
           a == Len(n.peersAt)
           b == Len(k.peersAt)
<1>1. k \in Natives /\ k.status \in Statuses /\ k.peersAt \in Seq(Peers) /\ k.status.bonds = b BY DEF Moves, Natives
<1>2. s \in Statuses /\ s.bonds = b + 1 /\ s.op = k.status.op BY <1>1 DEF Statuses
<1>3. b \in Nat BY <1>1, LenProperties
<1>4. a \in Nat BY LogLengths
<1>5. ps \in Seq(Peers) /\ Len(ps) = b + 1 /\ ps[b + 1] = peers /\ \A i \in 1..b : ps[i] = k.peersAt[i]
  BY <1>1, AppendProperties
<1>6. m = [k EXCEPT !.peers = peers, !.peersAt = ps, !.status = s] BY DEF SetPeers
<1> HIDE DEF s, ps
<1>7. m \in Natives /\ m.status = s /\ m.peersAt = ps /\ m.peers = peers /\ m.queue = k.queue /\ m.asked = k.asked
      /\ m.done = k.done
  BY <1>1, <1>2, <1>5, <1>6 DEF Natives
<1> HIDE DEF m
<1>8. a <= b + 1 /\ \A i \in 1..a : ps[i] = n.peersAt[i]
  <2>1. a <= b /\ \A i \in 1..a : k.peersAt[i] = n.peersAt[i] BY DEF Moves
  <2> HIDE DEF a, b
  <2>2. a <= b + 1 /\ \A i \in 1..a : i \in 1..b BY <1>3, <1>4, <2>1
  <2> QED BY <1>5, <2>1, <2>2
<1> QED BY <1>2, <1>5, <1>7, <1>8 DEF Moves, s, m

(* The steps of the policy, one by one. *)
LEMMA ServedMoves ==
    ASSUME NEW n, Policy(n), NEW fails \in BOOLEAN, NEW m \in Served(n, fails)
    PROVE  Moves(n, m)
<1> DEFINE c == n.queue
           requested == IF c.mode = "ALIAS" THEN n.status.requested ELSE c.mode
           s == [n.status EXCEPT !.op = c.op, !.requested = requested]
           taken == [n EXCEPT !.queue = NoCmd, !.status = s]
           fs == [s EXCEPT !.state = "ERROR", !.applied = "PAUSED", !.error = "failed"]
           ss == [s EXCEPT !.applied = "PAUSED", !.state = "SWITCHING", !.error = "none",
                           !.target = IF c.mode = "AUTO" THEN c.target ELSE @]
<1>1. c # NoCmd BY DEF Served
<1>2. /\ n \in Natives /\ n.status \in Statuses /\ n.peers \in Peers
      /\ c \in [mode : Modes, target : Targets, op : Nat] /\ c.op \in 1..Len(n.asked)
  BY <1>1 DEF Policy, Natives
<1>3. s \in Statuses /\ s.op = c.op /\ s.bonds = n.status.bonds /\ s.state = n.status.state
  BY <1>2 DEF Statuses
<1>4. taken \in Natives /\ taken.status = s /\ taken.peers = n.peers /\ taken.queue = NoCmd
  BY <1>2, <1>3 DEF Natives
<1>5. Moves(n, taken)
  <2>1. /\ taken.asked = n.asked /\ taken.done = n.done /\ taken.peersAt = n.peersAt BY <1>2 DEF Natives
  <2>2. c.op \in 0..Len(n.asked)
    <3>1. Len(n.asked) \in Nat BY <1>2, LogLengths
    <3> QED BY <1>2, <3>1
  <2>3. Moves(n, n) BY MovesItself
  <2> QED BY <1>2, <1>3, <1>4, <2>1, <2>2, <2>3 DEF Moves, Policy
<1> HIDE DEF s
<1>6. fs \in Statuses /\ fs.bonds = s.bonds /\ fs.op = s.op BY <1>3 DEF Statuses, Modes
<1>7. ss \in Statuses /\ ss.bonds = s.bonds /\ ss.op = s.op
  <2> DEFINE target == IF c.mode = "AUTO" THEN c.target ELSE s.target
  <2>1. target \in Targets BY <1>2, <1>3 DEF Statuses
  <2>2. ss = [s EXCEPT !.applied = "PAUSED", !.state = "SWITCHING", !.error = "none", !.target = target]
    BY <1>3 DEF Statuses
  <2> HIDE DEF target
  <2> QED BY <1>3, <2>1, <2>2 DEF Statuses, Modes
<1>8. \/ m = [taken EXCEPT !.status = fs] \/ m = [taken EXCEPT !.status = ss]
      \/ c.mode = "ALIAS" /\ c.target \in Saved(n.peers) /\ m = SetPeers(taken, [n.peers EXCEPT ![c.target] = "named"])
  <2>1. taken = [n EXCEPT !.queue = NoCmd, !.status.op = c.op, !.status.requested = requested]
    BY <1>2 DEF Natives, s
  <2>2. [taken EXCEPT !.status = fs]
        = [taken EXCEPT !.status.state = "ERROR", !.status.applied = "PAUSED", !.status.error = "failed"]
    BY <1>4 DEF Natives
  <2>3. [taken EXCEPT !.status = ss]
        = [taken EXCEPT !.status.applied = "PAUSED", !.status.state = "SWITCHING", !.status.error = "none",
                        !.status.target = IF c.mode = "AUTO" THEN c.target ELSE @]
    BY <1>4 DEF Natives
  <2>4. CASE c.mode = "ALIAS" BY <1>1, <2>1, <2>2, <2>4 DEF Served
  <2>5. CASE c.mode # "ALIAS"
    <3> DEFINE tk == [n EXCEPT !.queue = NoCmd, !.status.op = c.op, !.status.requested = requested]
               f == [tk EXCEPT !.status.state = "ERROR", !.status.applied = "PAUSED", !.status.error = "failed"]
               g == [tk EXCEPT !.status.applied = "PAUSED", !.status.state = "SWITCHING", !.status.error = "none",
                               !.status.target = IF c.mode = "AUTO" THEN c.target ELSE @]
    <3>1. m \in {f} \/ m \in {g} BY <1>1, <1>2, <2>5 DEF Served, Modes
    <3>2. tk = taken BY <2>1
    <3> HIDE DEF tk
    <3> QED BY <2>2, <2>3, <3>1, <3>2
  <2> QED BY <2>4, <2>5
<1> HIDE DEF taken, fs, ss
<1>9. CASE m = [taken EXCEPT !.status = fs] BY <1>5, <1>6, <1>4, <1>9, StatusMoves
<1>10. CASE m = [taken EXCEPT !.status = ss] BY <1>5, <1>7, <1>4, <1>10, StatusMoves
<1>11. CASE /\ c.mode = "ALIAS" /\ c.target \in Saved(n.peers)
            /\ m = SetPeers(taken, [n.peers EXCEPT ![c.target] = "named"])
  <2>1. [n.peers EXCEPT ![c.target] = "named"] \in Peers BY <1>2 DEF Peers, Marks
  <2> QED BY <1>2, <1>5, <1>11, <2>1, PeersMove
<1> QED BY <1>8, <1>9, <1>10, <1>11

LEMMA SettledMoves ==
    ASSUME NEW n, NEW k, Moves(n, k), NEW m \in Settled(k)
    PROVE  Moves(n, m)
<1> DEFINE s == k.status
           paused == [s EXCEPT !.state = "PAUSED"]
           waits == [s EXCEPT !.state = "WAITING", !.applied = "AUTO"]
           failed == [s EXCEPT !.state = "ERROR", !.error = "failed"]
           enrols == [s EXCEPT !.state = "ENROLLING", !.applied = "ENROLL"]
<1>1. k \in Natives /\ s \in Statuses BY DEF Moves, Natives
<1>2. \A t \in {paused, waits, failed, enrols} : t \in Statuses /\ t.bonds = s.bonds /\ t.op = s.op
  BY <1>1 DEF Statuses, Modes
<1>3. \E t \in {paused, waits, failed, enrols} : m = [k EXCEPT !.status = t]
  <2>1. /\ [k EXCEPT !.status.state = "PAUSED"] = [k EXCEPT !.status = paused]
        /\ [k EXCEPT !.status.state = "WAITING", !.status.applied = "AUTO"] = [k EXCEPT !.status = waits]
        /\ [k EXCEPT !.status.state = "ERROR", !.status.error = "failed"] = [k EXCEPT !.status = failed]
        /\ [k EXCEPT !.status.state = "ENROLLING", !.status.applied = "ENROLL"] = [k EXCEPT !.status = enrols]
    BY <1>1 DEF Natives
  <2> HIDE DEF paused, waits, failed, enrols
  <2>2. CASE s.requested = "PAUSED" BY <2>1, <2>2 DEF Settled
  <2>3. CASE s.requested = "AUTO" BY <2>1, <2>3 DEF Settled
  <2>4. CASE s.requested = "ENROLL" BY <2>1, <2>4 DEF Settled
  <2>5. s.requested \in {"PAUSED", "AUTO", "ENROLL"} BY <1>1 DEF Statuses, Modes
  <2> QED BY <2>2, <2>3, <2>4, <2>5
<1> HIDE DEF paused, waits, failed, enrols
<1> QED BY <1>1, <1>2, <1>3, StatusMoves

LEMMA SpoiltMoves ==
    ASSUME NEW n, Policy(n), NEW m \in Spoilt(n)
    PROVE  Moves(n, m)
<1>1. n \in Natives /\ n.peers \in Peers /\ Moves(n, n) BY MovesItself DEF Policy, Natives
<1>2. PICK h \in Hosts : m \in Settled(SetPeers(n, [n.peers EXCEPT ![h] = "lost"])) BY DEF Spoilt
<1>3. [n.peers EXCEPT ![h] = "lost"] \in Peers BY <1>1 DEF Peers, Marks
<1>4. Moves(n, SetPeers(n, [n.peers EXCEPT ![h] = "lost"])) BY <1>1, <1>3, PeersMove
<1> QED BY <1>2, <1>4, SettledMoves

LEMMA LinkedMoves ==
    ASSUME NEW n, Policy(n), NEW m \in Linked(n)
    PROVE  Moves(n, m)
<1> DEFINE up(k, h) == [k EXCEPT !.status.state = "CONNECTED", !.status.connected = h, !.status.target = h,
                                 !.status.requested = "AUTO", !.status.applied = "AUTO"]
<1>1. n \in Natives /\ n.peers \in Peers /\ n.status \in Statuses /\ Moves(n, n) BY MovesItself DEF Policy, Natives
<1>2. ASSUME NEW k, Moves(n, k), NEW h \in Targets PROVE Moves(n, up(k, h))
  <2> DEFINE s == [k.status EXCEPT !.state = "CONNECTED", !.connected = h, !.target = h,
                                   !.requested = "AUTO", !.applied = "AUTO"]
  <2>1. k \in Natives /\ k.status \in Statuses BY <1>2 DEF Moves, Natives
  <2>2. s \in Statuses /\ s.bonds = k.status.bonds /\ s.op = k.status.op BY <2>1 DEF Statuses, Modes
  <2>3. up(k, h) = [k EXCEPT !.status = s] BY <2>1 DEF Natives
  <2> HIDE DEF s
  <2> QED BY <1>2, <2>2, <2>3, StatusMoves
<1>3. CASE n.status.state = "WAITING"
  <2>1. m = up(n, n.status.target) BY <1>3 DEF Linked
  <2>2. n.status.target \in Targets BY <1>1 DEF Statuses
  <2> HIDE DEF up
  <2> QED BY <1>1, <1>2, <2>1, <2>2
<1>4. CASE n.status.state # "WAITING"
  <2>1. PICK h \in Hosts : m = up(SetPeers(n, [n.peers EXCEPT ![h] = "plain"]), h) BY <1>4 DEF Linked, Saved
  <2>2. [n.peers EXCEPT ![h] = "plain"] \in Peers BY <1>1 DEF Peers, Marks
  <2>3. Moves(n, SetPeers(n, [n.peers EXCEPT ![h] = "plain"])) BY <1>1, <2>2, PeersMove
  <2>4. h \in Targets BY DEF Targets
  <2> HIDE DEF up
  <2> QED BY <1>2, <2>1, <2>3, <2>4
<1> QED BY <1>3, <1>4

LEMMA DroppedMoves ==
    ASSUME NEW n, Policy(n), NEW m \in Dropped(n)
    PROVE  Moves(n, m)
<1> DEFINE s == [n.status EXCEPT !.connected = NoHost, !.state = IF @ = "ERROR" THEN @ ELSE "SWITCHING"]
<1>1. n \in Natives /\ n.status \in Statuses /\ Moves(n, n) BY MovesItself DEF Policy, Natives
<1>2. s \in Statuses /\ s.bonds = n.status.bonds /\ s.op = n.status.op BY <1>1 DEF Statuses, Targets
<1>3. m = [n EXCEPT !.status = s]
  <2>1. m = [n EXCEPT !.status.connected = NoHost,
                      !.status.state = IF n.status.state = "ERROR" THEN n.status.state ELSE "SWITCHING"]
    BY <1>1 DEF Dropped, Natives
  <2> QED BY <1>1, <2>1 DEF Natives
<1> HIDE DEF s
<1> QED BY <1>1, <1>2, <1>3, StatusMoves

LEMMA ExpiredMoves ==
    ASSUME NEW n, Policy(n), NEW m \in Expired(n)
    PROVE  Moves(n, m)
<1> DEFINE s == [n.status EXCEPT !.state = "PAUSED", !.requested = "PAUSED", !.applied = "PAUSED",
                                 !.error = "timeout"]
<1>1. n \in Natives /\ n.status \in Statuses /\ Moves(n, n) BY MovesItself DEF Policy, Natives
<1>2. s \in Statuses /\ s.bonds = n.status.bonds /\ s.op = n.status.op BY <1>1 DEF Statuses, Modes
<1>3. m = [n EXCEPT !.status = s]
  <2>1. m = [n EXCEPT !.status.state = "PAUSED", !.status.requested = "PAUSED",
                      !.status.applied = "PAUSED", !.status.error = "timeout"] BY DEF Expired
  <2> QED BY <1>1, <2>1 DEF Natives
<1> HIDE DEF s
<1> QED BY <1>1, <1>2, <1>3, StatusMoves

(* Marking an operation whose end is reached: what the status says of it is *)
(* now on record.                                                           *)
LEMMA MarkKeeps ==
    ASSUME NEW n, Policy(n), NEW k, Moves(n, k)
    PROVE  Policy(Mark(k)) /\ Grows(n, Mark(k)) /\ Mark(k).asked = n.asked
<1> DEFINE m == Mark(k)
           done == IF Reached(k) THEN k.done \cup {k.status.op} ELSE k.done
           a == Len(n.peersAt)
           b == Len(k.peersAt)
           c == Len(n.asked)
<1>1. n \in Natives /\ k \in Natives /\ k.asked = n.asked /\ k.done = n.done BY DEF Policy, Moves
<1>2. a \in Nat /\ b \in Nat /\ c \in Nat BY <1>1, LogLengths
<1>3. k.status \in Statuses /\ k.status.op \in Nat /\ k.status.bonds \in Nat \ {0} BY <1>1 DEF Natives, Statuses
<1>4. m = [k EXCEPT !.done = done] BY DEF Mark
<1>5. done \in SUBSET Nat /\ k.done \subseteq done BY <1>1, <1>3 DEF Natives
<1>6. k.status.op # 0 /\ Met(k.status, k.peers, k.asked[k.status.op]) => k.status.op \in done
  <2> SUFFICES ASSUME k.status.op # 0 PROVE Met(k.status, k.peers, k.asked[k.status.op]) => Reached(k)
    OBVIOUS
  <2>1. k.status.op \in 1..Len(n.asked)
    <3>1. k.status.op \in 0..c BY <1>1 DEF Moves
    <3> HIDE DEF c
    <3>2. k.status.op \in 1..c BY <1>2, <1>3, <3>1
    <3> QED BY <3>2 DEF c
  <2>2. k.asked[k.status.op].opcode \in Opcodes \ {"LIST"}
    BY <1>1, <2>1, LogLengths DEF Policy, Askers
  <2> QED BY <2>2 DEF Reached, Met, Opcodes
<1> HIDE DEF done
<1>7. /\ m \in Natives /\ m.status = k.status /\ m.queue = k.queue /\ m.peers = k.peers /\ m.peersAt = k.peersAt
      /\ m.asked = k.asked /\ m.done = done
  BY <1>1, <1>4, <1>5 DEF Natives
<1> HIDE DEF m
<1>8. k.status.bonds \in 1..b
  <2>1. k.status.bonds = b BY DEF Moves
  <2> HIDE DEF b
  <2> QED BY <1>2, <1>3, <2>1
<1>9. Seen(m.status, m)
  <2>1. k.status.op \in 0..Len(k.asked) BY DEF Moves
  <2>2. k.peers = k.peersAt[k.status.bonds] BY DEF Moves
  <2> QED BY <1>6, <1>7, <1>8, <2>1, <2>2 DEF Seen
<1>10. Policy(m)
  <2>1. \A i \in 1..Len(m.asked) : m.asked[i].opcode # "LIST" BY <1>1, <1>7 DEF Policy
  <2> QED BY <1>7, <1>9, <2>1 DEF Policy, Moves
<1>11. Grows(n, m)
  <2>1. a <= b /\ \A i \in 1..a : k.peersAt[i] = n.peersAt[i] BY DEF Moves
  <2>2. c <= c BY <1>2
  <2>3. n.done \subseteq m.done BY <1>1, <1>5, <1>7
  <2> QED BY <1>1, <1>7, <2>1, <2>2, <2>3 DEF Grows
<1> QED BY <1>1, <1>7, <1>10, <1>11 DEF m

(* The policy's own steps keep its part of the invariant, and add nothing   *)
(* to what it was asked.                                                    *)
LEMMA NativeKeeps ==
    ASSUME NEW n, Policy(n), NEW m \in NativeSteps(n) \cup NativeTroubles(n)
    PROVE  Policy(m) /\ Grows(n, m) /\ m.asked = n.asked
<1>1. PICK k : Moves(n, k) /\ m = Mark(k)
  <2>1. CASE m \in NativeSteps(n)
    <3>1. PICK k \in Served(n, FALSE) \cup Settled(n) \cup Linked(n) \cup Dropped(n) : m = Mark(k)
      BY <2>1 DEF NativeSteps
    <3> QED BY <3>1, ServedMoves, SettledMoves, LinkedMoves, DroppedMoves, MovesItself
  <2>2. CASE m \in NativeTroubles(n)
    <3>1. PICK k \in Served(n, TRUE) \cup Spoilt(n) \cup Expired(n) \cup Dropped(n) : m = Mark(k)
      BY <2>2 DEF NativeTroubles
    <3> QED BY <3>1, ServedMoves, SpoiltMoves, ExpiredMoves, DroppedMoves
  <2> QED BY <2>1, <2>2
<1> QED BY <1>1, MarkKeeps

-------------------------------------------------------------------------------
(* The owner. *)

(* A new operation is added to what the policy was asked. *)
LEMMA SubmitKeeps ==
    ASSUME NEW n, Policy(n), NEW cmd \in Orders, cmd.by.opcode # "LIST"
    PROVE  /\ Policy(Submit(n, cmd)) /\ Grows(n, Submit(n, cmd))
           /\ Len(Submit(n, cmd).asked) = Len(n.asked) + 1
           /\ Submit(n, cmd).asked[Len(n.asked) + 1] = cmd.by
<1> DEFINE m == Submit(n, cmd)
           a == Len(n.asked)
           g == Len(n.peersAt)
           asked == Append(n.asked, cmd.by)
           waits == [mode |-> cmd.mode, target |-> cmd.target, op |-> a + 1]
<1>1. n \in Natives /\ n.asked \in Seq(Askers) /\ cmd.by \in Askers /\ a \in Nat /\ g \in Nat
  BY LogLengths DEF Policy, Natives, Orders
<1>2. asked \in Seq(Askers) /\ Len(asked) = a + 1 /\ asked[a + 1] = cmd.by /\ \A i \in 1..a : asked[i] = n.asked[i]
  BY <1>1, AppendProperties
<1>3. m = [n EXCEPT !.queue = waits, !.asked = asked] BY DEF Submit
<1> HIDE DEF asked, a
<1>4. waits \in [mode : Modes, target : Targets, op : Nat] /\ waits.op = a + 1 BY <1>1 DEF Orders
<1> HIDE DEF waits
<1>5. /\ m \in Natives /\ m.status = n.status /\ m.queue = waits /\ m.peers = n.peers /\ m.peersAt = n.peersAt
      /\ m.asked = asked /\ m.done = n.done
  BY <1>1, <1>2, <1>3, <1>4 DEF Natives
<1> HIDE DEF m
<1>6. a + 1 \in 1..(a + 1) /\ a <= a + 1 /\ 1..(a + 1) = 1..a \cup {a + 1} /\ 0..a \subseteq 0..(a + 1) BY <1>1
<1>7. Grows(n, m)
  <2>1. Len(n.peersAt) <= Len(n.peersAt)
    <3> HIDE DEF g
    <3>1. g <= g BY <1>1
    <3> QED BY <3>1 DEF g
  <2> QED BY <1>2, <1>5, <1>6, <2>1 DEF Grows, a
<1>8. Seen(m.status, m)
  <2>1. Seen(n.status, n) BY DEF Policy
  <2> QED BY <1>1, <1>5, <1>7, <2>1, SeenGrows
<1>9. Policy(m)
  <2>1. \A i \in 1..Len(m.asked) : m.asked[i].opcode # "LIST"
    <3>1. \A i \in 1..a : n.asked[i].opcode # "LIST" BY DEF Policy, a
    <3> QED BY <1>2, <1>5, <1>6, <3>1
  <2>2. m.queue.op \in 1..Len(m.asked) BY <1>2, <1>5, <1>6, <1>4
  <2> QED BY <1>5, <1>8, <2>1, <2>2 DEF Policy
<1> QED BY <1>2, <1>5, <1>7, <1>9 DEF m, a

(* A read of the policy sees what is true of it. *)
LEMMA ObservedSeen ==
    ASSUME NEW n, Policy(n)
    PROVE  /\ Observed(n) \in Statuses /\ Observed(n).bonds = n.status.bonds /\ Observed(n).op = n.status.op
           /\ Seen(Observed(n), n)
<1> DEFINE s == [n.status EXCEPT !.state = "SWITCHING"]
<1>1. n.status \in Statuses /\ Seen(n.status, n) BY DEF Policy, Natives
<1>2. /\ s \in Statuses /\ s.state = "SWITCHING" /\ s.bonds = n.status.bonds /\ s.op = n.status.op
      /\ s.error = n.status.error
  BY <1>1 DEF Statuses
<1>3. CASE n.queue = NoCmd BY <1>1, <1>3 DEF Observed
<1>4. CASE n.queue # NoCmd
  <2>1. Observed(n) = s BY <1>4 DEF Observed
  <2>2. ASSUME s.op # 0, Met(s, n.peersAt[s.bonds], n.asked[s.op])
        PROVE  Met(n.status, n.peersAt[n.status.bonds], n.asked[n.status.op])
    <3>1. n.asked[s.op].opcode \in Opcodes \ {"LIST"}
      <4> DEFINE a == Len(n.asked)
      <4>1. a \in Nat /\ s.op \in Nat BY <1>2, LogLengths DEF Policy, Statuses
      <4>2. s.op \in 0..a BY <1>1, <1>2 DEF Seen
      <4> HIDE DEF a
      <4>3. s.op \in 1..a BY <2>2, <4>1, <4>2
      <4> QED BY <4>3, LogLengths DEF Policy, Askers, a
    <3> HIDE DEF s
    <3> QED BY <1>2, <2>2, <3>1 DEF Met, Opcodes
  <2> HIDE DEF s
  <2> QED BY <1>1, <1>2, <2>1, <2>2 DEF Seen
<1> QED BY <1>3, <1>4

LEMMA OwnerGrows ==
    ASSUME NEW n \in Natives, NEW m \in Natives, Grows(n, m), NEW o, Owning(n, o)
    PROVE  Owning(m, o)
<1> DEFINE a == Len(n.asked)
           b == Len(m.asked)
<1>1. a \in Nat /\ b \in Nat /\ a <= b BY LogLengths DEF Grows
<1>2. o.expected \in 0..a BY DEF Owning
<1> HIDE DEF a, b
<1>3. o.expected \in 0..b BY <1>1, <1>2
<1>4. Listing(o.peerGen, o.peers, m) BY ListingGrows DEF Owning
<1>5. Seen(o.status, m) BY SeenGrows DEF Owning
<1> QED BY <1>3, <1>4, <1>5 DEF Owning, b

LEMMA OwnerFields ==
    ASSUME NEW o \in Owners
    PROVE  /\ o.pending \in {NoCmd} \cup Orders /\ o.expected \in Nat /\ o.status \in Statuses /\ o.peers \in Peers
           /\ o.peerGen \in Nat /\ o.error \in {0, 7, 10} /\ o.failed \in BOOLEAN /\ o.alias \in Targets
           /\ o.blocked \in BOOLEAN
BY DEF Owners

(* What the owner has in hand: the request that waits, the operation it     *)
(* follows.                                                                 *)
SameWork(o, r) == r.pending = o.pending /\ r.expected = o.expected

LEMMA RaisedKeeps ==
    ASSUME NEW n, NEW o, Owning(n, o), NEW incall \in BOOLEAN
    PROVE  Owning(n, Raised(o, incall)) /\ SameWork(o, Raised(o, incall))
<1>1. o \in Owners BY DEF Owning
<1>2. Raised(o, incall) \in Owners BY <1>1 DEF Raised, Owners
<1>3. /\ SameWork(o, Raised(o, incall)) /\ Raised(o, incall).peers = o.peers
      /\ Raised(o, incall).peerGen = o.peerGen /\ Raised(o, incall).status = o.status
  BY <1>1 DEF Raised, Owners, SameWork
<1> QED BY <1>2, <1>3 DEF Owning, SameWork

(* The three reads of a tick leave the owner with one generation. *)
LEMMA LookKeeps ==
    ASSUME NEW n, Policy(n), NEW m, Policy(m), Grows(n, m), NEW o, Owning(n, o)
    PROVE  Owning(m, Look(o, n, m)) /\ SameWork(o, Look(o, n, m))
<1> DEFINE s == Observed(n)
           same == o.peerGen = s.bonds
           after == IF same THEN s ELSE Observed(m)
           peers == IF same THEN o.peers ELSE m.peers
           error == IF o.failed THEN o.error ELSE 0
           r == [o EXCEPT !.status = after, !.peers = peers, !.peerGen = s.bonds, !.blocked = FALSE, !.error = error]
<1>1. n \in Natives /\ m \in Natives /\ o \in Owners /\ Owning(m, o) BY OwnerGrows DEF Policy, Owning
<1>2. CASE ~same /\ m.status.bonds # s.bonds
  <2>1. Look(o, n, m) = Raised(o, FALSE) BY <1>2 DEF Look
  <2> QED BY <1>1, <2>1, RaisedKeeps
<1>3. CASE same \/ m.status.bonds = s.bonds
  <2>1. Look(o, n, m) = r BY <1>3 DEF Look
  <2>2. /\ s \in Statuses /\ Seen(s, m) /\ s.bonds \in Nat BY <1>1, ObservedSeen, SeenGrows DEF Statuses
  <2>3. /\ Observed(m) \in Statuses /\ Seen(Observed(m), m) BY ObservedSeen
  <2>4. after \in Statuses /\ Seen(after, m) BY <2>2, <2>3
  <2>5. peers \in Peers /\ error \in {0, 7, 10} BY <1>1, OwnerFields DEF Natives
  <2>6. Listing(s.bonds, peers, m)
    <3>1. CASE same
      <4>1. Listing(o.peerGen, o.peers, m) BY <1>1 DEF Owning
      <4> QED BY <3>1, <4>1
    <3>2. CASE ~same
      <4>1. m.status.bonds = s.bonds BY <1>3, <3>2
      <4>2. m.status.bonds \in 1..Len(m.peersAt) /\ m.peers = m.peersAt[m.status.bonds] BY DEF Policy, Seen
      <4> QED BY <3>2, <4>1, <4>2 DEF Listing
    <3> QED BY <3>1, <3>2
  <2> HIDE DEF after, peers, error, s
  <2>7. /\ r \in Owners /\ r.status = after /\ r.peers = peers /\ r.peerGen = s.bonds /\ r.pending = o.pending
        /\ r.expected = o.expected
    BY <1>1, <2>2, <2>4, <2>5 DEF Owners
  <2> HIDE DEF r
  <2>8. Owning(m, r) BY <1>1, <2>4, <2>6, <2>7 DEF Owning
  <2> QED BY <2>1, <2>7, <2>8 DEF SameWork
<1> QED BY <1>2, <1>3

(* The one native call of a tick: the waiting request becomes an operation, *)
(* or it is refused.                                                        *)
LEMMA CalledKeeps ==
    ASSUME NEW n, Policy(n), NEW o, Owning(n, o)
    PROVE  /\ Policy(AfterCall(o, n)) /\ Grows(n, AfterCall(o, n))
           /\ Owning(AfterCall(o, n), Called(o, n)) /\ Called(o, n).pending = NoCmd
           /\ o.pending = NoCmd => AfterCall(o, n) = n /\ Called(o, n) = o
           /\ CallRefused(o, n) => AfterCall(o, n) = n /\ Called(o, n).expected = 0
           /\ o.pending # NoCmd /\ ~CallRefused(o, n) =>
                 /\ Len(AfterCall(o, n).asked) = Len(n.asked) + 1
                 /\ AfterCall(o, n).asked[Len(n.asked) + 1] = o.pending.by
                 /\ Called(o, n).expected = Len(n.asked) + 1
<1> DEFINE m == AfterCall(o, n)
           r == Called(o, n)
<1>1. n \in Natives /\ o \in Owners BY DEF Policy, Owning
<1>2. CASE o.pending = NoCmd
  <2>1. m = n /\ r = o BY <1>2 DEF AfterCall, Called
  <2> QED BY <1>1, <1>2, <2>1, GrowsItself DEF CallRefused
<1>3. CASE CallRefused(o, n)
  <2> DEFINE u == [o EXCEPT !.pending = NoCmd]
  <2>1. o.pending # NoCmd /\ m = n /\ r = Raised(u, TRUE) BY <1>3 DEF AfterCall, Called, CallRefused
  <2>2. /\ u \in Owners /\ u.pending = NoCmd /\ u.expected = o.expected /\ u.status = o.status /\ u.peers = o.peers
        /\ u.peerGen = o.peerGen
    BY <1>1 DEF Owners
  <2>3. o.expected = 0 BY <2>1 DEF Owning
  <2> HIDE DEF u
  <2>4. Owning(n, u) BY <2>2 DEF Owning
  <2>5. Owning(n, r) /\ SameWork(u, r) BY <2>1, <2>4, RaisedKeeps
  <2> HIDE DEF m, r
  <2> QED BY <1>1, <1>3, <2>1, <2>2, <2>3, <2>5, GrowsItself DEF SameWork, m, r
<1>4. CASE o.pending # NoCmd /\ ~CallRefused(o, n)
  <2> DEFINE a == Len(n.asked)
             gen == IF o.pending.mode = "ALIAS" THEN 0 ELSE o.peerGen
             e == a + 1
             u == [o EXCEPT !.pending = NoCmd, !.expected = e, !.peerGen = gen]
  <2>1. m = Submit(n, o.pending) BY <1>4 DEF AfterCall
  <2>2. r = u BY <1>4 DEF Called, CallRefused
  <2>3. o.pending \in Orders /\ o.pending.by.opcode # "LIST" BY <1>1, <1>4, OwnerFields DEF Owning
  <2>4. Policy(m) /\ Grows(n, m) /\ Len(m.asked) = a + 1 /\ m.asked[a + 1] = o.pending.by
    BY <2>1, <2>3, SubmitKeeps
  <2>5. a \in Nat BY <1>1, LogLengths
  <2>6. gen \in Nat BY <1>1, OwnerFields
  <2>13. e \in Nat BY <2>5
  <2> HIDE DEF e, gen
  <2>7. /\ u \in Owners /\ u.pending = NoCmd /\ u.expected = e /\ u.peerGen = gen /\ u.status = o.status
        /\ u.peers = o.peers
    BY <1>1, <2>6, <2>13 DEF Owners
  <2> HIDE DEF u, m
  <2>8. m \in Natives BY <2>4 DEF Policy
  <2>9. Listing(o.peerGen, o.peers, m) /\ Seen(o.status, m) BY <1>1, <2>4, <2>8, OwnerGrows DEF Owning
  <2>10. Listing(gen, o.peers, m) BY <2>9 DEF Listing, gen
  <2>11. e \in 0..Len(m.asked)
    <3> HIDE DEF a
    <3> QED BY <2>4, <2>5 DEF e
  <2>12. Owning(m, u) BY <2>7, <2>9, <2>10, <2>11 DEF Owning
  <2> HIDE DEF r
  <2> QED BY <1>4, <2>2, <2>4, <2>7, <2>12 DEF e, m, r
<1>5. CallRefused(o, n) \/ o.pending = NoCmd \/ (o.pending # NoCmd /\ ~CallRefused(o, n)) OBVIOUS
<1> QED BY <1>2, <1>3, <1>4, <1>5

-------------------------------------------------------------------------------
(* The invariant under a step that leaves most of the state alone. *)

(* The publisher says the same of the same request; at most a packet is done. *)
SameTalk(p, r) ==
    /\ r.session = p.session /\ r.client = p.client /\ r.request = p.request /\ r.result = p.result
    /\ r.last = p.last /\ r.established = p.established /\ r.policy = p.policy /\ r.alias = p.alias
    /\ r.echo = p.echo /\ r.out \in {p.out, NoPacket}

LEMMA GoodTalk ==
    ASSUME NEW n, NEW o, NEW p, NEW q, NEW cs, NEW w, Good(n, o, p, q, cs, w), NEW r \in Publishers, SameTalk(p, r)
    PROVE  Good(n, o, r, q, cs, w)
<1>1. Numbered(r, q, cs) BY DEF Good, SameTalk, Numbered
<1>2. Ordered(r, q, cs, w) BY DEF Good, SameTalk, Ordered
<1>3. Once(n, o, r, cs) BY DEF Good, SameTalk, Once
<1>4. Shown(n, r, q, cs) BY DEF Good, SameTalk, Shown
<1>5. Told(n, o, r, cs)
  <2>1. Told(n, o, p, cs) BY DEF Good
  <2>2. NoPacket.kind = "none" BY DEF NoPacket
  <2>3. SameKey(o.pending.by, p) => SameKey(o.pending.by, r) BY DEF SameTalk, SameKey
  <2>4. SameKey(n.asked[o.expected], p) => SameKey(n.asked[o.expected], r) BY DEF SameTalk, SameKey
  <2>5. \A c : SameKey(c, p) => SameKey(c, r) BY DEF SameTalk, SameKey
  <2> QED BY <2>1, <2>2, <2>3, <2>4, <2>5 DEF SameTalk, Told
<1> QED BY <1>1, <1>2, <1>3, <1>4, <1>5 DEF Good

(* The policy goes on and the owner reads it; neither gets a new request. *)
LEMMA GoodWork ==
    ASSUME NEW n, NEW o, NEW p, NEW q, NEW cs, NEW w, Good(n, o, p, q, cs, w),
           NEW m, Policy(m), Grows(n, m), m.asked = n.asked, NEW r, Owning(m, r), SameWork(o, r)
    PROVE  Good(m, r, p, q, cs, w)
<1>1. n \in Natives /\ m \in Natives BY DEF Good, Policy
<1>2. Once(m, r, p, cs)
  <2>1. Once(n, o, p, cs) BY DEF Good
  <2>2. \A c : Taken(c, m, r) <=> Taken(c, n, o) BY DEF Taken, SameWork
  <2> QED BY <2>1, <2>2 DEF Once, SameWork
<1>3. Told(m, r, p, cs)
  <2>1. Told(n, o, p, cs) BY DEF Good
  <2>2. p.out.kind = "status" => Honest(p.out, m, cs) /\ Seen(p.out.native, m)
    <3>1. p.out.kind = "status" => p.out.op \in Nat
      <4>1. p.out \in {NoPacket} \cup StatusPackets \cup ListPackets BY DEF Good, Publishers, Packets
      <4> QED BY <4>1 DEF NoPacket, StatusPackets, ListPackets
    <3> QED BY <1>1, <2>1, <3>1, HonestGrows, SeenGrows DEF Told
  <2>3. p.out.kind = "list" => Listing(p.out.gen, p.out.peers, m) BY <1>1, <2>1, ListingGrows DEF Told
  <2> QED BY <2>1, <2>2, <2>3 DEF Told, SameWork
<1>4. Shown(m, p, q, cs)
  <2>1. Shown(n, p, q, cs) BY DEF Good
  <2>2. q.status.kind = "status" => Honest(q.status, m, cs) /\ Seen(q.status.native, m)
    <3>1. q.status.kind = "status" => q.status.op \in Nat
      <4>1. q.status \in {BlankStatus} \cup StatusPackets BY DEF Good, Panels
      <4> QED BY <4>1 DEF BlankStatus, StatusPackets
    <3> QED BY <1>1, <2>1, <3>1, HonestGrows, SeenGrows DEF Shown
  <2>3. Listing(q.list.gen, q.list.peers, m) BY <1>1, <2>1, ListingGrows DEF Shown
  <2> QED BY <2>1, <2>2, <2>3 DEF Shown
<1> QED BY <1>2, <1>3, <1>4 DEF Good

(* The waiting request becomes an operation. *)
LEMMA GoodCalled ==
    ASSUME NEW n, NEW o, NEW p, NEW q, NEW cs, NEW w, Good(n, o, p, q, cs, w)
    PROVE  Good(AfterCall(o, n), Called(o, n), p, q, cs, w)
<1> DEFINE m == AfterCall(o, n)
           r == Called(o, n)
           a == Len(n.asked)
<1>1. n \in Natives /\ Policy(n) /\ Owning(n, o) /\ a \in Nat BY LogLengths DEF Good, Policy
<1>2. Policy(m) /\ Grows(n, m) /\ Owning(m, r) /\ r.pending = NoCmd /\ m \in Natives BY <1>1, CalledKeeps DEF Policy
<1>3. CASE o.pending = NoCmd BY <1>1, <1>3, CalledKeeps
<1>4. CASE o.pending # NoCmd /\ CallRefused(o, n)
  <2>1. m = n /\ r.expected = 0 BY <1>1, <1>4, CalledKeeps
  <2> HIDE DEF m, r
  <2>2. Once(n, r, p, cs)
    <3>1. Once(n, o, p, cs) BY DEF Good
    <3>2. \A c : Taken(c, n, r) => Taken(c, n, o) BY <1>2 DEF Taken
    <3> QED BY <1>2, <3>1, <3>2 DEF Once
  <2>3. Told(n, r, p, cs) BY <1>2, <2>1 DEF Good, Told
  <2> QED BY <1>2, <2>1, <2>2, <2>3 DEF Good, m, r
<1>5. CASE o.pending # NoCmd /\ ~CallRefused(o, n)
  <2>1. Len(m.asked) = a + 1 /\ m.asked[a + 1] = o.pending.by /\ r.expected = a + 1 BY <1>1, <1>5, CalledKeeps
  <2>2. \A i \in 1..a : m.asked[i] = n.asked[i] BY <1>2 DEF Grows
  <2> HIDE DEF m, r, a
  <2>3. a + 1 \in 1..(a + 1) /\ 1..(a + 1) = 1..a \cup {a + 1} /\ a + 1 # 0 BY <1>1
  <2>4. Once(m, r, p, cs)
    <3>1. Once(n, o, p, cs) BY DEF Good
    <3>2. \A c : Taken(c, m, r) <=> Taken(c, n, o) BY <1>2, <1>5, <2>1, <2>2, <2>3 DEF Taken, a
    <3>3. \A i \in 1..Len(m.asked) : Aired(m.asked[i], cs) BY <1>5, <2>1, <2>2, <2>3, <3>1 DEF Once, a
    <3>4. \A i, j \in 1..Len(m.asked) : m.asked[i].client # 0 /\ i # j => ~SameKey(m.asked[i], m.asked[j])
      <4>1. \A i, j \in 1..a : n.asked[i].client # 0 /\ i # j => ~SameKey(n.asked[i], n.asked[j])
        BY <3>1 DEF Once, a
      <4>2. o.pending.by.client # 0 => \A i \in 1..a : ~SameKey(n.asked[i], o.pending.by)
        BY <1>5, <3>1 DEF Once, a
      <4>3. \A i \in 1..a : n.asked[i].client # 0 => ~SameKey(n.asked[i], o.pending.by)
                            /\ ~SameKey(o.pending.by, n.asked[i])
        BY <4>2 DEF SameKey
      <4>4. \A i \in 1..a : o.pending.by.client # 0 => ~SameKey(o.pending.by, n.asked[i])
        BY <4>2 DEF SameKey
      <4> QED BY <2>1, <2>2, <2>3, <4>1, <4>3, <4>4
    <3> QED BY <1>2, <3>1, <3>2, <3>3, <3>4 DEF Once
  <2>5. Told(m, r, p, cs)
    <3>1. Told(n, o, p, cs) BY DEF Good
    <3>2. p.out.kind = "status" => Honest(p.out, m, cs) /\ Seen(p.out.native, m)
      <4>1. p.out.kind = "status" => p.out.op \in Nat
        <5>1. p.out \in {NoPacket} \cup StatusPackets \cup ListPackets BY DEF Good, Publishers, Packets
        <5> QED BY <5>1 DEF NoPacket, StatusPackets, ListPackets
      <4> QED BY <1>1, <1>2, <3>1, <4>1, HonestGrows, SeenGrows DEF Told
    <3>3. p.out.kind = "list" => Listing(p.out.gen, p.out.peers, m) BY <1>1, <1>2, <3>1, ListingGrows DEF Told
    <3> QED BY <1>2, <1>5, <2>1, <3>1, <3>2, <3>3 DEF Told
  <2>6. Shown(m, p, q, cs)
    <3>1. Shown(n, p, q, cs) BY DEF Good
    <3>2. q.status.kind = "status" => Honest(q.status, m, cs) /\ Seen(q.status.native, m)
      <4>1. q.status.kind = "status" => q.status.op \in Nat
        <5>1. q.status \in {BlankStatus} \cup StatusPackets BY DEF Good, Panels
        <5> QED BY <5>1 DEF BlankStatus, StatusPackets
      <4> QED BY <1>1, <1>2, <3>1, <4>1, HonestGrows, SeenGrows DEF Shown
    <3>3. Listing(q.list.gen, q.list.peers, m) BY <1>1, <1>2, <3>1, ListingGrows DEF Shown
    <3> QED BY <3>1, <3>2, <3>3 DEF Shown
  <2> QED BY <1>2, <2>4, <2>5, <2>6 DEF Good, m, r
<1> QED BY <1>3, <1>4, <1>5

-------------------------------------------------------------------------------
(* The publisher. *)

LEMMA PublisherFields ==
    ASSUME NEW p \in Publishers
    PROVE  /\ p.session \in Nat \ {0} /\ p.client \in Nat /\ p.request \in Nat /\ p.result \in Answers
           /\ p.error \in Nat /\ p.last \in Nat /\ p.established \in BOOLEAN /\ p.handshake \in Shakes
           /\ p.policy \in BOOLEAN /\ p.alias \in BOOLEAN /\ p.echo \in BOOLEAN /\ p.seq \in Nat
           /\ p.out \in Packets /\ p.fate \in Fates
           /\ p.challenges \in SUBSET Nat /\ p.rejection \in Shakes
BY DEF Publishers

(* The end of a packet's fragments is observed: nothing else changes. *)
LEMMA ObserveTalk ==
    ASSUME NEW p \in Publishers, NEW fate \in {"pending", p.fate}
    PROVE  ObserveCompletion(p, fate) \in Publishers /\ SameTalk(p, ObserveCompletion(p, fate))
<1> DEFINE more == IF fate = "acknowledged" /\ p.out.kind = "status"
                   THEN p.challenges \cup {p.seq} ELSE p.challenges
           r == [p EXCEPT !.fate = "none", !.out = NoPacket, !.challenges = more]
<1>1. SameTalk(p, p) BY DEF SameTalk
<1>2. more \in SUBSET Nat BY PublisherFields
<1> HIDE DEF more
<1>3. r \in Publishers BY <1>2 DEF Publishers, Fates, Packets
<1>4. SameTalk(p, r) BY DEF SameTalk, Publishers
<1>5. ObserveCompletion(p, fate) \in {p, r} BY DEF ObserveCompletion, more
<1> HIDE DEF r
<1> QED BY <1>1, <1>3, <1>4, <1>5

(* The results that the owner decides. *)
LEMMA GoodSettle ==
    ASSUME NEW n, NEW o, NEW p, NEW q, NEW cs, NEW w, Good(n, o, p, q, cs, w)
    PROVE  Good(n, o, Settle(p, o), q, cs, w) /\ Settle(p, o).out = p.out /\ Settle(p, o).fate = p.fate
<1> DEFINE failed == p.result = Accepted /\ o.error # 0
           named == p.alias /\ AliasComplete(o)
           result == IF failed THEN Rejected ELSE IF named THEN Applied ELSE p.result
           error == IF failed THEN o.error ELSE p.error
           alias == p.alias /\ ~named
           r == [p EXCEPT !.result = result, !.error = error, !.alias = alias]
<1>1. p \in Publishers /\ o \in Owners BY DEF Good, Owning
<1>2. Settle(p, o) = r BY DEF Settle
<1>3. result \in Answers
  <2>1. p.result \in Answers BY <1>1, PublisherFields
  <2> QED BY <2>1 DEF Answers, Rejected, Applied, Listed
<1>4. error \in Nat BY <1>1, PublisherFields, OwnerFields
<1>5. /\ result \in {Accepted, Applied} => p.result \in {Accepted, Applied} \/ p.alias
      /\ result = Listed => p.result = Listed
      /\ result = 0 => p.result = 0
  BY DEF Accepted, Rejected, Applied, Listed
<1>6. alias \in BOOLEAN /\ (alias => p.alias) BY <1>1, PublisherFields
<1> HIDE DEF result, error, alias
<1>7. /\ r \in Publishers /\ r.session = p.session /\ r.client = p.client /\ r.request = p.request
      /\ r.result = result /\ r.last = p.last /\ r.established = p.established /\ r.policy = p.policy
      /\ r.alias = alias /\ r.echo = p.echo /\ r.out = p.out /\ r.fate = p.fate
  BY <1>1, <1>3, <1>4, <1>6 DEF Publishers
<1> HIDE DEF r
<1>8. Numbered(r, q, cs) BY <1>7 DEF Good, Numbered
<1>9. Ordered(r, q, cs, w) BY <1>7 DEF Good, Ordered
<1>10. Once(n, o, r, cs) BY <1>7 DEF Good, Once
<1>11. Shown(n, r, q, cs) BY <1>7 DEF Good, Shown
<1>12. Told(n, o, r, cs)
  <2>1. Told(n, o, p, cs) BY DEF Good
  <2>2. \A x : SameKey(x, p) <=> SameKey(x, r) BY <1>7 DEF SameKey
  <2>3. r.echo /\ r.client # 0 =>
          /\ r.result # 0
          /\ r.result \in {Accepted, Applied} => r.policy
          /\ r.result = Listed => \E c \in cs : SameKey(c, r) /\ c.opcode = "LIST"
    BY <1>5, <1>7, <2>1, <2>2 DEF Told
  <2>4. r.alias => r.policy BY <1>6, <1>7, <2>1 DEF Told
  <2> QED BY <1>7, <2>1, <2>2, <2>3, <2>4 DEF Told
<1> QED BY <1>2, <1>7, <1>8, <1>9, <1>10, <1>11, <1>12 DEF Good

(* What a status packet says of an operation is true of its request. *)
LEMMA PacketHonest ==
    ASSUME NEW n, NEW o, NEW p, NEW q, NEW cs, NEW w, Good(n, o, p, q, cs, w)
    PROVE  Honest(StatusPacket(p, o), n, cs)
<1> DEFINE st == StatusPacket(p, o)
           told == p.rejection # NoRequest
<1>1. /\ st.client = IF told THEN p.rejection.client ELSE IF p.echo THEN p.client ELSE 0
      /\ st.request = IF told THEN p.rejection.request ELSE IF p.echo THEN p.request ELSE 0
      /\ st.result = IF told THEN Rejected ELSE p.result
      /\ st.op = IF ~told /\ p.policy THEN o.expected ELSE o.status.op
      /\ st.ready = Ready(o) /\ st.native = o.status
  BY DEF StatusPacket, ResultTold
<1> HIDE DEF st
<1> SUFFICES ASSUME st.client # 0, st.result # Rejected, st.op # 0, st.ready
             PROVE  /\ st.op <= Len(n.asked)
                    /\ \E c \in cs : /\ SameKey(c, st)
                                     /\ c.opcode # "LIST" => Asks1(c, n.asked[st.op]) /\ st.native.op = st.op
  BY DEF Honest, st
<1>2. ~told /\ p.echo /\ st.client = p.client /\ st.request = p.request /\ p.client # 0 /\ p.result # Rejected
  BY <1>1
<1>3. p \in Publishers /\ o \in Owners /\ n \in Natives /\ Owning(n, o) BY DEF Good, Owning, Policy
<1>4. Told(n, o, p, cs) /\ Once(n, o, p, cs) BY DEF Good
<1>5. Len(n.asked) \in Nat BY <1>3, LogLengths
<1>6. \A c : SameKey(c, p) => SameKey(c, st) BY <1>2 DEF SameKey
<1>7. CASE p.policy
  <2>1. o.pending = NoCmd /\ o.status.op = o.expected BY <1>1, <1>2, <1>7 DEF Ready
  <2>2. o.expected \in 0..Len(n.asked) /\ o.expected # 0 BY <1>1, <1>2, <1>3, <1>7 DEF Owning
  <2>3. SameKey(n.asked[o.expected], p) BY <1>4, <1>7, <2>1, <2>2 DEF Told
  <2>4. PICK c \in cs : SameKey(c, p) /\ c.opcode # "LIST" BY <1>4, <1>7 DEF Told
  <2> DEFINE a == Len(n.asked)
  <2>5. o.expected \in 1..a /\ o.expected <= a
    <3>1. o.expected \in 0..a /\ a \in Nat BY <1>5, <2>2
    <3> HIDE DEF a
    <3> QED BY <2>2, <3>1
  <2>6. Aired(n.asked[o.expected], cs) BY <1>4, <2>5 DEF Once
  <2>7. n.asked[o.expected].client # 0 BY <1>2, <2>3 DEF SameKey
  <2>8. PICK d \in cs : Asks1(d, n.asked[o.expected]) BY <2>6, <2>7 DEF Aired
  <2>9. SameKey(d, c) BY <2>3, <2>4, <2>8 DEF SameKey, Asks1
  <2>10. d = c BY <2>9 DEF Good, Numbered
  <2> QED BY <1>1, <1>2, <1>6, <1>7, <2>1, <2>4, <2>5, <2>8, <2>10
<1>8. CASE ~p.policy
  <2>1. st.op = o.status.op BY <1>1, <1>8
  <2>2. o.status.op \in 0..Len(n.asked) BY <1>3 DEF Owning, Seen
  <2>3. st.op <= Len(n.asked)
    <3> DEFINE a == Len(n.asked)
    <3>1. o.status.op \in 0..a /\ a \in Nat BY <1>5, <2>2
    <3> HIDE DEF a
    <3>2. o.status.op <= a BY <3>1
    <3> QED BY <2>1, <3>2 DEF a
  <2>4. p.result = Listed
    <3>1. p.result \in Answers BY <1>3, PublisherFields
    <3>2. p.result # 0 /\ p.result \notin {Accepted, Applied} BY <1>2, <1>4, <1>8 DEF Told
    <3> QED BY <1>2, <3>1, <3>2 DEF Answers, Accepted, Rejected, Applied, Listed
  <2>5. PICK c \in cs : SameKey(c, p) /\ c.opcode = "LIST" BY <1>2, <1>4, <2>4 DEF Told
  <2> QED BY <1>6, <2>3, <2>5
<1> QED BY <1>3, <1>7, <1>8, PublisherFields

(* The next packet is built. *)
LEMMA GoodPublish ==
    ASSUME NEW n, NEW o, NEW p, NEW q, NEW cs, NEW w, Good(n, o, p, q, cs, w),
           NEW kind \in {"status", "list", "nothing"}
    PROVE  Good(n, o, Publish(p, o, kind), q, cs, w)
<1> DEFINE st == StatusPacket(p, o)
           ls == ListPacket(p, o)
           r1 == [p EXCEPT !.out = st, !.seq = p.seq + 1, !.rejection = NoRequest]
           r2 == [p EXCEPT !.out = ls, !.seq = p.seq + 1]
<1>1. p \in Publishers /\ o \in Owners /\ Owning(n, o) BY DEF Good, Owning
<1>2. Told(n, o, p, cs) BY DEF Good
<1>3. p.seq + 1 \in Nat BY <1>1, PublisherFields
<1>4. ASSUME NEW r \in Publishers, NEW out, out # NoPacket, out.session = p.session,
             out.kind = "status" => Honest(out, n, cs) /\ Seen(out.native, n),
             out.kind = "list" => Listing(out.gen, out.peers, n),
             /\ r.session = p.session /\ r.client = p.client /\ r.request = p.request
             /\ r.result = p.result /\ r.last = p.last /\ r.established = p.established /\ r.policy = p.policy
             /\ r.alias = p.alias /\ r.echo = p.echo /\ r.out = out
      PROVE  Good(n, o, r, q, cs, w)
  <2>1. Numbered(r, q, cs) BY <1>4 DEF Good, Numbered
  <2>2. Ordered(r, q, cs, w) BY <1>4 DEF Good, Ordered
  <2>3. Once(n, o, r, cs) BY <1>4 DEF Good, Once
  <2>4. Shown(n, r, q, cs) BY <1>4 DEF Good, Shown
  <2>5. \A x : SameKey(x, p) <=> SameKey(x, r) BY <1>4 DEF SameKey
  <2>6. Told(n, o, r, cs) BY <1>2, <1>4, <2>5 DEF Told
  <2> QED BY <2>1, <2>2, <2>3, <2>4, <2>6 DEF Good
<1>5. Good(n, o, r1, q, cs, w)
  <2>1. st \in StatusPackets
    <3>1. /\ p.session \in Nat \ {0} /\ p.rejection \in Shakes /\ o.status \in Statuses
          /\ p.client \in Nat /\ p.request \in Nat /\ p.error \in Nat /\ o.error \in Nat /\ o.expected \in Nat
          /\ o.status.op \in Nat /\ p.result \in Answers
      BY <1>1, PublisherFields, OwnerFields DEF Statuses
    <3>2. p.rejection.client \in Nat /\ p.rejection.request \in Nat BY <3>1 DEF Shakes
    <3>3. ResultTold(p) \in Answers BY <3>1 DEF ResultTold, Answers, Rejected, Listed
    <3>4. Ready(o) \in BOOLEAN BY DEF Ready
    <3>5. BadHandshake \in Nat BY DEF BadHandshake
    <3> QED BY <3>1, <3>2, <3>3, <3>4, <3>5 DEF StatusPacket, StatusPackets
  <2>2. st.kind = "status" /\ st.session = p.session /\ st.native = o.status BY DEF StatusPacket
  <2>3. Honest(st, n, cs) BY PacketHonest
  <2>4. Seen(st.native, n) BY <1>1, <2>2 DEF Owning
  <2>5. st # NoPacket BY <2>2 DEF NoPacket
  <2> HIDE DEF st
  <2>6. NoRequest \in Shakes BY DEF NoRequest, Shakes
  <2>7. /\ r1 \in Publishers /\ r1.session = p.session /\ r1.client = p.client /\ r1.request = p.request
        /\ r1.result = p.result /\ r1.last = p.last /\ r1.established = p.established /\ r1.policy = p.policy
        /\ r1.alias = p.alias /\ r1.echo = p.echo /\ r1.out = st
    BY <1>1, <1>3, <2>1, <2>6 DEF Publishers, Packets
  <2> HIDE DEF r1
  <2> QED BY <1>4, <2>2, <2>3, <2>4, <2>5, <2>7
<1>6. ASSUME Coherent(o) PROVE Good(n, o, r2, q, cs, w)
  <2>1. ls \in ListPackets
    <3>1. o.peerGen \in Nat \ {0} /\ o.peers \in Peers /\ p.session \in Nat \ {0}
      BY <1>1, <1>6, PublisherFields, OwnerFields DEF Coherent
    <3> QED BY <3>1 DEF ListPacket, ListPackets
  <2>2. ls.kind = "list" /\ ls.session = p.session /\ ls.gen = o.peerGen /\ ls.peers = o.peers BY DEF ListPacket
  <2>3. Listing(ls.gen, ls.peers, n) BY <1>1, <2>2 DEF Owning
  <2>4. ls # NoPacket BY <2>2 DEF NoPacket
  <2> HIDE DEF ls
  <2>5. /\ r2 \in Publishers /\ r2.session = p.session /\ r2.client = p.client /\ r2.request = p.request
        /\ r2.result = p.result /\ r2.last = p.last /\ r2.established = p.established /\ r2.policy = p.policy
        /\ r2.alias = p.alias /\ r2.echo = p.echo /\ r2.out = ls
    BY <1>1, <1>3, <2>1 DEF Publishers, Packets
  <2> HIDE DEF r2
  <2> QED BY <1>4, <2>2, <2>3, <2>4, <2>5
<1>7. \/ Publish(p, o, kind) = p \/ Publish(p, o, kind) = r1 \/ (Coherent(o) /\ Publish(p, o, kind) = r2)
  BY DEF Publish
<1> HIDE DEF r1, r2
<1> QED BY <1>5, <1>6, <1>7

LEMMA AnswerNumbers == {0, Accepted, Rejected, Applied, Listed} \subseteq Answers
BY DEF Answers, Accepted, Rejected, Applied, Listed

(* The owner u with a request in the place of what o had in hand. *)
Holds(o, u, order) ==
    /\ u \in Owners /\ u.pending = order /\ u.expected = 0 /\ u.status = o.status /\ u.peers = o.peers
    /\ u.peerGen = o.peerGen

LEMMA RequestHolds ==
    ASSUME NEW o \in Owners, NEW mode, NEW h \in Targets, NEW by, [mode |-> mode, target |-> h, by |-> by] \in Orders
    PROVE  /\ Holds(o, Request(o, mode, h, by), [mode |-> mode, target |-> h, by |-> by])
           /\ Holds(o, RequestAlias(o, h, by), [mode |-> "ALIAS", target |-> h, by |-> by]) \/ mode # "ALIAS"
<1> DEFINE order == [mode |-> mode, target |-> h, by |-> by]
           u == [o EXCEPT !.pending = order, !.blocked = TRUE, !.expected = 0, !.alias = NoHost, !.error = 0,
                          !.failed = FALSE]
           v == [o EXCEPT !.pending = order, !.expected = 0, !.alias = h, !.error = 0, !.failed = FALSE]
<1>1. NoHost \in Targets BY DEF Targets
<1>2. order \in Orders OBVIOUS
<1>3. Request(o, mode, h, by) = u /\ (mode = "ALIAS" => RequestAlias(o, h, by) = v) BY DEF Request, RequestAlias
<1>4. mode = "ALIAS" => order = [mode |-> "ALIAS", target |-> h, by |-> by] OBVIOUS
<1> HIDE DEF order
<1>5. u \in Owners BY <1>1, <1>2 DEF Owners
<1>6. u.pending = order /\ u.expected = 0 /\ u.status = o.status /\ u.peers = o.peers /\ u.peerGen = o.peerGen
  BY DEF Owners
<1>7. v \in Owners BY <1>2 DEF Owners
<1>8. v.pending = order /\ v.expected = 0 /\ v.status = o.status /\ v.peers = o.peers /\ v.peerGen = o.peerGen
  BY DEF Owners
<1> HIDE DEF u, v
<1> QED BY <1>3, <1>4, <1>5, <1>6, <1>7, <1>8 DEF Holds, order

(* Another client asked the policy for something. *)
LEMMA GoodBadge ==
    ASSUME NEW n, NEW o, NEW p, NEW q, NEW cs, NEW w, Good(n, o, p, q, cs, w), NEW h \in Hosts
    PROVE  Good(n, Request(o, "AUTO", h, [Badge EXCEPT !.target = h]), NoteLegacy(p), q, cs, w)
<1> DEFINE by == [Badge EXCEPT !.target = h]
           order == [mode |-> "AUTO", target |-> h, by |-> by]
           u == Request(o, "AUTO", h, by)
           r == NoteLegacy(p)
<1>1. p \in Publishers /\ o \in Owners /\ Owning(n, o) BY DEF Good, Owning
<1>2. by \in Askers /\ by.client = 0 /\ by.opcode = "SELECT" BY DEF Badge, Askers, Opcodes, Targets
<1> HIDE DEF by
<1>3. order \in Orders /\ order.by = by /\ order # NoCmd BY <1>2 DEF Orders, Modes, Targets, NoCmd
<1>4. h \in Targets BY DEF Targets
<1>5. Holds(o, u, order) BY <1>1, <1>3, <1>4, RequestHolds
<1> HIDE DEF order
<1>6. /\ r \in Publishers /\ r.session = p.session /\ r.client = p.client /\ r.request = p.request
      /\ r.last = p.last /\ r.established = p.established /\ r.policy = FALSE /\ r.alias = FALSE
      /\ r.echo = FALSE /\ r.out = p.out
  BY <1>1, AnswerNumbers DEF NoteLegacy, Publishers
<1> HIDE DEF u, r
<1>7. Owning(n, u)
  <2>1. u.expected \in 0..Len(n.asked)
    <3> DEFINE a == Len(n.asked)
    <3>1. a \in Nat BY LogLengths DEF Good, Policy
    <3> HIDE DEF a
    <3>2. 0 \in 0..a BY <3>1
    <3> QED BY <1>5, <3>2 DEF a, Holds
  <2> QED BY <1>1, <1>2, <1>3, <1>5, <2>1 DEF Owning, Holds
<1>8. Numbered(r, q, cs) BY <1>6 DEF Good, Numbered
<1>9. Ordered(r, q, cs, w) BY <1>6 DEF Good, Ordered
<1>10. Once(n, u, r, cs)
  <2>1. Once(n, o, p, cs) BY DEF Good
  <2>2. \A c \in cs : c.client # 0 BY DEF Good, Numbered, Commands
  <2>3. \A c \in cs : Taken(c, n, u) => Taken(c, n, o) BY <1>2, <1>3, <1>5, <2>2 DEF Taken, SameKey, Holds
  <2>4. Aired(u.pending.by, cs) BY <1>2, <1>3, <1>5 DEF Aired, Holds
  <2> QED BY <1>2, <1>3, <1>5, <1>6, <2>1, <2>3, <2>4 DEF Once, Holds
<1>11. Told(n, u, r, cs) BY <1>6 DEF Good, Told
<1>12. Shown(n, r, q, cs) BY <1>6 DEF Good, Shown
<1> QED BY <1>6, <1>7, <1>8, <1>9, <1>10, <1>11, <1>12 DEF Good, u, r, by

-------------------------------------------------------------------------------
(* A request that is accepted. *)

(* Who asked, as the history has it. *)
Asker(c) ==
    [client |-> c.client, request |-> c.request, opcode |-> c.opcode, target |-> c.target, gen |-> c.gen]

(* The publisher p has taken up the command c in the place of r. *)
Heads(r, p, c) ==
    /\ p \in Publishers /\ p.session = r.session /\ p.client = c.client /\ p.request = c.request
    /\ p.last = c.request /\ p.established = TRUE /\ p.echo = TRUE /\ p.out = r.out

Refuses(r, p, c) ==
    /\ Heads(r, p, c) /\ p.policy = FALSE /\ p.alias = FALSE
    /\ p.result = Rejected \/ (p.result = Listed /\ c.opcode = "LIST")

Takes(r, p, c, o, u) ==
    /\ Heads(r, p, c) /\ p.policy = TRUE /\ p.result = Accepted /\ c.opcode # "LIST"
    /\ Holds(o, u, u.pending) /\ u.pending \in Orders /\ u.pending.by = Asker(c) /\ u.pending # NoCmd

(* What request_host() makes of a command: it is refused without a trace in *)
(* the owner, listed, or taken up under its numbers.                        *)
LEMMA AcceptOutcome ==
    ASSUME NEW r \in Publishers, r.established = TRUE, NEW o \in Owners, NEW c \in Commands
    PROVE  \/ Accept(r, o, c).own = o /\ Refuses(r, Accept(r, o, c).pub, c)
           \/ Takes(r, Accept(r, o, c).pub, c, o, Accept(r, o, c).own)
<1> DEFINE p == [r EXCEPT !.client = c.client, !.request = c.request, !.last = c.request,
                          !.rejection = NoRequest, !.echo = TRUE, !.result = Rejected, !.error = 0,
                          !.policy = FALSE, !.alias = FALSE]
           by == Asker(c)
           queued == [Answer(p, Accepted, 0) EXCEPT !.policy = TRUE, !.alias = c.opcode = "ALIAS"]
           a == Act(p, o, c)
<1>1. Accept(r, o, c) = a BY DEF Accept
<1>2. /\ c.client \in Nat \ {0} /\ c.request \in Nat \ {0} /\ c.opcode \in Opcodes /\ c.target \in Targets
      /\ c.gen \in Nat
  BY DEF Commands
<1>3. by \in Askers BY <1>2 DEF Asker, Askers
<1>4. NoRequest \in Shakes BY DEF NoRequest, Shakes
<1>5. /\ p \in Publishers /\ p.session = r.session /\ p.client = c.client /\ p.request = c.request
      /\ p.last = c.request /\ p.established = TRUE /\ p.echo = TRUE /\ p.out = r.out /\ p.policy = FALSE
      /\ p.alias = FALSE
  BY <1>2, <1>4, AnswerNumbers DEF Publishers
<1> HIDE DEF p
<1>6. \A result \in {Rejected, Listed} : \A error \in Nat :
          /\ Heads(r, Answer(p, result, error), c) /\ Answer(p, result, error).policy = FALSE
          /\ Answer(p, result, error).alias = FALSE /\ Answer(p, result, error).result = result
  BY <1>5, AnswerNumbers DEF Heads, Answer, Publishers
<1>7. Heads(r, queued, c) /\ queued.policy = TRUE /\ queued.result = Accepted
  <2> DEFINE alias == c.opcode = "ALIAS"
             e == [p EXCEPT !.result = Accepted, !.error = 0, !.policy = TRUE, !.alias = alias]
  <2>1. queued = e BY <1>5 DEF Answer, Publishers
  <2>2. alias \in BOOLEAN OBVIOUS
  <2> HIDE DEF alias
  <2>3. /\ e \in Publishers /\ e.session = p.session /\ e.client = p.client /\ e.request = p.request
        /\ e.last = p.last /\ e.established = p.established /\ e.echo = p.echo /\ e.out = p.out
        /\ e.policy = TRUE /\ e.result = Accepted
    BY <1>5, <2>2, AnswerNumbers DEF Publishers
  <2> HIDE DEF e
  <2> QED BY <1>5, <2>1, <2>3 DEF Heads
<1>8. ASSUME NEW mode \in Modes, c.opcode # "LIST", NEW u, u = queued, NEW v,
             \/ v = Request(o, mode, c.target, by)
             \/ mode = "ALIAS" /\ v = RequestAlias(o, c.target, by)
      PROVE  Takes(r, u, c, o, v)
  <2> DEFINE order == [mode |-> mode, target |-> c.target, by |-> by]
  <2>1. order \in Orders /\ order.by = by /\ order # NoCmd BY <1>2, <1>3 DEF Orders, NoCmd, Modes
  <2>2. Holds(o, v, order) BY <1>2, <1>8, <2>1, RequestHolds
  <2> HIDE DEF order, by
  <2> HIDE DEF queued
  <2> QED BY <1>7, <1>8, <2>1, <2>2 DEF Takes, Holds, by
<1>9. Refusal(o, c) \in {0, 4, 5, 10} BY DEF Refusal
<1>10. DOMAIN ModeOf = {"DISCONNECT", "SELECT", "ENROLL"} BY DEF ModeOf
<1>11. CASE Refusal(o, c) # 0
  <2>1. a = [pub |-> Answer(p, Rejected, Refusal(o, c)), own |-> o] BY <1>11 DEF Act
  <2>2. a.own = o /\ a.pub = Answer(p, Rejected, Refusal(o, c)) BY <2>1
  <2> HIDE DEF a
  <2> QED BY <1>1, <1>6, <1>9, <2>2 DEF Refuses
<1>12. CASE Refusal(o, c) = 0 /\ c.opcode = "LIST"
  <2>1. a = [pub |-> Answer(p, Listed, 0), own |-> o] BY <1>12, <1>10 DEF Act
  <2>2. a.own = o /\ a.pub = Answer(p, Listed, 0) BY <2>1
  <2> HIDE DEF a
  <2> QED BY <1>1, <1>6, <1>12, <2>2 DEF Refuses
<1>13. CASE Refusal(o, c) = 0 /\ c.opcode = "ALIAS"
  <2>1. CASE AliasTaken(o)
    <3>1. a = [pub |-> queued, own |-> RequestAlias(o, c.target, by)] BY <1>13, <1>10, <2>1 DEF Act, Asker
    <3> HIDE DEF queued, by
    <3>2. a.pub = queued /\ a.own = RequestAlias(o, c.target, by) BY <3>1
    <3> HIDE DEF a
    <3>3. "ALIAS" \in Modes BY DEF Modes
    <3> QED BY <1>1, <1>8, <1>13, <3>2, <3>3
  <2>2. CASE ~AliasTaken(o)
    <3>1. a = [pub |-> Answer(p, Rejected, 6), own |-> o] BY <1>13, <1>10, <2>2 DEF Act
    <3>2. a.own = o /\ a.pub = Answer(p, Rejected, 6) BY <3>1
    <3> HIDE DEF a
    <3> QED BY <1>1, <1>6, <3>2 DEF Refuses
  <2> QED BY <2>1, <2>2
<1>14. CASE Refusal(o, c) = 0 /\ c.opcode \in DOMAIN ModeOf
  <2>1. DOMAIN ModeOf = {"DISCONNECT", "SELECT", "ENROLL"} /\ ModeOf[c.opcode] \in Modes /\ c.opcode # "LIST"
    BY <1>14 DEF ModeOf, Modes
  <2>2. a = [pub |-> queued, own |-> Request(o, ModeOf[c.opcode], c.target, by)] BY <1>14, <2>1 DEF Act, Asker
  <2> HIDE DEF queued, by
  <2>3. a.pub = queued /\ a.own = Request(o, ModeOf[c.opcode], c.target, by) BY <2>2
  <2> HIDE DEF a
  <2> QED BY <1>1, <1>8, <2>1, <2>3
<1>15. c.opcode \in {"LIST", "ALIAS"} \cup DOMAIN ModeOf BY <1>2 DEF Opcodes, ModeOf
<1> QED BY <1>11, <1>12, <1>13, <1>14, <1>15

(* A command whose numbers are new is not among those taken up. *)
LEMMA GoodAccept ==
    ASSUME NEW n, NEW o, NEW p, NEW q, NEW cs, NEW w, Good(n, o, p, q, cs, w),
           NEW c \in cs, c.session = p.session, p.client <= c.client,
           p.established /\ c.client = p.client => c.request > p.last,
           \A i \in 1..Len(w) : c.client <= w[i].client,
           NEW r \in Publishers, r.session = p.session, r.established = TRUE, r.out = p.out
    PROVE  Good(n, Accept(r, o, c).own, Accept(r, o, c).pub, q, cs, w)
<1> DEFINE u == Accept(r, o, c).own
           v == Accept(r, o, c).pub
<1>1. c \in Commands /\ cs \subseteq Commands /\ p \in Publishers /\ o \in Owners /\ Owning(n, o)
  BY DEF Good, Numbered, Owning
<1>2. \/ u = o /\ Refuses(r, v, c)
      \/ Takes(r, v, c, o, u)
  BY <1>1, AcceptOutcome
<1> HIDE DEF u, v
<1>3. Heads(r, v, c) BY <1>2 DEF Refuses, Takes
<1>4. /\ c.client \in Nat \ {0} /\ c.request \in Nat \ {0} /\ p.client \in Nat /\ p.last \in Nat
      /\ \A d \in cs : d.client \in Nat \ {0} /\ d.request \in Nat \ {0}
  BY <1>1, PublisherFields DEF Commands
<1>5. Once(n, o, p, cs) BY DEF Good
<1>6. ASSUME NEW d \in cs, d.session = p.session, Taken(d, n, o)
      PROVE  d.client < c.client \/ (d.client = c.client /\ d.request < c.request)
  <2>1. p.established /\ (d.client < p.client \/ (d.client = p.client /\ d.request <= p.last))
    BY <1>5, <1>6 DEF Once
  <2>2. CASE d.client < p.client BY <1>4, <2>2
  <2>3. CASE d.client = p.client /\ d.request <= p.last BY <1>4, <2>1, <2>3
  <2> QED BY <2>1, <2>2, <2>3
<1>7. ~Taken(c, n, o) BY <1>4, <1>6
<1>8. Numbered(v, q, cs) BY <1>3 DEF Good, Numbered, Heads
<1>9. Ordered(v, q, cs, w)
  <2>1. c.client <= q.client BY DEF Good, Numbered
  <2> QED BY <1>3, <2>1 DEF Good, Ordered, Heads
<1>10. Shown(n, v, q, cs) BY <1>3 DEF Good, Shown, Heads
<1>11. SameKey(c, v) /\ v.client # 0 BY <1>3, <1>4 DEF SameKey, Heads
<1>12. /\ v.out.kind = "status" => Honest(v.out, n, cs) /\ Seen(v.out.native, n)
       /\ v.out.kind = "list" => Listing(v.out.gen, v.out.peers, n)
       /\ v.out # NoPacket => v.out.session = v.session
  BY <1>3 DEF Good, Told, Heads
<1>13. v.established /\ v.last > 0 /\ v.client > 0 BY <1>3, <1>4 DEF Heads
<1>14. CASE u = o /\ Refuses(r, v, c)
  <2>1. \A d \in cs : d.session = v.session /\ Taken(d, n, o) =>
            d.client < v.client \/ (d.client = v.client /\ d.request <= v.last)
    BY <1>3, <1>4, <1>6 DEF Heads
  <2>2. Once(n, o, v, cs) BY <1>5, <1>13, <2>1 DEF Once
  <2>3. Told(n, o, v, cs)
    <3>1. v.policy = FALSE /\ v.alias = FALSE /\ (v.result = Rejected \/ (v.result = Listed /\ c.opcode = "LIST"))
      BY <1>14 DEF Refuses
    <3>2. v.result # 0 /\ v.result \notin {Accepted, Applied} BY <3>1 DEF Accepted, Rejected, Applied, Listed
    <3>3. v.result = Listed => c.opcode = "LIST" BY <3>1 DEF Rejected, Listed
    <3> QED BY <1>11, <1>12, <3>1, <3>2, <3>3 DEF Told
  <2> QED BY <1>3, <1>8, <1>9, <1>10, <1>14, <2>2, <2>3 DEF Good, Heads, u, v
<1>15. CASE Takes(r, v, c, o, u)
  <2>1. /\ u.pending # NoCmd /\ u.pending.by = Asker(c) /\ c.opcode # "LIST" /\ Holds(o, u, u.pending)
        /\ v.policy = TRUE /\ v.result = Accepted
    BY <1>15 DEF Takes
  <2>2. /\ Asker(c).client = c.client /\ Asker(c).request = c.request /\ Asker(c).opcode = c.opcode
        /\ Asker(c).target = c.target
    BY DEF Asker
  <2>3. Owning(n, u)
    <3>1. 0 \in 0..Len(n.asked)
      <4> DEFINE a == Len(n.asked)
      <4>1. a \in Nat BY LogLengths DEF Good, Policy
      <4> HIDE DEF a
      <4>2. 0 \in 0..a BY <4>1
      <4> QED BY <4>2 DEF a
    <3> QED BY <1>1, <2>1, <2>2, <3>1 DEF Owning, Holds
  <2>4. Once(n, u, v, cs)
    <3>1. Aired(u.pending.by, cs) BY <2>1, <2>2 DEF Aired, Asks1
    <3>2. \A i \in 1..Len(n.asked) : ~SameKey(n.asked[i], u.pending.by) BY <1>7, <2>1, <2>2 DEF Taken, SameKey
    <3>3. \A d \in cs : d.session = v.session /\ Taken(d, n, u) =>
              d.client < v.client \/ (d.client = v.client /\ d.request <= v.last)
      <4> SUFFICES ASSUME NEW d \in cs, d.session = v.session, Taken(d, n, u)
                   PROVE  d.client < v.client \/ (d.client = v.client /\ d.request <= v.last)
        OBVIOUS
      <4>1. CASE \E i \in 1..Len(n.asked) : SameKey(d, n.asked[i])
        <5>1. Taken(d, n, o) BY <4>1 DEF Taken
        <5> QED BY <1>3, <1>4, <1>6, <5>1 DEF Heads
      <4>2. CASE SameKey(d, u.pending.by) BY <1>3, <1>4, <2>1, <2>2, <4>2 DEF Heads, SameKey
      <4> QED BY <4>1, <4>2 DEF Taken
    <3> QED BY <1>5, <1>13, <3>1, <3>2, <3>3 DEF Once
  <2>5. Told(n, u, v, cs)
    <3>1. SameKey(u.pending.by, v) BY <1>11, <2>1, <2>2 DEF SameKey
    <3>2. v.result # 0 /\ v.result # Listed BY <2>1 DEF Accepted, Listed
    <3> QED BY <1>11, <1>12, <2>1, <3>1, <3>2 DEF Told
  <2> QED BY <1>3, <1>8, <1>9, <1>10, <2>3, <2>4, <2>5 DEF Good, Heads, u, v
<1> QED BY <1>2, <1>14, <1>15

(* The first command of the queue is taken out. *)
LEMMA GoodTail ==
    ASSUME NEW n, NEW o, NEW p, NEW q, NEW cs, NEW w, Good(n, o, p, q, cs, w), w # <<>>
    PROVE  /\ Good(n, o, p, q, cs, Tail(w)) /\ Head(w) \in cs /\ p.client <= Head(w).client
           /\ \A i \in 1..Len(Tail(w)) : Head(w).client <= Tail(w)[i].client
<1> DEFINE a == Len(w)
           b == Len(Tail(w))
<1>1. w \in Seq(Commands) BY DEF Good, Ordered
<1>2. a \in Nat /\ a # 0 /\ b \in Nat /\ b = a - 1 /\ Tail(w) \in Seq(Commands) /\ Head(w) = w[1]
      /\ \A i \in 1..b : Tail(w)[i] = w[i + 1]
  BY <1>1, HeadTailProperties, EmptySeq, LenProperties
<1>3. /\ \A i \in 1..a : w[i] \in cs /\ p.client <= w[i].client
      /\ \A i, j \in 1..a : i <= j => w[i].client <= w[j].client
  BY DEF Good, Ordered
<1> HIDE DEF a, b
<1>4. 1 \in 1..a /\ \A i \in 1..b : i + 1 \in 1..a /\ 1 <= i + 1 BY <1>2
<1>5. \A i, j \in 1..b : i <= j => i + 1 <= j + 1 BY <1>2
<1>6. Ordered(p, q, cs, Tail(w))
  <2>1. \A i \in 1..b : Tail(w)[i] \in cs /\ p.client <= Tail(w)[i].client BY <1>2, <1>3, <1>4
  <2>2. \A i, j \in 1..b : i <= j => Tail(w)[i].client <= Tail(w)[j].client BY <1>2, <1>3, <1>4, <1>5
  <2> QED BY <1>2, <2>1, <2>2 DEF Good, Ordered, b
<1>7. \A i \in 1..b : w[1].client <= Tail(w)[i].client BY <1>2, <1>3, <1>4
<1> QED BY <1>2, <1>3, <1>4, <1>6, <1>7 DEF Good, b

(* The queue's first command meets the publisher. *)
LEMMA GoodRequest ==
    ASSUME NEW n, NEW o, NEW p, NEW q, NEW cs, NEW w, Good(n, o, p, q, cs, w), w # <<>>
    PROVE  Good(n, RequestHost(p, o, Head(w)).own, RequestHost(p, o, Head(w)).pub, q, cs, Tail(w))
<1> DEFINE c == Head(w)
           shake == [client |-> c.client, request |-> c.request, gen |-> c.gen]
           new == ~p.established \/ c.client # p.client
           told == [p EXCEPT !.rejection = shake]
           known == [p EXCEPT !.challenges = p.challenges \ {c.gen}, !.established = TRUE, !.handshake = shake]
           h == RequestHost(p, o, c)
<1>1. /\ Good(n, o, p, q, cs, Tail(w)) /\ c \in cs /\ p.client <= c.client
      /\ \A i \in 1..Len(Tail(w)) : c.client <= Tail(w)[i].client
  BY GoodTail
<1>2. p \in Publishers /\ c \in Commands BY <1>1 DEF Good, Numbered
<1>3. shake \in Shakes BY <1>2 DEF Commands, Shakes
<1>4. p.client \in Nat /\ c.client \in Nat /\ p.last \in Nat /\ c.request \in Nat BY <1>2, PublisherFields DEF Commands
<1> HIDE DEF shake
<1>5. Good(n, o, told, q, cs, Tail(w))
  <2>1. told \in Publishers BY <1>2, <1>3 DEF Publishers
  <2>2. SameTalk(p, told) BY <1>2 DEF SameTalk, Publishers
  <2> HIDE DEF told
  <2> QED BY <1>1, <2>1, <2>2, GoodTalk
<1>6. known \in Publishers /\ known.session = p.session /\ known.established = TRUE /\ known.out = p.out
  <2>1. p.challenges \ {c.gen} \in SUBSET Nat BY <1>2, PublisherFields
  <2> QED BY <1>2, <1>3, <2>1 DEF Publishers
<1>7. \/ h = [pub |-> p, own |-> o]
      \/ h = [pub |-> told, own |-> o]
      \/ c.session = p.session /\ new /\ h = Accept(known, o, c)
      \/ c.session = p.session /\ ~new /\ Newer(p, c) /\ h = Accept(p, o, c)
  BY DEF RequestHost, shake
<1> HIDE DEF told, known, h
<1>8. CASE h = [pub |-> p, own |-> o] BY <1>1, <1>8 DEF h
<1>9. CASE h = [pub |-> told, own |-> o] BY <1>5, <1>9 DEF h
<1>10. CASE c.session = p.session /\ new /\ h = Accept(known, o, c)
  <2>1. p.established /\ c.client = p.client => c.request > p.last BY <1>10
  <2> HIDE DEF c
  <2> QED BY <1>1, <1>6, <1>10, <2>1, GoodAccept DEF h, c
<1>11. CASE c.session = p.session /\ ~new /\ Newer(p, c) /\ h = Accept(p, o, c)
  <2>1. p.established = TRUE /\ p.last > 0
    <3>1. p.established \in BOOLEAN /\ p.established BY <1>2, <1>11, PublisherFields
    <3> QED BY <1>1, <3>1 DEF Good, Once
  <2>2. c.request > p.last BY <1>4, <1>11, <2>1 DEF Newer
  <2> HIDE DEF c
  <2> QED BY <1>1, <1>2, <1>11, <2>1, <2>2, GoodAccept DEF h, c
<1> QED BY <1>7, <1>8, <1>9, <1>10, <1>11

-------------------------------------------------------------------------------
(* The panel. *)

LEMMA PanelFields ==
    ASSUME NEW q \in Panels
    PROVE  /\ q.client \in Nat \ {0} /\ q.counter \in Nat /\ q.session \in Nat /\ q.observed \in Nat
           /\ q.status \in {BlankStatus} \cup StatusPackets /\ q.sseq \in Nat /\ q.sfresh \in BOOLEAN
           /\ q.list \in [gen : Nat, peers : Peers] /\ q.lseq \in Nat /\ q.lfresh \in BOOLEAN
           /\ q.admitted \in Nat /\ q.waiting \in BOOLEAN /\ q.challenge \in Nat /\ q.shake \in Nat
           /\ q.selected \in Targets /\ q.pending \in BOOLEAN /\ q.own \in BOOLEAN /\ q.opcode \in Opcodes
           /\ q.request \in Nat /\ q.target \in Targets /\ q.baseline \in Nat /\ q.baseOp \in Nat
           /\ q.operation \in Nat /\ q.result \in Results
BY DEF Panels

(* The panel drops what it had, and begins nothing. *)
Rests(q, r) ==
    /\ r.client = q.client /\ r.counter = q.counter /\ r.session = q.session /\ r.status = q.status
    /\ r.list = q.list /\ r.challenge = q.challenge /\ r.shake = q.shake
    /\ r.request = q.request /\ r.opcode = q.opcode /\ r.target = q.target
    /\ r.sfresh => q.sfresh
    /\ r.waiting => q.waiting
    /\ r.pending => q.pending
    /\ r.observed = q.observed

(* What Shown says, before a new session is noticed. *)
Before(n, p, q, cs) ==
    /\ q.session <= p.session /\ (q.session = 0 => q.observed = 0)
    /\ q.sfresh => q.status.kind = "status" /\ q.session # 0
    /\ q.status.kind = "status" => Honest(q.status, n, cs) /\ Seen(q.status.native, n)
    /\ Listing(q.list.gen, q.list.peers, n)
    /\ q.waiting =>
          /\ q.observed # 0 /\ q.shake <= q.counter /\ q.shake # 0
          /\ q.observed = q.session => Command(q, "LIST", q.shake, NoHost, q.challenge) \in cs
    /\ q.request <= q.counter
    /\ q.pending =>
          /\ q.opcode # "LIST"
          /\ \E c \in cs : c.client = q.client /\ c.request = q.request /\ c.opcode = q.opcode /\ c.target = q.target

LEMMA ShownBefore ==
    ASSUME NEW n, NEW p, NEW q, NEW cs, Shown(n, p, q, cs)
    PROVE  Before(n, p, q, cs)
BY DEF Shown, Before

LEMMA RestsShown ==
    ASSUME NEW n, NEW p, NEW q, NEW cs, NEW r, Rests(q, r)
    PROVE  /\ Shown(n, p, q, cs) => Shown(n, p, r, cs)
           /\ Before(n, p, q, cs) => Before(n, p, r, cs)
<1>1. Command(q, "LIST", q.shake, NoHost, q.challenge) = Command(r, "LIST", r.shake, NoHost, r.challenge)
  BY DEF Command, Rests
<1>2. Shown(n, p, q, cs) => Shown(n, p, r, cs) BY <1>1 DEF Shown, Rests
<1>3. Before(n, p, q, cs) => Before(n, p, r, cs) BY <1>1 DEF Before, Rests
<1> QED BY <1>2, <1>3

LEMMA RestsChain ==
    ASSUME NEW q, NEW r, NEW s, Rests(q, r), Rests(r, s)
    PROVE  Rests(q, s)
BY DEF Rests

LEMMA RestsItself == ASSUME NEW q PROVE Rests(q, q)
BY DEF Rests

(* What the panel drops at the end of a request, of a session, of a link. *)
LEMMA FinishRests ==
    ASSUME NEW q \in Panels, NEW result \in Results
    PROVE  /\ Finish(q, result) \in Panels /\ Rests(q, Finish(q, result)) /\ Finish(q, result).result = result
           /\ Finish(q, result).pending = FALSE
<1> DEFINE r == [q EXCEPT !.pending = FALSE, !.result = result, !.own = FALSE, !.baseline = 0, !.baseOp = 0]
<1>1. r \in Panels BY DEF Panels
<1>2. Rests(q, r) /\ r.result = result /\ r.pending = FALSE BY DEF Rests, Panels
<1>3. Finish(q, result) = r BY DEF Finish
<1> HIDE DEF r
<1> QED BY <1>1, <1>2, <1>3

LEMMA DeferRests ==
    ASSUME NEW q \in Panels
    PROVE  /\ Defer(q) \in Panels /\ Rests(q, Defer(q)) /\ Defer(q).result = q.result /\ Defer(q).pending = q.pending
<1> DEFINE r == [q EXCEPT !.waiting = FALSE]
<1>1. r \in Panels BY DEF Panels
<1>2. Rests(q, r) /\ r.result = q.result /\ r.pending = q.pending BY DEF Rests, Panels
<1>3. Defer(q) = r BY DEF Defer
<1> HIDE DEF r
<1> QED BY <1>1, <1>2, <1>3

LEMMA AdmissionRests ==
    ASSUME NEW q \in Panels
    PROVE  /\ Admission(q) \in Panels /\ Rests(q, Admission(q)) /\ Admission(q).pending = q.pending
           /\ Admission(q).result = q.result \/ (~q.pending /\ Admission(q).result = "IDLE")
<1> DEFINE result == IF q.pending THEN q.result ELSE "IDLE"
           r == [q EXCEPT !.admitted = q.session, !.waiting = FALSE, !.result = result]
<1>1. Admission(q) \in {q, r, Defer(q)} BY DEF Admission
<1>2. result \in Results BY PanelFields DEF Results
<1>3. result = q.result \/ (~q.pending /\ result = "IDLE") OBVIOUS
<1> HIDE DEF result
<1>4. r \in Panels BY <1>2, PanelFields DEF Panels
<1>5. Rests(q, r) /\ r.result = result /\ r.pending = q.pending BY DEF Rests, Panels
<1> HIDE DEF r
<1> QED BY <1>1, <1>3, <1>4, <1>5, DeferRests, RestsItself

LEMMA SelectedRests ==
    ASSUME NEW q \in Panels, NEW h \in Targets
    PROVE  /\ [q EXCEPT !.selected = h] \in Panels /\ Rests(q, [q EXCEPT !.selected = h])
           /\ [q EXCEPT !.selected = h].result = q.result /\ [q EXCEPT !.selected = h].pending = q.pending
<1> DEFINE r == [q EXCEPT !.selected = h]
<1>1. r \in Panels BY DEF Panels
<1>2. Rests(q, r) /\ r.result = q.result /\ r.pending = q.pending BY DEF Rests, Panels
<1> HIDE DEF r
<1> QED BY <1>1, <1>2 DEF r

(* The panel q follows an operation of its own, and says how it stands. *)
Follows(q, op) == [q EXCEPT !.own = TRUE, !.operation = op]

LEMMA FollowsRests ==
    ASSUME NEW q \in Panels, NEW op \in Nat
    PROVE  /\ Follows(q, op) \in Panels /\ Rests(q, Follows(q, op)) /\ Follows(q, op).result = q.result
           /\ Follows(q, op).pending = q.pending /\ Follows(q, op).operation = op
           /\ Follows(q, op).lfresh = q.lfresh /\ Follows(q, op).sfresh = q.sfresh
<1> DEFINE r == [q EXCEPT !.own = TRUE, !.operation = op]
<1>1. r \in Panels BY DEF Panels
<1>2. /\ Rests(q, r) /\ r.result = q.result /\ r.pending = q.pending /\ r.operation = op
      /\ r.lfresh = q.lfresh /\ r.sfresh = q.sfresh
  BY DEF Rests, Panels
<1>3. Follows(q, op) = r BY DEF Follows
<1> HIDE DEF r
<1> QED BY <1>1, <1>2, <1>3

LEMMA ConcludeRests ==
    ASSUME NEW q \in Panels, NEW outcome \in Results
    PROVE  /\ Conclude(q, outcome) \in Panels /\ Rests(q, Conclude(q, outcome))
           /\ Conclude(q, outcome).result = outcome /\ Conclude(q, outcome).operation = q.operation
<1> DEFINE r == [q EXCEPT !.result = outcome]
<1>1. r \in Panels BY DEF Panels
<1>2. Rests(q, r) /\ r.result = outcome /\ r.operation = q.operation BY DEF Rests, Panels
<1>3. Conclude(q, outcome) \in {r, Finish(q, outcome)} BY DEF Conclude
<1>4. Finish(q, outcome).operation = q.operation BY DEF Finish, Panels
<1> HIDE DEF r
<1> QED BY <1>1, <1>2, <1>3, <1>4, FinishRests

LEMMA AdmittedRests ==
    ASSUME NEW q \in Panels, NEW admitted \in Nat
    PROVE  [q EXCEPT !.admitted = admitted] \in Panels /\ Rests(q, [q EXCEPT !.admitted = admitted])
BY DEF Panels, Rests

LEMMA OutcomeResults == ASSUME NEW q \in Panels PROVE Outcome(q) \in Results
<1>1. q.result \in Results BY PanelFields
<1>2. Outcome(q) \in {"ENROLLMENT_ENDED", "FAILED", "CONFIRMED", "WAITING_HOST", "PAIRING", q.result} BY DEF Outcome
<1> QED BY <1>1, <1>2 DEF Results

(* The status that lets the panel report its request as carried out. *)
Proof(q, r) ==
    /\ q.pending /\ q.sfresh /\ q.status.client = q.client /\ q.status.request = q.request
    /\ q.status.result # Rejected /\ q.status.ready /\ q.status.op # 0 /\ r.operation = q.status.op
    /\ r.result = Outcome(Follows(q, q.status.op))

Carried == {"CONFIRMED", "WAITING_HOST", "PAIRING"}

(* The verdict on the panel's own request. *)
LEMMA JudgeRests ==
    ASSUME NEW q \in Panels
    PROVE  /\ Judge(q) \in Panels /\ Rests(q, Judge(q))
           /\ ~q.pending => Judge(q) = q
           /\ Judge(q).result # q.result /\ Judge(q).result \in Carried => Proof(q, Judge(q))
<1> DEFINE s == q.status
           r == Judge(q)
           op == Follow(q, s.op)
           seen == Follows(q, q.operation)
           followed == Follows(q, op)
           back == [seen EXCEPT !.admitted = 0]
           Ok(x) == /\ x \in Panels /\ Rests(q, x)
                    /\ x.result # q.result /\ x.result \in Carried => Proof(q, x)
<1>1. q.operation \in Nat /\ s.op \in Nat
  <2>1. s \in {BlankStatus} \cup StatusPackets /\ q.operation \in Nat BY PanelFields
  <2> QED BY <2>1 DEF BlankStatus, StatusPackets
<1>2. op \in Nat BY <1>1 DEF Follow
<1>3. seen \in Panels /\ Rests(q, seen) /\ followed \in Panels /\ Rests(q, followed) /\ followed.operation = op
      /\ followed.result = q.result
  BY <1>1, <1>2, FollowsRests
<1>4. seen = [q EXCEPT !.own = TRUE] /\ followed = [[q EXCEPT !.own = TRUE] EXCEPT !.operation = op]
  BY DEF Panels, Follows
<1> HIDE DEF seen, followed
<1>5. back \in Panels /\ Rests(q, back)
  <2>1. back \in Panels /\ Rests(seen, back) BY <1>3, AdmittedRests
  <2> QED BY <1>3, <2>1, RestsChain
<1>6. Defer(back) \in Panels /\ Rests(q, Defer(back)) BY <1>5, DeferRests, RestsChain
<1>7. \/ r = q
      \/ \E x \in {q, seen, Defer(back)}, result \in {"SUPERSEDED", "REJECTED"} : r = Finish(x, result)
      \/ r = followed
      \/ /\ q.pending /\ q.sfresh /\ s.client = q.client /\ s.request = q.request /\ s.result # Rejected
         /\ followed.operation # 0 /\ s.op = followed.operation /\ s.ready
         /\ r = Conclude(followed, Outcome(followed))
  <2> DEFINE mine == s.client = q.client /\ s.request = q.request
             other == q.operation # 0 /\ op # q.operation
             alive == q.pending /\ q.sfresh /\ q.sseq > q.baseline
  <2>6. q.sseq \in Nat /\ q.baseline \in Nat BY PanelFields
  <2>1. CASE ~alive BY <2>1, <2>6 DEF Judge
  <2>2. CASE alive /\ ~mine BY <2>2 DEF Judge
  <2>3. CASE alive /\ mine /\ s.result = Rejected BY <1>4, <2>3 DEF Judge
  <2>4. CASE alive /\ mine /\ s.result # Rejected /\ other BY <1>4, <2>4 DEF Judge
  <2>5. CASE alive /\ mine /\ s.result # Rejected /\ ~other
    <3>1. r = IF followed.operation # 0 /\ s.op = followed.operation /\ s.ready
              THEN Conclude(followed, Outcome(followed)) ELSE followed
      BY <1>4, <2>5 DEF Judge
    <3> HIDE DEF r
    <3> QED BY <2>5, <3>1
  <2> QED BY <2>1, <2>2, <2>3, <2>4, <2>5
<1>8. ~q.pending => r = q BY DEF Judge
<1> HIDE DEF r, back
<1>9. CASE r = q BY <1>9, RestsItself DEF r
<1>10. CASE \E x \in {q, seen, Defer(back)}, result \in {"SUPERSEDED", "REJECTED"} : r = Finish(x, result)
  <2>1. PICK x \in {q, seen, Defer(back)}, result \in {"SUPERSEDED", "REJECTED"} : r = Finish(x, result) BY <1>10
  <2>2. x \in Panels /\ Rests(q, x) BY <1>3, <1>6, RestsItself
  <2>3. result \in Results /\ result \notin Carried BY DEF Results, Carried
  <2>4. r \in Panels /\ Rests(x, r) /\ r.result = result BY <2>1, <2>2, <2>3, FinishRests
  <2> QED BY <1>8, <2>2, <2>3, <2>4, RestsChain DEF r
<1>11. CASE r = followed BY <1>3, <1>8, <1>11 DEF r
<1>12. CASE /\ q.pending /\ q.sfresh /\ s.client = q.client /\ s.request = q.request /\ s.result # Rejected
            /\ followed.operation # 0 /\ s.op = followed.operation /\ s.ready
            /\ r = Conclude(followed, Outcome(followed))
  <2>1. Outcome(followed) \in Results BY <1>3, OutcomeResults
  <2>2. r \in Panels /\ Rests(followed, r) /\ r.result = Outcome(followed) /\ r.operation = s.op
    BY <1>3, <1>12, <2>1, ConcludeRests
  <2>3. followed = Follows(q, s.op) BY <1>3, <1>12 DEF followed
  <2>4. Proof(q, r) BY <1>3, <1>12, <2>2, <2>3 DEF Proof
  <2> QED BY <1>3, <1>8, <2>2, <2>4, RestsChain DEF r
<1> QED BY <1>7, <1>9, <1>10, <1>11, <1>12

(* A confirmation that the status supports is one the policy has on record. *)
LEMMA ProofHolds ==
    ASSUME NEW n \in Natives, NEW p, NEW q \in Panels, NEW cs, Before(n, p, q, cs), Numbered(p, q, cs),
           NEW r, Proof(q, r), q.result # r.result, r.result \in Carried
    PROVE  /\ r.operation \in DOMAIN n.asked
           /\ n.asked[r.operation].client = q.client /\ n.asked[r.operation].request = q.request
           /\ r.result = "CONFIRMED" => r.operation \in n.done
<1> DEFINE s == q.status
           op == q.status.op
           a == Len(n.asked)
           f == Follows(q, op)
<1>1. s \in {BlankStatus} \cup StatusPackets BY PanelFields
<1>2. s.kind = "status" /\ Honest(s, n, cs) /\ Seen(s.native, n) BY DEF Before, Proof
<1>3. s \in StatusPackets BY <1>1, <1>2 DEF BlankStatus
<1>4. /\ q.pending /\ q.sfresh /\ s.client = q.client /\ s.request = q.request /\ s.result # Rejected /\ s.ready
      /\ op # 0 /\ r.operation = op /\ r.result = Outcome(f)
  BY DEF Proof
<1>5. s.client # 0 /\ op \in Nat /\ a \in Nat BY <1>3, <1>4, PanelFields, LogLengths DEF StatusPackets
<1>6. op <= a /\ \E c \in cs : /\ SameKey(c, s)
                               /\ c.opcode # "LIST" => Asks1(c, n.asked[op]) /\ s.native.op = op
  BY <1>2, <1>4, <1>5 DEF Honest
<1> HIDE DEF f
<1>7. PICK c \in cs : SameKey(c, s) /\ (c.opcode # "LIST" => Asks1(c, n.asked[op]) /\ s.native.op = op) BY <1>6
<1>8. /\ q.opcode # "LIST"
      /\ \E d \in cs : d.client = q.client /\ d.request = q.request /\ d.opcode = q.opcode /\ d.target = q.target
  BY <1>4 DEF Before
<1>9. PICK d \in cs : d.client = q.client /\ d.request = q.request /\ d.opcode = q.opcode /\ d.target = q.target
  BY <1>8
<1>10. c = d
  <2>1. SameKey(c, d) BY <1>4, <1>7, <1>9 DEF SameKey
  <2> QED BY <2>1 DEF Numbered
<1>11. Asks1(c, n.asked[op]) /\ s.native.op = op BY <1>7, <1>8, <1>9, <1>10
<1>12. /\ n.asked[op].client = q.client /\ n.asked[op].request = q.request /\ n.asked[op].opcode = q.opcode
       /\ n.asked[op].target = q.target
  BY <1>9, <1>10, <1>11 DEF Asks1
<1>13. op \in DOMAIN n.asked
  <2>1. DOMAIN n.asked = 1..a BY LenProperties DEF Natives
  <2> HIDE DEF a
  <2>2. op \in 1..a BY <1>4, <1>5, <1>6
  <2> QED BY <2>1, <2>2
<1>14. ASSUME r.result = "CONFIRMED" PROVE op \in n.done
  <2> DEFINE t == s.native
             bonds == n.peersAt[t.bonds]
  <2>1. op \in Nat BY <1>5
  <2>2. f \in Panels /\ f.result = q.result /\ Rests(q, f) /\ f.lfresh = q.lfresh /\ f.sfresh = q.sfresh
    BY <1>5, FollowsRests DEF f
  <2>3. f.status = s /\ f.opcode = q.opcode /\ f.target = q.target /\ f.list = q.list BY <2>2 DEF Rests
  <2>4. q.opcode \in {"DISCONNECT", "SELECT", "ENROLL", "ALIAS"} BY <1>8, PanelFields DEF Opcodes
  <2>5. t.error = "none" /\
        (CASE q.opcode = "DISCONNECT" -> t.state = "PAUSED" /\ t.requested = "PAUSED" /\ t.connected = NoHost
           [] q.opcode = "SELECT" -> t.state = "CONNECTED" /\ t.connected = q.target
           [] q.opcode = "ENROLL" -> t.state = "CONNECTED"
           [] q.opcode = "ALIAS" -> Find(f, q.target) /\ q.list.peers[q.target] = "named")
    BY <1>4, <1>14, <2>2, <2>3, <2>4 DEF Outcome
  <2>6. q.opcode = "ALIAS" => bonds[q.target] = "named"
    <3>1. SUFFICES ASSUME q.opcode = "ALIAS" PROVE bonds[q.target] = "named"
      OBVIOUS
    <3>2. Find(f, q.target) /\ q.list.peers[q.target] = "named" BY <2>5, <3>1
    <3>3. q.list.gen = t.bonds BY <2>3, <3>2 DEF Find, CoherentList
    <3>4. t.bonds # 0
      <4>1. t.bonds \in Nat \ {0} BY <1>3 DEF StatusPackets, Statuses
      <4> QED BY <4>1
    <3>5. q.list.peers = bonds BY <3>3, <3>4 DEF Before, Listing
    <3> QED BY <3>2, <3>5
  <2>7. Met(t, bonds, n.asked[op]) BY <1>12, <2>4, <2>5, <2>6 DEF Met
  <2> QED BY <1>2, <1>4, <1>11, <2>7 DEF Seen
<1> QED BY <1>4, <1>12, <1>13, <1>14

(* A tick of the panel, whatever session it finds. *)
LEMMA TickKeeps ==
    ASSUME NEW n \in Natives, NEW p, NEW q \in Panels, NEW cs, Before(n, p, q, cs)
    PROVE  /\ Tick(q) \in Panels /\ Shown(n, p, Tick(q), cs)
           /\ Tick(q).client = q.client /\ Tick(q).counter = q.counter
<1> DEFINE r == Tick(q)
           observed == IF q.session = 0 THEN q.observed ELSE q.session
           admitted == IF q.sfresh THEN q.admitted ELSE 0
           met == [q EXCEPT !.observed = observed, !.admitted = admitted]
           let == Admission(met)
           selected == IF CoherentList(let) /\ ~Find(let, let.selected) THEN NoHost ELSE let.selected
           kept == [let EXCEPT !.selected = selected]
           again == [q EXCEPT !.observed = q.session, !.selected = NoHost]
           reset == [q EXCEPT !.observed = q.session, !.selected = NoHost, !.admitted = 0, !.waiting = FALSE,
                              !.challenge = 0, !.shake = 0]
<1>1. /\ q.session \in Nat /\ q.observed \in Nat /\ q.sfresh \in BOOLEAN /\ q.admitted \in Nat
      /\ q.waiting \in BOOLEAN /\ NoHost \in Targets
  BY PanelFields DEF Targets
<1>2. CASE q.session # 0 /\ q.observed # 0 /\ q.session # q.observed
  <2>1. r = Finish(reset, "RESTARTED") BY <1>2 DEF Tick, ResetAdmission, Panels
  <2>2. reset \in Panels BY <1>1 DEF Panels
  <2>3. /\ reset.client = q.client /\ reset.counter = q.counter /\ reset.session = q.session
        /\ reset.observed = q.session /\ reset.status = q.status /\ reset.sfresh = q.sfresh
        /\ reset.list = q.list /\ reset.waiting = FALSE /\ reset.request = q.request
    BY DEF Panels
  <2> HIDE DEF reset
  <2>4. "RESTARTED" \in Results BY DEF Results
  <2>5. r \in Panels /\ Rests(reset, r) /\ r.pending = FALSE BY <2>1, <2>2, <2>4, FinishRests
  <2> HIDE DEF r
  <2>6. Shown(n, p, r, cs) BY <2>3, <2>5 DEF Before, Shown, Rests
  <2> QED BY <2>3, <2>5, <2>6 DEF Rests, r
<1>3. CASE ~(q.session # 0 /\ q.observed # 0 /\ q.session # q.observed)
  <2>1. r = Judge(kept) BY <1>3 DEF Tick
  <2>2. observed \in Nat /\ admitted \in Nat BY <1>1
  <2>3. observed \in {0, q.session} /\ (q.session # 0 => observed = q.session) BY <1>1 DEF Before
  <2> HIDE DEF observed, admitted
  <2>4. met \in Panels BY <2>2 DEF Panels
  <2>5. /\ met.client = q.client /\ met.counter = q.counter /\ met.session = q.session
        /\ met.observed = observed /\ met.status = q.status /\ met.sfresh = q.sfresh
        /\ met.list = q.list /\ met.waiting = q.waiting /\ met.challenge = q.challenge /\ met.shake = q.shake
        /\ met.request = q.request /\ met.pending = q.pending /\ met.opcode = q.opcode /\ met.target = q.target
    BY DEF Panels
  <2> HIDE DEF met
  <2>6. Shown(n, p, met, cs)
    <3>1. q.waiting => q.observed = q.session /\ q.session # 0 BY <1>3 DEF Before
    <3>2. Command(met, "LIST", met.shake, NoHost, met.challenge) = Command(q, "LIST", q.shake, NoHost, q.challenge)
      BY <2>5 DEF Command
    <3> QED BY <2>3, <2>5, <3>1, <3>2 DEF Before, Shown
  <2>7. let \in Panels /\ Rests(met, let) BY <2>4, AdmissionRests
  <2> HIDE DEF let
  <2>8. selected \in Targets BY <1>1, <2>7, PanelFields
  <2> HIDE DEF selected
  <2>9. kept \in Panels /\ Rests(let, kept) BY <2>7, <2>8, SelectedRests
  <2> HIDE DEF kept
  <2>10. r \in Panels /\ Rests(kept, r) BY <2>1, <2>9, JudgeRests
  <2> HIDE DEF r
  <2>11. Rests(met, r) BY <2>7, <2>9, <2>10, RestsChain
  <2>12. Shown(n, p, r, cs) BY <2>6, <2>11, RestsShown
  <2> QED BY <2>5, <2>10, <2>11, <2>12 DEF Rests, r
<1> QED BY <1>2, <1>3

(* What a tick reports as carried out was carried out for this request. *)
LEMMA TickTells ==
    ASSUME NEW n \in Natives, NEW p, NEW q \in Panels, NEW cs, Before(n, p, q, cs), Numbered(p, q, cs),
           Tick(q).result # q.result, Tick(q).result \in Carried
    PROVE  /\ Tick(q).operation \in DOMAIN n.asked
           /\ n.asked[Tick(q).operation].client = Tick(q).client
           /\ n.asked[Tick(q).operation].request = Tick(q).request
           /\ Tick(q).result = "CONFIRMED" => Tick(q).operation \in n.done
<1> DEFINE r == Tick(q)
           observed == IF q.session = 0 THEN q.observed ELSE q.session
           admitted == IF q.sfresh THEN q.admitted ELSE 0
           met == [q EXCEPT !.observed = observed, !.admitted = admitted]
           let == Admission(met)
           selected == IF CoherentList(let) /\ ~Find(let, let.selected) THEN NoHost ELSE let.selected
           kept == [let EXCEPT !.selected = selected]
<1>1. /\ q.session \in Nat /\ q.observed \in Nat /\ q.sfresh \in BOOLEAN /\ q.admitted \in Nat /\ NoHost \in Targets
  BY PanelFields DEF Targets
<1>2. ~(q.session # 0 /\ q.observed # 0 /\ q.session # q.observed)
  <2> SUFFICES ASSUME q.session # 0 /\ q.observed # 0 /\ q.session # q.observed PROVE r.result = "RESTARTED"
    BY DEF Carried
  <2>1. r = Finish(ResetAdmission([q EXCEPT !.observed = q.session, !.selected = NoHost]), "RESTARTED")
    BY DEF Tick
  <2> HIDE DEF r
  <2> QED BY <2>1 DEF Finish, ResetAdmission, Panels
<1>3. r = Judge(kept) BY <1>2 DEF Tick
<1>4. observed \in Nat /\ admitted \in Nat BY <1>1
<1>5. observed = 0 \/ observed = q.session BY <1>1 DEF Before
<1>6. q.waiting => q.observed = q.session /\ q.session # 0 BY <1>2 DEF Before
<1>7. q.session # 0 => observed = q.session OBVIOUS
<1>8. q.session = 0 => observed = 0 BY DEF Before
<1> HIDE DEF observed, admitted
<1>9. met \in Panels BY <1>4 DEF Panels
<1>10. /\ met.client = q.client /\ met.counter = q.counter /\ met.session = q.session /\ met.result = q.result
       /\ met.observed = observed /\ met.status = q.status /\ met.sfresh = q.sfresh
       /\ met.list = q.list /\ met.waiting = q.waiting /\ met.challenge = q.challenge /\ met.shake = q.shake
       /\ met.request = q.request /\ met.pending = q.pending /\ met.opcode = q.opcode /\ met.target = q.target
  BY DEF Panels
<1> HIDE DEF met
<1>11. Before(n, p, met, cs)
  <2>1. Command(met, "LIST", met.shake, NoHost, met.challenge) = Command(q, "LIST", q.shake, NoHost, q.challenge)
    BY <1>10 DEF Command
  <2> QED BY <1>6, <1>7, <1>8, <1>10, <2>1 DEF Before
<1>12. /\ let \in Panels /\ Rests(met, let) /\ let.pending = met.pending
       /\ let.result = met.result \/ (~met.pending /\ let.result = "IDLE")
  BY <1>9, AdmissionRests
<1> HIDE DEF let
<1>13. selected \in Targets BY <1>1, <1>12, PanelFields
<1> HIDE DEF selected
<1>14. kept \in Panels /\ Rests(let, kept) /\ kept.result = let.result /\ kept.pending = let.pending
  BY <1>12, <1>13, SelectedRests
<1> HIDE DEF kept
<1>15. /\ Rests(kept, r) /\ (~kept.pending => r = kept)
       /\ r.result # kept.result /\ r.result \in Carried => Proof(kept, r)
  BY <1>3, <1>14, JudgeRests
<1>16. r.result # q.result /\ r.result \in Carried OBVIOUS
<1> HIDE DEF r
<1>17. kept.result # r.result /\ kept.result = q.result BY <1>10, <1>12, <1>14, <1>15, <1>16 DEF Carried
<1>18. Proof(kept, r) BY <1>15, <1>16, <1>17
<1>19. Before(n, p, kept, cs) BY <1>11, <1>12, <1>14, RestsChain, RestsShown
<1>20. Rests(met, kept) /\ Rests(met, r) BY <1>12, <1>14, <1>15, RestsChain
<1>21. Numbered(p, kept, cs) BY <1>10, <1>20 DEF Numbered, Rests
<1>22. kept.client = r.client /\ kept.request = r.request BY <1>15 DEF Rests
<1> QED BY <1>14, <1>16, <1>17, <1>18, <1>19, <1>21, <1>22, ProofHolds DEF r

(* A packet of the publisher arrives. *)
LEMMA ObserveBefore ==
    ASSUME NEW n, NEW o, NEW p, NEW q, NEW cs, NEW w, Good(n, o, p, q, cs, w), p.out # NoPacket
    PROVE  /\ Observe(q, p.out, p.seq) \in Panels /\ Before(n, p, Observe(q, p.out, p.seq), cs)
           /\ Observe(q, p.out, p.seq).client = q.client /\ Observe(q, p.out, p.seq).counter = q.counter
           /\ Observe(q, p.out, p.seq).result = q.result
<1> DEFINE packet == p.out
           c == CommitSession(q, packet.session)
           st == [c EXCEPT !.status = packet, !.sseq = p.seq, !.sfresh = TRUE]
           list == [gen |-> packet.gen, peers |-> packet.peers]
           ls == [c EXCEPT !.list = list, !.lseq = p.seq, !.lfresh = TRUE]
           r == Observe(q, p.out, p.seq)
<1>1. p \in Publishers /\ q \in Panels /\ Shown(n, p, q, cs) /\ Told(n, o, p, cs) /\ Before(n, p, q, cs)
  BY ShownBefore DEF Good
<1>2. p.seq \in Nat /\ p.session \in Nat \ {0} /\ packet \in StatusPackets \cup ListPackets
  BY <1>1, PublisherFields DEF Packets
<1>3. packet.session = p.session BY <1>1 DEF Told
<1>4. /\ c \in Panels /\ c.session = p.session /\ c.client = q.client /\ c.counter = q.counter
      /\ c.observed = q.observed /\ c.status = q.status /\ c.list = q.list /\ c.waiting = q.waiting
      /\ c.challenge = q.challenge /\ c.shake = q.shake /\ c.request = q.request /\ c.pending = q.pending
      /\ c.opcode = q.opcode /\ c.target = q.target /\ c.result = q.result
      /\ c.sfresh => q.sfresh
      /\ c.sfresh => c.session = q.session
  <2> DEFINE d == [q EXCEPT !.session = p.session, !.sseq = 0, !.lseq = 0, !.sfresh = FALSE, !.lfresh = FALSE]
  <2>1. CASE q.session = p.session
    <3>1. c = q BY <1>3, <2>1 DEF CommitSession
    <3> QED BY <1>1, <2>1, <3>1
  <2>2. CASE q.session # p.session
    <3>1. c = d BY <1>3, <2>2 DEF CommitSession
    <3>2. d \in Panels BY <1>1, <1>2 DEF Panels
    <3>3. /\ d.session = p.session /\ d.client = q.client /\ d.counter = q.counter
          /\ d.observed = q.observed /\ d.status = q.status /\ d.list = q.list /\ d.waiting = q.waiting
          /\ d.challenge = q.challenge /\ d.shake = q.shake /\ d.request = q.request /\ d.pending = q.pending
          /\ d.opcode = q.opcode /\ d.target = q.target /\ d.result = q.result /\ d.sfresh = FALSE
      BY <1>1 DEF Panels
    <3> HIDE DEF d, c
    <3> QED BY <3>1, <3>2, <3>3
  <2> QED BY <2>1, <2>2
<1>5. r \in {q, st, ls} /\ (packet.kind = "status" => r \in {q, st}) /\ (packet.kind # "status" => r \in {q, ls})
  BY DEF Observe
<1> HIDE DEF c
<1>6. ASSUME NEW x \in Panels, /\ x.session = c.session /\ x.client = c.client /\ x.counter = c.counter
             /\ x.observed = c.observed /\ x.waiting = c.waiting
             /\ x.challenge = c.challenge /\ x.shake = c.shake /\ x.request = c.request /\ x.pending = c.pending
             /\ x.opcode = c.opcode /\ x.target = c.target,
             x.sfresh => x.status.kind = "status",
             x.status.kind = "status" => Honest(x.status, n, cs) /\ Seen(x.status.native, n),
             Listing(x.list.gen, x.list.peers, n)
      PROVE  Before(n, p, x, cs)
  <2>1. x.session = p.session /\ p.session # 0 /\ p.session <= p.session BY <1>2, <1>4, <1>6
  <2>2. x.waiting => x.observed # 0 /\ x.observed = q.session /\ x.shake <= x.counter /\ x.shake # 0
    BY <1>1, <1>4, <1>6 DEF Shown
  <2>3. x.waiting /\ x.observed = x.session => Command(x, "LIST", x.shake, NoHost, x.challenge) \in cs
    <3> SUFFICES ASSUME x.waiting, x.observed = x.session
                 PROVE  Command(x, "LIST", x.shake, NoHost, x.challenge) \in cs
      OBVIOUS
    <3>1. Command(x, "LIST", x.shake, NoHost, x.challenge) = Command(q, "LIST", q.shake, NoHost, q.challenge)
      BY <1>4, <1>6, <2>2 DEF Command
    <3> QED BY <1>1, <1>4, <1>6, <3>1 DEF Shown
  <2>4. x.request <= x.counter BY <1>1, <1>4, <1>6 DEF Shown
  <2>5. x.pending =>
          /\ x.opcode # "LIST"
          /\ \E d \in cs : d.client = x.client /\ d.request = x.request /\ d.opcode = x.opcode /\ d.target = x.target
    BY <1>1, <1>4, <1>6 DEF Shown
  <2> QED BY <1>6, <2>1, <2>2, <2>3, <2>4, <2>5 DEF Before
<1>7. CASE r = q BY <1>1, <1>7
<1>8. CASE packet.kind = "status" /\ r = st
  <2>1. packet \in StatusPackets BY <1>2, <1>8 DEF ListPackets
  <2>2. st \in Panels BY <1>2, <1>4, <2>1 DEF Panels
  <2>3. /\ st.session = c.session /\ st.client = c.client /\ st.counter = c.counter /\ st.result = c.result
        /\ st.observed = c.observed /\ st.waiting = c.waiting /\ st.list = c.list /\ st.status = packet
        /\ st.challenge = c.challenge /\ st.shake = c.shake /\ st.request = c.request /\ st.pending = c.pending
        /\ st.opcode = c.opcode /\ st.target = c.target
    BY <1>4 DEF Panels
  <2>4. Honest(packet, n, cs) /\ Seen(packet.native, n) BY <1>1, <1>8 DEF Told
  <2>5. Listing(q.list.gen, q.list.peers, n) BY <1>1 DEF Shown
  <2> HIDE DEF st, r, packet
  <2>6. Before(n, p, st, cs) BY <1>4, <1>6, <1>8, <2>2, <2>3, <2>4, <2>5
  <2> QED BY <1>4, <1>8, <2>2, <2>3, <2>6 DEF r
<1>9. CASE packet.kind # "status" /\ r = ls
  <2>1. packet \in ListPackets BY <1>2, <1>9 DEF StatusPackets
  <2>2. /\ list \in [gen : Nat, peers : Peers] /\ list.gen = packet.gen /\ list.peers = packet.peers
        /\ packet.kind = "list"
    BY <2>1 DEF ListPackets
  <2> HIDE DEF list
  <2>3. ls \in Panels BY <1>2, <1>4, <2>2 DEF Panels
  <2>4. /\ ls.session = c.session /\ ls.client = c.client /\ ls.counter = c.counter /\ ls.result = c.result
        /\ ls.observed = c.observed /\ ls.waiting = c.waiting /\ ls.list = list /\ ls.status = c.status
        /\ ls.challenge = c.challenge /\ ls.shake = c.shake /\ ls.request = c.request /\ ls.pending = c.pending
        /\ ls.opcode = c.opcode /\ ls.target = c.target /\ ls.sfresh = c.sfresh
    BY <1>4 DEF Panels
  <2>5. Listing(packet.gen, packet.peers, n) BY <1>1, <2>2 DEF Told
  <2>6. q.sfresh => q.status.kind = "status" BY <1>1 DEF Shown
  <2>7. q.status.kind = "status" => Honest(q.status, n, cs) /\ Seen(q.status.native, n) BY <1>1 DEF Shown
  <2> HIDE DEF ls, r, packet
  <2>8. Before(n, p, ls, cs) BY <1>4, <1>6, <2>2, <2>3, <2>4, <2>5, <2>6, <2>7
  <2> QED BY <1>4, <1>9, <2>3, <2>4, <2>8 DEF r
<1> QED BY <1>5, <1>7, <1>8, <1>9

(* The panel's own steps without a command. *)
LEMMA GoodPanel ==
    ASSUME NEW n, NEW o, NEW p, NEW q, NEW cs, NEW w, Good(n, o, p, q, cs, w),
           NEW r \in Panels, Shown(n, p, r, cs), r.client = q.client, r.counter = q.counter
    PROVE  Good(n, o, p, r, cs, w)
<1>1. Numbered(p, r, cs) BY DEF Good, Numbered
<1>2. Ordered(p, r, cs, w) BY DEF Good, Ordered
<1> QED BY <1>1, <1>2 DEF Good

(* A command that is not behind any other joins the queue. *)
LEMMA QueueGrows ==
    ASSUME NEW p \in Publishers, NEW q \in Panels, NEW cs, NEW w, Numbered(p, q, cs), Ordered(p, q, cs, w),
           NEW c \in cs, c.client = q.client \/ \A d \in cs : d.client <= c.client,
           NEW v, v = w \/ v = Append(w, c)
    PROVE  Ordered(p, q, cs, v)
<1> DEFINE a == Len(w)
<1>1. CASE v = w BY <1>1
<1>2. CASE v = Append(w, c)
  <2>1. w \in Seq(Commands) /\ a \in Nat /\ c \in Commands BY LenProperties DEF Ordered, Numbered
  <2>2. v \in Seq(Commands) /\ Len(v) = a + 1 /\ v[a + 1] = c /\ \A i \in 1..a : v[i] = w[i]
    BY <1>2, <2>1, AppendProperties
  <2>3. /\ \A i \in 1..a : w[i] \in cs /\ p.client <= w[i].client
        /\ \A i, j \in 1..a : i <= j => w[i].client <= w[j].client
    BY DEF Ordered
  <2>4. c.client \in Nat /\ p.client \in Nat BY <2>1, PublisherFields DEF Commands
  <2>5. \A d \in cs : d.client <= c.client BY <2>4 DEF Numbered
  <2>6. p.client <= c.client
    <3>1. CASE p.client = 0 BY <2>4, <3>1
    <3>2. CASE p.client # 0
      <4>1. PICK d \in cs : d.client = p.client BY <3>2 DEF Ordered
      <4> QED BY <2>5, <4>1
    <3> QED BY <3>1, <3>2
  <2> HIDE DEF a
  <2>7. 1..(a + 1) = 1..a \cup {a + 1} /\ \A i \in 1..a : ~(a + 1 <= i) BY <2>1
  <2>8. \A i \in 1..(a + 1) : v[i] \in cs /\ p.client <= v[i].client BY <2>2, <2>3, <2>6, <2>7
  <2>9. \A i, j \in 1..(a + 1) : i <= j => v[i].client <= v[j].client
    <3>1. \A i \in 1..a : w[i].client <= c.client BY <2>3, <2>5
    <3>2. c.client <= c.client BY <2>4
    <3> QED BY <2>2, <2>3, <2>7, <3>1, <3>2
  <2> QED BY <2>2, <2>8, <2>9 DEF Ordered
<1> QED BY <1>1, <1>2

(* A new command of the panel, which may wait in the controller's queue. *)
LEMMA GoodAired ==
    ASSUME NEW n, NEW o, NEW p, NEW q, NEW cs, NEW w, Good(n, o, p, q, cs, w),
           NEW c \in Commands, c.client = q.client, c.request = q.counter + 1, c.session <= p.session,
           NEW ds, ds = cs \cup {c},
           NEW r \in Panels, Shown(n, p, r, ds), r.client = q.client, r.counter = q.counter + 1,
           NEW v, v = w \/ v = Append(w, c)
    PROVE  Good(n, o, p, r, ds, v)
<1>1. /\ n \in Natives /\ p \in Publishers /\ q \in Panels /\ cs \subseteq Commands /\ q.counter \in Nat
      /\ q.client \in Nat \ {0} /\ p.client \in Nat
      /\ \A d \in cs : d.client \in Nat \ {0} /\ d.request \in Nat
  BY PanelFields, PublisherFields DEF Good, Policy, Numbered, Commands
<1>2. \A d \in cs : d.client <= q.client /\ (d.client = q.client => d.request <= q.counter) /\ ~SameKey(d, c)
  BY <1>1 DEF Good, Numbered, SameKey
<1>3. Numbered(p, r, ds)
  <2>1. \A d, e \in ds : SameKey(d, e) => d = e
    <3>1. \A d, e \in cs : SameKey(d, e) => d = e BY DEF Good, Numbered
    <3>2. \A d \in cs : ~SameKey(d, c) /\ ~SameKey(c, d) BY <1>2 DEF SameKey
    <3> QED BY <3>1, <3>2
  <2>2. \A d \in cs : d.session <= p.session BY DEF Good, Numbered
  <2>3. \A d \in ds : d.client <= r.client /\ (d.client = r.client => d.request <= r.counter)
    BY <1>1, <1>2
  <2> QED BY <1>1, <2>1, <2>2, <2>3 DEF Numbered
<1>4. Ordered(p, r, ds, v)
  <2>1. Ordered(p, q, cs, w) BY DEF Good
  <2>2. Ordered(p, r, ds, w) BY <2>1 DEF Ordered
  <2> QED BY <1>1, <1>3, <2>2, QueueGrows
<1>5. Once(n, o, p, ds)
  <2>1. Once(n, o, p, cs) BY DEF Good
  <2>2. \A by : Aired(by, cs) => Aired(by, ds) BY DEF Aired
  <2>3. ~Taken(c, n, o)
    <3>1. \A by : Aired(by, cs) /\ SameKey(c, by) => FALSE BY <1>1, <1>2 DEF Aired, SameKey, Asks1
    <3> QED BY <2>1, <3>1 DEF Taken, Once
  <2> QED BY <2>1, <2>2, <2>3 DEF Once
<1>6. Told(n, o, p, ds)
  <2>1. Told(n, o, p, cs) BY DEF Good
  <2>2. p.out.kind = "status" => Honest(p.out, n, ds) BY <2>1 DEF Told, Honest
  <2> QED BY <2>1, <2>2 DEF Told
<1> QED BY <1>3, <1>4, <1>5, <1>6 DEF Good

-------------------------------------------------------------------------------
(* Every step keeps the invariant. *)

LEMMA RestingPanel ==
    ASSUME IInv, NEW r \in Panels, Rests(panel, r)
    PROVE  Good(native, own, pub, r, aired, queue)
<1>1. Shown(native, pub, r, aired) BY RestsShown DEF IInv, Good
<1>2. r.client = panel.client /\ r.counter = panel.counter BY DEF Rests
<1> QED BY <1>1, <1>2, GoodPanel DEF IInv

LEMMA TickingPanel ==
    ASSUME IInv, NEW q \in Panels, Before(native, pub, q, aired), q.client = panel.client, q.counter = panel.counter
    PROVE  Good(native, own, pub, Tick(q), aired, queue)
<1>1. native \in Natives BY DEF IInv, Good, Policy
<1>2. /\ Tick(q) \in Panels /\ Shown(native, pub, Tick(q), aired)
      /\ Tick(q).client = q.client /\ Tick(q).counter = q.counter
  BY <1>1, TickKeeps
<1> QED BY <1>2, GoodPanel DEF IInv

LEMMA ShakeKeeps == ASSUME IInv, Shake PROVE IInv'
<1> DEFINE c == HandshakeCommand(panel)
           k == panel.counter + 1
           r == [panel EXCEPT !.pending = FALSE, !.counter = k, !.shake = k, !.challenge = panel.sseq, !.waiting = TRUE]
<1>1. panel \in Panels /\ Shown(native, pub, panel, aired) /\ panel.sfresh BY DEF IInv, Good, Shake, CanShake
<1>2. /\ panel.counter \in Nat /\ panel.sseq \in Nat /\ panel.client \in Nat \ {0} /\ panel.session \in Nat
      /\ k \in Nat \ {0}
  BY <1>1, PanelFields
<1>3. panel.session # 0 /\ panel.observed = panel.session /\ panel.session <= pub.session BY <1>1 DEF Shown
<1>4. /\ c \in Commands /\ c.client = panel.client /\ c.request = k /\ c.session = panel.session
  BY <1>2, <1>3 DEF HandshakeCommand, Command, Commands, Opcodes, Targets
<1>5. panel' = r BY DEF Shake, Handshake
<1>6. Command(r, "LIST", r.shake, NoHost, r.challenge) = c BY <1>1 DEF HandshakeCommand, Command, Panels
<1> HIDE DEF k, c
<1>7. r \in Panels BY <1>1, <1>2 DEF Panels
<1>8. /\ r.client = panel.client /\ r.counter = k /\ r.session = panel.session /\ r.observed = panel.observed
      /\ r.status = panel.status /\ r.sfresh = panel.sfresh /\ r.list = panel.list /\ r.waiting = TRUE
      /\ r.shake = k /\ r.request = panel.request /\ r.pending = FALSE
  BY <1>1 DEF Panels
<1> HIDE DEF r
<1>9. Shown(native, pub, r, aired \cup {c})
  <2>1. panel.status.kind = "status" => Honest(panel.status, native, aired \cup {c})
    BY <1>1 DEF Shown, Honest
  <2>2. k <= k BY <1>2
  <2>3. r.request <= r.counter
    <3>1. panel.request <= panel.counter /\ panel.request \in Nat BY <1>1, PanelFields DEF Shown
    <3> QED BY <1>2, <1>8, <3>1 DEF k
  <2> QED BY <1>1, <1>2, <1>3, <1>6, <1>8, <2>1, <2>2, <2>3 DEF Shown
<1>10. aired' = aired \cup {c} /\ (queue' = queue \/ queue' = Append(queue, c)) /\ UNCHANGED <<native, own, pub>>
  BY DEF Shake, Send, c
<1>11. Good(native, own, pub, panel, aired, queue) BY DEF IInv
<1>12. Good(native, own, pub, r, aired', queue')
  <2>1. /\ c \in Commands /\ c.client = panel.client /\ c.request = panel.counter + 1 /\ c.session <= pub.session
        /\ r.client = panel.client /\ r.counter = panel.counter + 1 /\ (queue' = queue \/ queue' = Append(queue, c))
        /\ aired' = aired \cup {c} /\ Shown(native, pub, r, aired')
    BY <1>3, <1>4, <1>8, <1>9, <1>10 DEF k
  <2> QED BY <1>7, <1>11, <2>1, GoodAired
<1> QED BY <1>5, <1>10, <1>12 DEF IInv

LEMMA ShakeAgainKeeps == ASSUME IInv, ShakeAgain PROVE IInv'
<1> DEFINE c == Command(panel, "LIST", panel.shake, NoHost, panel.challenge)
<1>1. c \in aired /\ c.client = panel.client
  <2>1. c \in aired BY DEF IInv, Good, Shown, ShakeAgain
  <2> QED BY <2>1 DEF Command
<1>2. /\ aired' = aired \cup {c} /\ (queue' = queue \/ queue' = Append(queue, c))
      /\ UNCHANGED <<native, own, pub, panel>>
  BY DEF ShakeAgain, Send
<1> HIDE DEF c
<1>3. aired' = aired BY <1>1, <1>2
<1>4. Ordered(pub, panel, aired, queue') BY <1>1, <1>2, QueueGrows DEF IInv, Good
<1> QED BY <1>2, <1>3, <1>4 DEF IInv, Good

LEMMA RadioRepeatsKeeps == ASSUME IInv, RadioRepeats PROVE IInv'
<1>1. PICK c \in aired : (\A other \in aired : other.client <= c.client) /\ queue' = Append(queue, c)
  BY DEF RadioRepeats
<1>2. UNCHANGED <<native, own, pub, panel, aired>> BY DEF RadioRepeats
<1>3. Ordered(pub, panel, aired, queue') BY <1>1, QueueGrows DEF IInv, Good
<1> QED BY <1>2, <1>3 DEF IInv, Good

LEMMA ShakeTimesOutKeeps == ASSUME IInv, ShakeTimesOut PROVE IInv'
<1>1. panel \in Panels /\ Before(native, pub, panel, aired) BY ShownBefore DEF IInv, Good
<1>2. Defer(panel) \in Panels /\ Rests(panel, Defer(panel)) BY <1>1, DeferRests
<1>3. Before(native, pub, Defer(panel), aired) BY <1>1, <1>2, RestsShown
<1>4. Defer(panel).client = panel.client /\ Defer(panel).counter = panel.counter BY <1>2 DEF Rests
<1>5. Good(native, own, pub, Tick(Defer(panel)), aired, queue) BY <1>2, <1>3, <1>4, TickingPanel
<1> QED BY <1>5 DEF ShakeTimesOut, IInv

LEMMA ChooseKeeps == ASSUME IInv, NEW h \in Hosts, Choose(h) PROVE IInv'
<1>1. panel \in Panels /\ h \in Targets BY DEF IInv, Good, Targets
<1>2. Good(native, own, pub, [panel EXCEPT !.selected = h], aired, queue) BY <1>1, SelectedRests, RestingPanel
<1> QED BY <1>2 DEF Choose, IInv

LEMMA RequestTimesOutKeeps == ASSUME IInv, RequestTimesOut PROVE IInv'
<1>1. panel \in Panels /\ "TIMED_OUT" \in Results BY DEF IInv, Good, Results
<1>2. Good(native, own, pub, Finish(panel, "TIMED_OUT"), aired, queue) BY <1>1, FinishRests, RestingPanel
<1> QED BY <1>2 DEF RequestTimesOut, IInv

(* The panel's observations grow old. *)
LEMMA StaleRests ==
    ASSUME NEW q \in Panels, NEW status \in BOOLEAN, NEW list \in BOOLEAN
    PROVE  LET r == [q EXCEPT !.sfresh = @ /\ ~status, !.lfresh = @ /\ ~list]
           IN  r \in Panels /\ Rests(q, r) /\ r.result = q.result
<1> DEFINE a == q.sfresh /\ ~status
           b == q.lfresh /\ ~list
           r == [q EXCEPT !.sfresh = a, !.lfresh = b]
<1>1. a \in BOOLEAN /\ b \in BOOLEAN /\ (a => q.sfresh) BY PanelFields
<1> HIDE DEF a, b
<1>2. r \in Panels BY <1>1 DEF Panels
<1>3. Rests(q, r) /\ r.result = q.result BY <1>1 DEF Rests, Panels
<1> HIDE DEF r
<1>4. r \in Panels /\ Rests(q, r) /\ r.result = q.result BY <1>2, <1>3
<1> QED BY <1>4 DEF r, a, b

LEMMA GoStaleKeeps == ASSUME IInv, GoStale PROVE IInv'
<1>1. PICK status \in BOOLEAN, list \in BOOLEAN :
          panel' = Tick([panel EXCEPT !.sfresh = @ /\ ~status, !.lfresh = @ /\ ~list])
  BY DEF GoStale
<1> DEFINE r == [panel EXCEPT !.sfresh = @ /\ ~status, !.lfresh = @ /\ ~list]
<1>2. panel \in Panels /\ Before(native, pub, panel, aired) BY ShownBefore DEF IInv, Good
<1>3. r \in Panels /\ Rests(panel, r) BY <1>2, StaleRests
<1> HIDE DEF r
<1>4. Before(native, pub, r, aired) BY <1>2, <1>3, RestsShown
<1>5. r.client = panel.client /\ r.counter = panel.counter BY <1>3 DEF Rests
<1>6. Good(native, own, pub, Tick(r), aired, queue) BY <1>3, <1>4, <1>5, TickingPanel
<1> QED BY <1>1, <1>6 DEF GoStale, IInv, r

LEMMA LinkInterruptedKeeps == ASSUME IInv, LinkInterrupted PROVE IInv'
<1> DEFINE cut == [panel EXCEPT !.sfresh = FALSE, !.lfresh = FALSE, !.selected = NoHost, !.observed = 0,
                                !.admitted = 0, !.waiting = FALSE, !.challenge = 0, !.shake = 0]
           result == IF Holding(panel) THEN "RESTARTED" ELSE "IDLE"
           r == Finish(cut, result)
<1>1. panel \in Panels /\ Shown(native, pub, panel, aired) /\ NoHost \in Targets BY DEF IInv, Good, Targets
<1>2. InvalidateLink(panel) = r BY <1>1 DEF InvalidateLink, ResetAdmission, Panels
<1>3. cut \in Panels BY <1>1 DEF Panels
<1>4. /\ cut.client = panel.client /\ cut.counter = panel.counter /\ cut.session = panel.session
      /\ cut.observed = 0 /\ cut.status = panel.status /\ cut.sfresh = FALSE /\ cut.list = panel.list
      /\ cut.waiting = FALSE /\ cut.request = panel.request
  BY <1>1 DEF Panels
<1>5. result \in Results BY DEF Results
<1> HIDE DEF cut, result
<1>6. r \in Panels /\ Rests(cut, r) /\ r.pending = FALSE BY <1>3, <1>5, FinishRests
<1> HIDE DEF r
<1>7. Shown(native, pub, r, aired) BY <1>1, <1>4, <1>6 DEF Shown, Rests
<1>8. r.client = panel.client /\ r.counter = panel.counter BY <1>4, <1>6 DEF Rests
<1>9. Good(native, own, pub, r, aired, queue) BY <1>6, <1>7, <1>8, GoodPanel DEF IInv
<1> QED BY <1>2, <1>9 DEF LinkInterrupted, IInv

(* A panel that has just started knows nothing. *)
LEMMA NewPanel ==
    ASSUME NEW client \in Nat \ {0}
    PROVE  /\ InitPanel(client) \in Panels /\ InitPanel(client).client = client /\ InitPanel(client).counter = 0
           /\ \A n, p, cs : p.session \in Nat => Shown(n, p, InitPanel(client), cs)
<1> DEFINE r == InitPanel(client)
<1>1. NoList \in [gen : Nat, peers : Peers] /\ NoList.gen = 0 BY DEF NoList, Peers, Marks
<1>2. BlankStatus.kind = "none" BY DEF BlankStatus
<1>3. r \in Panels
  <2> HIDE DEF r
  <2>1. NoHost \in Targets /\ "LIST" \in Opcodes /\ "IDLE" \in Results BY DEF Targets, Opcodes, Results
  <2> QED BY <1>1, <2>1 DEF r, InitPanel, Panels
<1>4. /\ r.client = client /\ r.counter = 0 /\ r.session = 0 /\ r.observed = 0 /\ r.sfresh = FALSE
      /\ r.status = BlankStatus /\ r.list = NoList /\ r.waiting = FALSE /\ r.pending = FALSE /\ r.request = 0
  BY DEF InitPanel
<1> HIDE DEF r
<1>5. \A n, p, cs : p.session \in Nat => Shown(n, p, r, cs)
  <2> TAKE n, p, cs
  <2> HAVE p.session \in Nat
  <2>1. 0 <= p.session /\ 0 <= 0 OBVIOUS
  <2>2. Listing(NoList.gen, NoList.peers, n) BY <1>1 DEF Listing
  <2> QED BY <1>2, <1>4, <2>1, <2>2 DEF Shown
<1> QED BY <1>3, <1>4, <1>5 DEF r

LEMMA PanelRestartsKeeps == ASSUME IInv, PanelRestarts PROVE IInv'
<1> DEFINE k == panel.client + 1
           r == InitPanel(k)
<1>1. /\ panel \in Panels /\ panel.client \in Nat \ {0} /\ pub \in Publishers /\ pub.session \in Nat
      /\ pub.client \in Nat
  BY PanelFields, PublisherFields DEF IInv, Good
<1>2. k \in Nat \ {0} BY <1>1
<1>3. panel' = r BY DEF PanelRestarts
<1> HIDE DEF k
<1>4. r \in Panels /\ r.client = k /\ r.counter = 0 /\ Shown(native, pub, r, aired) BY <1>1, <1>2, NewPanel
<1> HIDE DEF r
<1>5. Numbered(pub, r, aired)
  <2>1. Numbered(pub, panel, aired) BY DEF IInv, Good
  <2>2. \A c \in aired : c.client \in Nat /\ c.client <= panel.client BY <2>1 DEF Numbered, Commands
  <2>3. \A c \in aired : c.client <= k /\ c.client # k BY <1>1, <2>2 DEF k
  <2> QED BY <1>4, <2>1, <2>3 DEF Numbered
<1>6. Ordered(pub, r, aired, queue)
  <2>1. Ordered(pub, panel, aired, queue) BY DEF IInv, Good
  <2>2. pub.client <= k
    <3>1. pub.client <= panel.client BY <2>1 DEF Ordered
    <3> QED BY <1>1, <3>1 DEF k
  <2> QED BY <1>4, <2>1, <2>2 DEF Ordered
<1>7. Good(native, own, pub, r, aired, queue) BY <1>4, <1>5, <1>6 DEF IInv, Good
<1> QED BY <1>3, <1>7 DEF PanelRestarts, IInv

LEMMA PressKeeps == ASSUME IInv, NEW opcode \in Asks, Press(opcode) PROVE IInv'
<1> DEFINE c == BeginCommand(panel, opcode)
           k == panel.counter + 1
           aim == Aimed(panel, opcode)
           op == panel.status.native.op
           r == [panel EXCEPT !.counter = k, !.request = k, !.opcode = opcode, !.target = aim,
                              !.baseline = panel.sseq, !.baseOp = op, !.operation = 0, !.own = FALSE,
                              !.pending = TRUE, !.result = "PENDING"]
<1>1. /\ panel \in Panels /\ Shown(native, pub, panel, aired) /\ panel.sfresh /\ panel.session # 0
      /\ pub \in Publishers
  BY DEF IInv, Good, Press, CanBegin, CanManage
<1>2. opcode \in Opcodes /\ opcode # "LIST" BY ControlAssumption
<1>3. /\ panel.counter \in Nat /\ panel.sseq \in Nat /\ panel.client \in Nat \ {0} /\ panel.session \in Nat
      /\ panel.selected \in Targets /\ k \in Nat \ {0} /\ k <= k
  BY <1>1, PanelFields
<1>4. op \in Nat /\ panel.status.native.bonds \in Nat
  <2>1. panel.status \in {BlankStatus} \cup StatusPackets BY <1>1, PanelFields
  <2>2. panel.status \in StatusPackets BY <1>1, <2>1 DEF Shown, BlankStatus
  <2>3. panel.status.native \in Statuses BY <2>2 DEF StatusPackets
  <2> QED BY <2>3 DEF Statuses
<1>5. aim \in Targets BY <1>3 DEF Aimed, Targets
<1>6. panel.observed = panel.session /\ panel.session <= pub.session BY <1>1 DEF Shown
<1>7. /\ c \in Commands /\ c.client = panel.client /\ c.request = k /\ c.session = panel.session
      /\ c.opcode = opcode /\ c.target = aim
  <2>1. k \in Nat \ {0} BY <1>3
  <2>2. c = [session |-> panel.session, client |-> panel.client, request |-> k, opcode |-> opcode,
             gen |-> IF opcode \in {"SELECT", "ALIAS"} THEN panel.status.native.bonds ELSE 0, target |-> aim]
    BY DEF BeginCommand, Command
  <2> HIDE DEF c, k, aim
  <2> QED BY <1>1, <1>2, <1>3, <1>4, <1>5, <2>2 DEF Commands
<1>8. Begin(panel, opcode) = r BY DEF Begin
<1> HIDE DEF k, c, aim, op
<1>9. "PENDING" \in Results BY DEF Results
<1>10. r \in Panels BY <1>1, <1>2, <1>3, <1>4, <1>5, <1>9 DEF Panels
<1>11. /\ r.client = panel.client /\ r.counter = k /\ r.session = panel.session /\ r.observed = panel.observed
       /\ r.status = panel.status /\ r.sfresh = panel.sfresh /\ r.list = panel.list /\ r.waiting = panel.waiting
       /\ r.challenge = panel.challenge /\ r.shake = panel.shake /\ r.request = k /\ r.pending = TRUE
       /\ r.opcode = opcode /\ r.target = aim
  BY <1>1 DEF Panels
<1> HIDE DEF r
<1>12. panel.waiting =>
          /\ r.shake <= r.counter /\ r.shake # 0
          /\ Command(r, "LIST", r.shake, NoHost, r.challenge) \in aired
  <2> SUFFICES ASSUME panel.waiting
               PROVE  /\ r.shake <= r.counter /\ r.shake # 0
                      /\ Command(r, "LIST", r.shake, NoHost, r.challenge) \in aired
    OBVIOUS
  <2>1. Command(r, "LIST", r.shake, NoHost, r.challenge)
        = Command(panel, "LIST", panel.shake, NoHost, panel.challenge)
    BY <1>11 DEF Command
  <2>2. panel.shake <= panel.counter /\ panel.shake \in Nat BY <1>1, PanelFields DEF Shown
  <2>3. panel.shake <= k BY <1>3, <2>2 DEF k
  <2> QED BY <1>1, <1>11, <2>1, <2>3 DEF Shown
<1>13. CASE aired' = aired \cup {c} /\ (queue' = queue \/ queue' = Append(queue, c)) /\ panel' = r
  <2>1. panel.status.kind = "status" => Honest(panel.status, native, aired') BY <1>1, <1>13 DEF Shown, Honest
  <2>2. \E d \in aired' : d.client = r.client /\ d.request = r.request /\ d.opcode = r.opcode /\ d.target = r.target
    BY <1>7, <1>11, <1>13
  <2>3. Shown(native, pub, r, aired') BY <1>1, <1>2, <1>3, <1>6, <1>11, <1>12, <1>13, <2>1, <2>2 DEF Shown
  <2>4. c.request = panel.counter + 1 /\ c.session <= pub.session /\ r.counter = panel.counter + 1
    BY <1>6, <1>7, <1>11 DEF k
  <2>5. Good(native, own, pub, panel, aired, queue) BY DEF IInv
  <2>6. Good(native, own, pub, r, aired', queue') BY <1>7, <1>10, <1>11, <1>13, <2>3, <2>4, <2>5, GoodAired
  <2> QED BY <1>13, <2>6 DEF Press, IInv
<1>14. CASE UNCHANGED <<aired, queue>> /\ panel' = Finish(r, "NOT_SENT")
  <2> DEFINE s == Finish(r, "NOT_SENT")
  <2>1. "NOT_SENT" \in Results BY DEF Results
  <2>2. s \in Panels /\ Rests(r, s) /\ s.pending = FALSE BY <1>10, <2>1, FinishRests
  <2> HIDE DEF s
  <2>3. Shown(native, pub, s, aired) BY <1>1, <1>3, <1>11, <1>12, <2>2 DEF Shown, Rests, Command
  <2>4. s.client = panel.client /\ s.counter = k BY <1>11, <2>2 DEF Rests
  <2>5. Numbered(pub, s, aired)
    <3>1. \A d \in aired : d.client = panel.client => d.request <= k
      <4>1. \A d \in aired : d.request \in Nat BY DEF IInv, Good, Numbered, Commands
      <4>2. \A d \in aired : d.client = panel.client => d.request <= panel.counter BY DEF IInv, Good, Numbered
      <4> QED BY <1>3, <4>1, <4>2 DEF k
    <3> QED BY <2>4, <3>1 DEF IInv, Good, Numbered
  <2>6. Ordered(pub, s, aired, queue) BY <2>4 DEF IInv, Good, Ordered
  <2>7. Good(native, own, pub, s, aired, queue) BY <2>2, <2>3, <2>5, <2>6 DEF IInv, Good
  <2> QED BY <1>14, <2>7 DEF Press, IInv, s
<1> QED BY <1>8, <1>13, <1>14 DEF Press, Send, c

LEMMA TakeRequestKeeps == ASSUME IInv, TakeRequest PROVE IInv'
<1>1. PICK fate \in {"pending", pub.fate}, old \in BOOLEAN :
          LET known == ObserveCompletion(pub, fate)
              next == RequestHost(IF old THEN [known EXCEPT !.challenges = {}] ELSE known, own, Head(queue))
          IN  pub' = next.pub /\ own' = next.own
  BY DEF TakeRequest
<1> DEFINE known == ObserveCompletion(pub, fate)
           spent == [known EXCEPT !.challenges = {}]
           p == IF old THEN spent ELSE known
<1>2. Good(native, own, pub, panel, aired, queue) /\ pub \in Publishers BY DEF IInv, Good
<1>3. known \in Publishers /\ SameTalk(pub, known) BY <1>2, ObserveTalk
<1> HIDE DEF known
<1>4. spent \in Publishers /\ SameTalk(known, spent) BY <1>3 DEF Publishers, SameTalk
<1>5. Good(native, own, known, panel, aired, queue) BY <1>2, <1>3, GoodTalk
<1> HIDE DEF spent
<1>6. Good(native, own, spent, panel, aired, queue) BY <1>4, <1>5, GoodTalk
<1>7. Good(native, own, p, panel, aired, queue) BY <1>5, <1>6
<1>8. pub' = RequestHost(p, own, Head(queue)).pub /\ own' = RequestHost(p, own, Head(queue)).own
  BY <1>1 DEF known, spent
<1> HIDE DEF p
<1>9. queue # <<>> /\ queue' = Tail(queue) /\ UNCHANGED <<native, panel, aired>> BY DEF TakeRequest
<1>10. Good(native, own', pub', panel, aired, queue') BY <1>7, <1>8, <1>9, GoodRequest
<1> QED BY <1>9, <1>10 DEF IInv

LEMMA BadgeAsksKeeps == ASSUME IInv, NEW h \in Hosts, BadgeAsks(h) PROVE IInv'
<1>1. Good(native, own', pub', panel, aired, queue) BY GoodBadge DEF BadgeAsks, IInv
<1> QED BY <1>1 DEF BadgeAsks, IInv

LEMMA VolumeKeyKeeps == ASSUME IInv, VolumeKey PROVE IInv'
<1> DEFINE r == [own EXCEPT !.status = Observed(native), !.blocked = TRUE]
<1>1. native \in Natives /\ Policy(native) /\ Owning(native, own) /\ own \in Owners BY DEF IInv, Good, Policy, Owning
<1>2. own' = r BY DEF VolumeKey, ValidateInput
<1>3. Observed(native) \in Statuses /\ Seen(Observed(native), native) BY <1>1, ObservedSeen
<1>4. r \in Owners BY <1>1, <1>3 DEF Owners
<1>5. /\ r.status = Observed(native) /\ r.peers = own.peers /\ r.peerGen = own.peerGen /\ r.pending = own.pending
      /\ r.expected = own.expected
  BY <1>1 DEF Owners
<1> HIDE DEF r
<1>6. Owning(native, r) /\ SameWork(own, r) BY <1>1, <1>3, <1>4, <1>5 DEF Owning, SameWork
<1>7. Grows(native, native) BY <1>1, GrowsItself
<1>8. Good(native, r, pub, panel, aired, queue) BY <1>1, <1>6, <1>7, GoodWork DEF IInv
<1> QED BY <1>2, <1>8 DEF VolumeKey, IInv

LEMMA LoopTailKeeps == ASSUME IInv, LoopTail PROVE IInv'
<1> DEFINE called == AfterCall(own, native)
           held == Called(own, native)
<1>1. PICK c \in {called}, kind \in {"status", "list", "nothing"}, raises \in BOOLEAN, fate \in {"pending", pub.fate} :
      \E seen \in {c} \cup IF own.peerGen = c.status.bonds THEN {} ELSE NativeSteps(c) :
          LET look == IF CallRefused(own, native) THEN Called(own, native)
                      ELSE IF raises THEN Raised(Called(own, native), FALSE) ELSE Look(Called(own, native), c, seen)
              observed == ObserveCompletion(pub, fate)
              publishes == observed.fate = "none"
          IN  /\ native' = seen /\ own' = look
              /\ IF raises THEN Fault("raise") ELSE UNCHANGED faults
              /\ kind # "nothing" => publishes /\ observed.out = NoPacket
              /\ pub' = IF publishes THEN Publish(Settle(observed, look), look, kind) ELSE observed
              /\ halted' = (publishes /\ ListRaises(observed, look, kind))
              /\ pub'.seq <= MaxPackets
  BY DEF LoopTail
<1>2. PICK seen \in {c} \cup IF own.peerGen = c.status.bonds THEN {} ELSE NativeSteps(c) :
          LET look == IF CallRefused(own, native) THEN Called(own, native)
                      ELSE IF raises THEN Raised(Called(own, native), FALSE) ELSE Look(Called(own, native), c, seen)
              observed == ObserveCompletion(pub, fate)
              publishes == observed.fate = "none"
          IN  /\ native' = seen /\ own' = look
              /\ IF raises THEN Fault("raise") ELSE UNCHANGED faults
              /\ kind # "nothing" => publishes /\ observed.out = NoPacket
              /\ pub' = IF publishes THEN Publish(Settle(observed, look), look, kind) ELSE observed
              /\ halted' = (publishes /\ ListRaises(observed, look, kind))
              /\ pub'.seq <= MaxPackets
  BY <1>1
<1>3. c = called /\ seen \in {called} \cup NativeSteps(called)
  <2> HIDE DEF called
  <2> QED OBVIOUS
<1> DEFINE look == IF CallRefused(own, native) THEN held
                   ELSE IF raises THEN Raised(held, FALSE) ELSE Look(held, called, seen)
           observed == ObserveCompletion(pub, fate)
<1>4. Good(native, own, pub, panel, aired, queue) /\ pub \in Publishers BY DEF IInv, Good
<1>5. observed \in Publishers /\ SameTalk(pub, observed) BY <1>4, ObserveTalk
<1>6. native' = seen /\ own' = look
      /\ (pub' = observed \/ pub' = Publish(Settle(observed, look), look, kind))
  BY <1>2, <1>3
<1> HIDE DEF observed
<1>7. Good(native, own, observed, panel, aired, queue) BY <1>4, <1>5, GoodTalk
<1>8. Good(called, held, observed, panel, aired, queue) BY <1>7, GoodCalled
<1>9. Policy(called) /\ Owning(called, held) /\ called \in Natives BY <1>8 DEF Good, Policy
<1> HIDE DEF called, held
<1>10. Policy(seen) /\ Grows(called, seen) /\ seen.asked = called.asked /\ seen \in Natives
  <2>1. CASE seen = called BY <1>9, <2>1, GrowsItself
  <2>2. CASE seen \in NativeSteps(called) BY <1>9, <2>2, NativeKeeps DEF Policy
  <2> QED BY <1>3, <2>1, <2>2
<1>11. Owning(seen, look) /\ SameWork(held, look)
  <2>1. Owning(seen, held) BY <1>9, <1>10, OwnerGrows
  <2>2. SameWork(held, held) BY DEF SameWork
  <2>3. Owning(seen, Raised(held, FALSE)) /\ SameWork(held, Raised(held, FALSE)) BY <2>1, RaisedKeeps
  <2>4. Owning(seen, Look(held, called, seen)) /\ SameWork(held, Look(held, called, seen)) BY <1>9, <1>10, LookKeeps
  <2> QED BY <2>1, <2>2, <2>3, <2>4
<1> HIDE DEF look
<1>12. Good(seen, look, observed, panel, aired, queue) BY <1>8, <1>10, <1>11, GoodWork
<1>13. Good(seen, look, Settle(observed, look), panel, aired, queue) BY <1>12, GoodSettle
<1>14. Good(seen, look, Publish(Settle(observed, look), look, kind), panel, aired, queue) BY <1>13, GoodPublish
<1>15. UNCHANGED <<panel, queue, aired>> BY DEF LoopTail
<1> QED BY <1>6, <1>12, <1>14, <1>15 DEF IInv

LEMMA PacketSentKeeps == ASSUME IInv, PacketSent PROVE IInv'
<1>1. PICK arrives \in BOOLEAN, acknowledged \in BOOLEAN :
          /\ pub' = [pub EXCEPT !.fate = IF acknowledged THEN "acknowledged" ELSE "failed"]
          /\ panel' = IF arrives THEN Tick(Observe(panel, pub.out, pub.seq)) ELSE panel
  BY DEF PacketSent
<1>2. pub.out # NoPacket /\ UNCHANGED <<native, own, queue, aired>> BY DEF PacketSent
<1>3. Good(native, own, pub, panel, aired, queue) /\ pub \in Publishers BY DEF IInv, Good
<1>4. Good(native, own, pub, Tick(Observe(panel, pub.out, pub.seq)), aired, queue)
  BY <1>2, <1>3, ObserveBefore, TickingPanel
<1>5. Good(native, own, pub, panel', aired, queue) BY <1>1, <1>3, <1>4
<1>6. pub' \in Publishers /\ SameTalk(pub, pub') BY <1>1, <1>3 DEF Publishers, Fates, SameTalk
<1>7. Good(native, own, pub', panel', aired, queue) BY <1>5, <1>6, GoodTalk
<1> QED BY <1>2, <1>7 DEF IInv

LEMMA NativeStepKeeps == ASSUME IInv, Native PROVE IInv'
<1>1. Policy(native) /\ native \in Natives /\ Owning(native, own) BY DEF IInv, Good, Policy
<1>2. Policy(native') /\ Grows(native, native') /\ native'.asked = native.asked BY <1>1, NativeKeeps DEF Native
<1>3. Owning(native', own) BY <1>1, <1>2, OwnerGrows DEF Policy
<1>4. SameWork(own, own) BY DEF SameWork
<1>5. Good(native', own, pub, panel, aired, queue) BY <1>2, <1>3, <1>4, GoodWork DEF IInv
<1> QED BY <1>5 DEF Native, IInv

(* An owner and a publisher that have just started. *)
LEMMA NewOwner ==
    ASSUME NEW n, Policy(n)
    PROVE  /\ Owning(n, InitOwner(n)) /\ InitOwner(n).pending = NoCmd /\ InitOwner(n).expected = 0
<1> DEFINE o == InitOwner(n)
           a == Len(n.asked)
<1>1. /\ n \in Natives /\ n.status \in Statuses /\ n.peers \in Peers /\ n.status.bonds \in Nat /\ a \in Nat
      /\ n.peers = n.peersAt[n.status.bonds] /\ Seen(n.status, n)
  BY LogLengths DEF Policy, Natives, Statuses
<1>2. o \in Owners BY <1>1 DEF InitOwner, Owners, Targets
<1>3. /\ o.pending = NoCmd /\ o.expected = 0 /\ o.status = n.status /\ o.peers = n.peers
      /\ o.peerGen = n.status.bonds
  BY DEF InitOwner
<1> HIDE DEF o, a
<1>4. Listing(o.peerGen, o.peers, n) BY <1>1, <1>3 DEF Listing, Seen
<1>5. o.expected \in 0..a BY <1>1, <1>3
<1>6. Owning(n, o) BY <1>1, <1>2, <1>3, <1>4, <1>5 DEF Owning, a
<1> QED BY <1>3, <1>6 DEF o

LEMMA NewPublisher ==
    ASSUME NEW session \in Nat \ {0}
    PROVE  /\ InitPublisher(session) \in Publishers /\ InitPublisher(session).session = session
           /\ InitPublisher(session).client = 0 /\ InitPublisher(session).established = FALSE
           /\ InitPublisher(session).policy = FALSE /\ InitPublisher(session).alias = FALSE
           /\ InitPublisher(session).out = NoPacket
<1>1. NoRequest \in Shakes /\ 0 \in Answers /\ NoPacket \in Packets /\ "none" \in Fates
  BY DEF NoRequest, Shakes, Answers, Listed, Packets, Fates
<1> QED BY <1>1 DEF InitPublisher, Publishers

(* The controller's state at its start, whatever it was asked before. *)
LEMMA StartsGood ==
    ASSUME NEW n, Policy(n), NEW p \in Publishers, p.client = 0, p.established = FALSE, p.policy = FALSE,
           p.alias = FALSE, p.out = NoPacket, NEW q \in Panels, NEW cs, Numbered(p, q, cs), Shown(n, p, q, cs),
           \A i \in 1..Len(n.asked) : Aired(n.asked[i], cs),
           \A i, j \in 1..Len(n.asked) : n.asked[i].client # 0 /\ i # j => ~SameKey(n.asked[i], n.asked[j]),
           \A c \in cs : c.session = p.session => \A i \in 1..Len(n.asked) : ~SameKey(c, n.asked[i])
    PROVE  Good(n, InitOwner(n), p, q, cs, <<>>)
<1> DEFINE o == InitOwner(n)
<1>1. Owning(n, o) /\ o.pending = NoCmd /\ o.expected = 0 BY NewOwner
<1> HIDE DEF o
<1>2. Once(n, o, p, cs) BY <1>1 DEF Once, Taken
<1>3. Told(n, o, p, cs) BY <1>1 DEF Told, NoPacket
<1>4. Ordered(p, q, cs, <<>>)
  <2>1. <<>> \in Seq(Commands) /\ Len(<<>>) = 0 BY EmptySeq
  <2>2. 0 <= q.client BY PanelFields
  <2> QED BY <2>1, <2>2 DEF Ordered
<1> QED BY <1>1, <1>2, <1>3, <1>4 DEF Good, o

LEMMA RestartedKeeps ==
    ASSUME NEW n, Policy(n), NEW m, m = [n EXCEPT !.queue = NoCmd, !.status = Restarted(@)]
    PROVE  Policy(m) /\ Grows(n, m) /\ m.asked = n.asked
<1> DEFINE s == Restarted(n.status)
<1>1. n \in Natives /\ n.status \in Statuses BY DEF Policy, Natives
<1>2. s \in Statuses /\ s.bonds = n.status.bonds /\ s.op = 0
  <2>1. NoHost \in Targets BY DEF Targets
  <2> QED BY <1>1, <2>1 DEF Restarted, Statuses, Modes
<1> HIDE DEF s
<1>3. /\ m \in Natives /\ m.status = s /\ m.queue = NoCmd /\ m.peers = n.peers /\ m.peersAt = n.peersAt
      /\ m.asked = n.asked /\ m.done = n.done
  BY <1>1, <1>2 DEF Natives, s
<1>4. Seen(s, m)
  <2>1. n.status.bonds \in 1..Len(n.peersAt) BY DEF Policy, Seen
  <2>2. 0 \in 0..Len(n.asked)
    <3> DEFINE a == Len(n.asked)
    <3>1. a \in Nat BY <1>1, LogLengths
    <3> HIDE DEF a
    <3>2. 0 \in 0..a BY <3>1
    <3> QED BY <3>2 DEF a
  <2> QED BY <1>2, <1>3, <2>1, <2>2 DEF Seen
<1>5. Policy(m) BY <1>2, <1>3, <1>4 DEF Policy
<1>6. Grows(n, n) BY <1>1, GrowsItself
<1> QED BY <1>3, <1>5, <1>6 DEF Grows

LEMMA ControllerRestartsKeeps == ASSUME IInv, ControllerRestarts PROVE IInv'
<1> DEFINE s == pub.session + 1
           p == InitPublisher(s)
<1>1. /\ Good(native, own, pub, panel, aired, queue) /\ Policy(native) /\ native \in Natives /\ Owning(native, own)
      /\ pub \in Publishers /\ panel \in Panels /\ pub.session \in Nat /\ s \in Nat \ {0} /\ pub.session < s
  BY PublisherFields DEF IInv, Good, Policy
<1>2. /\ native' = [native EXCEPT !.queue = NoCmd, !.status = Restarted(@)] /\ own' = InitOwner(native')
      /\ pub' = p /\ queue' = <<>> /\ UNCHANGED <<panel, aired>>
  BY DEF ControllerRestarts
<1>3. Policy(native') /\ Grows(native, native') /\ native'.asked = native.asked BY <1>1, <1>2, RestartedKeeps
<1>4. Good(native', own, pub, panel, aired, queue)
  <2>1. Owning(native', own) /\ SameWork(own, own) BY <1>1, <1>3, OwnerGrows DEF Policy, SameWork
  <2> QED BY <1>1, <1>3, <2>1, GoodWork
<1> HIDE DEF s
<1>5. /\ p \in Publishers /\ p.session = s /\ p.client = 0 /\ p.established = FALSE /\ p.policy = FALSE
      /\ p.alias = FALSE /\ p.out = NoPacket
  BY <1>1, NewPublisher
<1> HIDE DEF p
<1>6. \A c \in aired : c.session <= pub.session /\ c.session \in Nat BY <1>1 DEF Good, Numbered, Commands
<1>7. \A c \in aired : c.session <= p.session /\ c.session # p.session BY <1>1, <1>5, <1>6
<1>8. Numbered(p, panel, aired) BY <1>1, <1>7 DEF Good, Numbered
<1>9. Shown(native', p, panel, aired)
  <2>1. Shown(native', pub, panel, aired) BY <1>4 DEF Good
  <2>2. panel.session <= p.session
    <3>1. panel.session <= pub.session /\ panel.session \in Nat BY <1>1, <2>1, PanelFields DEF Shown
    <3> QED BY <1>1, <1>5, <3>1
  <2> QED BY <2>1, <2>2 DEF Shown
<1>10. Once(native', own, pub, aired) BY <1>4 DEF Good
<1>11. Good(native', InitOwner(native'), p, panel, aired, <<>>)
  BY <1>1, <1>3, <1>5, <1>7, <1>8, <1>9, <1>10, StartsGood DEF Once
<1> QED BY <1>2, <1>11 DEF IInv

-------------------------------------------------------------------------------
(* The start. *)

LEMMA NativeStarts ==
    /\ Policy(PowerOn) /\ Len(PowerOn.asked) = 0
    /\ \A n : n = [PowerOn EXCEPT !.status = Restarted(Flash.status)] => Policy(n) /\ Len(n.asked) = 0
<1> DEFINE target == CHOOSE h \in Hosts : Resumable(InitPeers, h)
           s == PowerOn.status
           f == [s EXCEPT !.requested = "AUTO", !.target = target]
<1>1. InitPeers \in Peers BY ControlAssumption DEF Peers
<1>2. <<>> \in Seq(Askers) /\ Len(<<>>) = 0 BY EmptySeq
<1>3. <<InitPeers>> \in Seq(Peers) /\ Len(<<InitPeers>>) = 1 /\ <<InitPeers>>[1] = InitPeers BY <1>1
<1>4. s \in Statuses /\ s.op = 0 /\ s.bonds = 1 BY DEF PowerOn, InitNative, Statuses, Modes, Targets
<1>5. /\ PowerOn \in Natives /\ PowerOn.queue = NoCmd /\ PowerOn.peers = InitPeers
      /\ PowerOn.peersAt = <<InitPeers>> /\ PowerOn.asked = <<>> /\ PowerOn.done = {}
  <2>1. PowerOn = [status |-> s, queue |-> NoCmd, peers |-> InitPeers, peersAt |-> <<InitPeers>>,
                   asked |-> <<>>, done |-> {}]
    BY DEF PowerOn, InitNative
  <2> HIDE DEF s
  <2> QED BY <1>1, <1>2, <1>3, <1>4, <2>1 DEF Natives
<1>6. Flash.status = f
  <2>1. Flash = [PowerOn EXCEPT !.status.requested = "AUTO", !.status.target = target] BY DEF Flash
  <2> HIDE DEF target
  <2>2. Flash = [PowerOn EXCEPT !.status = f] BY <1>5, <2>1 DEF Natives
  <2> HIDE DEF f
  <2> QED BY <1>5, <2>2 DEF Natives
<1>7. f \in Statuses /\ f.bonds = 1
  <2>1. Flash.status.target \in Targets BY DEF Targets
  <2>2. target \in Targets
    <3>1. f.target = target BY <1>4 DEF Statuses
    <3> QED BY <1>6, <2>1, <3>1
  <2> HIDE DEF target, s
  <2> QED BY <1>4, <2>2 DEF Statuses, Modes
<1> DEFINE r == Restarted(f)
<1>8. r \in Statuses /\ r.bonds = 1 /\ r.op = 0
  <2>1. NoHost \in Targets BY DEF Targets
  <2> HIDE DEF f
  <2> QED BY <1>7, <2>1 DEF Restarted, Statuses, Modes
<1>9. ASSUME NEW n \in Natives, n.queue = NoCmd, n.peers = InitPeers, n.peersAt = <<InitPeers>>, n.asked = <<>>,
             n.status.op = 0, n.status.bonds = 1
      PROVE  Policy(n) /\ Len(n.asked) = 0
  <2>1. Seen(n.status, n) BY <1>2, <1>3, <1>9 DEF Seen
  <2> QED BY <1>2, <1>3, <1>9, <2>1 DEF Policy
<1>10. Policy(PowerOn) /\ Len(PowerOn.asked) = 0 BY <1>4, <1>5, <1>9
<1> HIDE DEF s, f, r
<1>11. ASSUME NEW n, n = [PowerOn EXCEPT !.status = Restarted(Flash.status)]
       PROVE  Policy(n) /\ Len(n.asked) = 0
  <2>1. n = [PowerOn EXCEPT !.status = r] BY <1>6, <1>11 DEF r
  <2>2. /\ n \in Natives /\ n.status = r /\ n.queue = NoCmd /\ n.peers = InitPeers
        /\ n.peersAt = <<InitPeers>> /\ n.asked = <<>>
    BY <1>5, <1>8, <2>1 DEF Natives
  <2> QED BY <1>8, <1>9, <2>2
<1> QED BY <1>10, <1>11

(* The first state satisfies the invariant, with or without a saved policy. *)
LEMMA Starts == Init => IInv
<1> SUFFICES ASSUME Init PROVE IInv
  OBVIOUS
<1>1. Policy(native) /\ Len(native.asked) = 0 BY NativeStarts DEF Init
<1>2. own = InitOwner(native) /\ queue = <<>> BY DEF Init
<1>3. \A i \in 1..Len(native.asked) : FALSE
  <2> DEFINE a == Len(native.asked)
  <2>1. a = 0 BY <1>1
  <2> HIDE DEF a
  <2>2. \A i \in 1..a : FALSE BY <2>1
  <2> QED BY <2>2 DEF a
<1>4. CASE pub = InitPublisher(1) /\ panel = InitPanel(1) /\ aired = {}
  <2>1. /\ pub \in Publishers /\ pub.session = 1 /\ pub.client = 0 /\ pub.established = FALSE
        /\ pub.policy = FALSE /\ pub.alias = FALSE /\ pub.out = NoPacket
    <3>1. 1 \in Nat \ {0} OBVIOUS
    <3>2. pub = InitPublisher(1) BY <1>4
    <3> QED BY <3>1, <3>2, NewPublisher
  <2>2. panel \in Panels /\ Shown(native, pub, panel, aired) BY <1>4, <2>1, NewPanel
  <2>3. Numbered(pub, panel, aired) BY <1>4 DEF Numbered
  <2>4. Good(native, InitOwner(native), pub, panel, aired, <<>>)
    BY <1>1, <1>3, <1>4, <2>1, <2>2, <2>3, StartsGood
  <2> QED BY <1>2, <2>4 DEF IInv
<1>5. CASE pub = Introduced /\ panel = InitPanel(2) /\ aired = {FirstCommand}
  <2> DEFINE shake == [client |-> 1, request |-> 1, gen |-> 1]
             new == InitPublisher(1)
             o == InitOwner(native)
             c == FirstCommand
  <2>1. new \in Publishers /\ new.session = 1 /\ new.policy = FALSE /\ new.alias = FALSE /\ new.out = NoPacket
    <3>1. 1 \in Nat \ {0} OBVIOUS
    <3> QED BY <3>1, NewPublisher
  <2>2. pub = [new EXCEPT !.client = 1, !.request = 1, !.last = 1, !.result = Listed, !.established = TRUE,
                          !.handshake = shake, !.seq = 1]
    BY <1>5 DEF Introduced
  <2>3. shake \in Shakes BY DEF Shakes
  <2> HIDE DEF new, shake
  <2>4. /\ pub \in Publishers /\ pub.session = 1 /\ pub.client = 1 /\ pub.request = 1 /\ pub.last = 1
        /\ pub.result = Listed /\ pub.established = TRUE /\ pub.policy = FALSE /\ pub.alias = FALSE
        /\ pub.out = NoPacket
    BY <2>1, <2>2, <2>3, AnswerNumbers DEF Publishers
  <2>5. panel \in Panels /\ panel.client = 2 /\ Shown(native, pub, panel, aired) BY <1>5, <2>4, NewPanel
  <2>6. /\ c \in Commands /\ c.session = 1 /\ c.client = 1 /\ c.request = 1 /\ c.opcode = "LIST"
    BY DEF FirstCommand, Commands, Opcodes, Targets
  <2> HIDE DEF c
  <2>7. aired = {c} BY <1>5 DEF c
  <2>8. Numbered(pub, panel, aired) BY <2>4, <2>5, <2>6, <2>7 DEF Numbered
  <2>9. Owning(native, o) /\ o.pending = NoCmd /\ o.expected = 0 BY <1>1, NewOwner
  <2> HIDE DEF o
  <2>10. Once(native, o, pub, aired) BY <1>3, <2>4, <2>9 DEF Once, Taken
  <2>11. Told(native, o, pub, aired)
    <3>1. SameKey(c, pub) BY <2>4, <2>6 DEF SameKey
    <3>2. pub.result # 0 /\ pub.result \notin {Accepted, Applied} BY <2>4 DEF Listed, Accepted, Applied
    <3> QED BY <2>4, <2>6, <2>7, <3>1, <3>2 DEF Told, NoPacket
  <2>12. Ordered(pub, panel, aired, <<>>)
    <3>1. <<>> \in Seq(Commands) /\ Len(<<>>) = 0 BY EmptySeq
    <3> QED BY <2>4, <2>5, <2>6, <2>7, <3>1 DEF Ordered
  <2> QED BY <1>1, <1>2, <2>4, <2>5, <2>8, <2>9, <2>10, <2>11, <2>12 DEF IInv, Good, o
<1> QED BY <1>4, <1>5 DEF Init

(* Every step keeps it. *)
LEMMA NextKeeps == IInv /\ [Next]_vars => IInv'
<1> SUFFICES ASSUME IInv, [Next]_vars PROVE IInv'
  OBVIOUS
<1>1. CASE Shake BY <1>1, ShakeKeeps
<1>2. CASE ShakeAgain BY <1>2, ShakeAgainKeeps
<1>3. CASE ShakeTimesOut BY <1>3, ShakeTimesOutKeeps
<1>4. ASSUME NEW h \in Hosts, Choose(h) PROVE IInv' BY <1>4, ChooseKeeps
<1>5. ASSUME NEW opcode \in Asks, Press(opcode) PROVE IInv' BY <1>5, PressKeeps
<1>6. CASE RequestTimesOut BY <1>6, RequestTimesOutKeeps
<1>7. CASE GoStale BY <1>7, GoStaleKeeps
<1>8. CASE LinkInterrupted BY <1>8, LinkInterruptedKeeps
<1>9. CASE PanelRestarts BY <1>9, PanelRestartsKeeps
<1>10. CASE RadioRepeats BY <1>10, RadioRepeatsKeeps
<1>11. CASE TakeRequest BY <1>11, TakeRequestKeeps
<1>12. ASSUME NEW h \in Hosts, BadgeAsks(h) PROVE IInv' BY <1>12, BadgeAsksKeeps
<1>13. CASE VolumeKey BY <1>13, VolumeKeyKeeps
<1>14. CASE LoopTail BY <1>14, LoopTailKeeps
<1>15. CASE PacketSent BY <1>15, PacketSentKeeps
<1>16. CASE ControllerRestarts BY <1>16, ControllerRestartsKeeps
<1>17. CASE Native BY <1>17, NativeStepKeeps
<1>18. CASE UNCHANGED vars BY <1>18 DEF vars, IInv
<1> QED
  BY <1>1, <1>2, <1>3, <1>4, <1>5, <1>6, <1>7, <1>8, <1>9, <1>10, <1>11, <1>12, <1>13, <1>14, <1>15, <1>16,
     <1>17, <1>18
  DEF Next

-------------------------------------------------------------------------------

(* The controller, its radio queue and the panel agree on who asked for     *)
(* what, in every reachable state: the inductive invariant.                 *)
THEOREM ControlInvariant == Spec => []IInv
<1> QED BY Starts, NextKeeps, PTL DEF Spec

(* However often the radio delivers a request, and whichever of the two     *)
(* ends restarts, the policy starts one operation for it at most            *)
(* (RequestHistory and the owner's request slot, lib/remote/host_policy.py).*)
THEOREM RequestsRunOnce == Spec => []StartsOnce
<1>1. IInv => StartsOnce
  <2> SUFFICES ASSUME IInv PROVE StartsOnce
    OBVIOUS
  <2>1. native \in Natives /\ Once(native, own, pub, aired) BY DEF IInv, Good, Policy
  <2>2. DOMAIN native.asked = 1..Len(native.asked) BY <2>1, LenProperties DEF Natives
  <2> QED BY <2>1, <2>2 DEF StartsOnce, Once, SameKey
<1> QED BY <1>1, ControlInvariant, PTL

(* The hosts the panel offers under a generation are the ones saved then,   *)
(* although the packets that carry the status and the list travel apart     *)
(* (Decoder, ble_host_policy.h).                                            *)
THEOREM OffersAreSaved == Spec => []OfferedWasSaved
<1>1. IInv => OfferedWasSaved
  <2> SUFFICES ASSUME IInv, CoherentList(panel)
               PROVE  panel.list.peers = native.peersAt[panel.status.native.bonds]
    BY DEF OfferedWasSaved
  <2>1. panel \in Panels /\ Shown(native, pub, panel, aired) BY DEF IInv, Good
  <2>2. panel.sfresh /\ panel.list.gen = panel.status.native.bonds BY DEF CoherentList
  <2>3. panel.status \in StatusPackets
    <3>1. panel.status \in {BlankStatus} \cup StatusPackets BY <2>1, PanelFields
    <3> QED BY <2>1, <2>2, <3>1 DEF Shown, BlankStatus
  <2>4. panel.status.native.bonds \in Nat \ {0} BY <2>3 DEF StatusPackets, Statuses
  <2> QED BY <2>1, <2>2, <2>4 DEF Shown, Listing
<1> QED BY <1>1, ControlInvariant, PTL

(* What the panel reports as confirmed, waiting or pairing was carried out  *)
(* for the very request it shows (Control::tick, ble_host_policy.h).        *)
THEOREM ConfirmationsAreOwn == Spec => ConfirmedIsOwn
<1> DEFINE Own ==
        LET op == panel'.operation
        IN  panel'.result # panel.result /\ panel'.result \in {"CONFIRMED", "WAITING_HOST", "PAIRING"} =>
            /\ op \in DOMAIN native.asked
            /\ native.asked[op].client = panel'.client /\ native.asked[op].request = panel'.request
            /\ panel'.result = "CONFIRMED" => op \in native.done
<1>1. IInv /\ Next => Own
  <2> SUFFICES ASSUME IInv, Next, panel'.result # panel.result, panel'.result \in Carried
               PROVE  /\ panel'.operation \in DOMAIN native.asked
                      /\ native.asked[panel'.operation].client = panel'.client
                      /\ native.asked[panel'.operation].request = panel'.request
                      /\ panel'.result = "CONFIRMED" => panel'.operation \in native.done
    BY DEF Carried
  <2>1. /\ native \in Natives /\ panel \in Panels /\ Numbered(pub, panel, aired)
        /\ Before(native, pub, panel, aired) /\ Good(native, own, pub, panel, aired, queue)
    BY ShownBefore DEF IInv, Good, Policy
  <2>2. ASSUME NEW q \in Panels, Before(native, pub, q, aired), q.client = panel.client, q.counter = panel.counter,
               q.result = panel.result, panel' = Tick(q)
        PROVE  /\ panel'.operation \in DOMAIN native.asked
               /\ native.asked[panel'.operation].client = panel'.client
               /\ native.asked[panel'.operation].request = panel'.request
               /\ panel'.result = "CONFIRMED" => panel'.operation \in native.done
    <3>1. Numbered(pub, q, aired) BY <2>1, <2>2 DEF Numbered
    <3>2. Tick(q).result # q.result /\ Tick(q).result \in Carried BY <2>2
    <3> QED BY <2>1, <2>2, <3>1, <3>2, TickTells
  <2>3. CASE ShakeTimesOut
    <3>1. Defer(panel) \in Panels /\ Rests(panel, Defer(panel)) /\ Defer(panel).result = panel.result
      BY <2>1, DeferRests
    <3>2. Before(native, pub, Defer(panel), aired) BY <2>1, <3>1, RestsShown
    <3> QED BY <2>2, <2>3, <3>1, <3>2 DEF ShakeTimesOut, Rests
  <2>4. CASE GoStale
    <3>1. PICK status \in BOOLEAN, list \in BOOLEAN :
              panel' = Tick([panel EXCEPT !.sfresh = @ /\ ~status, !.lfresh = @ /\ ~list])
      BY <2>4 DEF GoStale
    <3> DEFINE r == [panel EXCEPT !.sfresh = @ /\ ~status, !.lfresh = @ /\ ~list]
    <3>2. r \in Panels /\ Rests(panel, r) /\ r.result = panel.result BY <2>1, StaleRests
    <3> HIDE DEF r
    <3>3. Before(native, pub, r, aired) BY <2>1, <3>2, RestsShown
    <3>4. panel' = Tick(r) BY <3>1 DEF r
    <3> QED BY <2>2, <3>2, <3>3, <3>4 DEF Rests
  <2>5. CASE PacketSent
    <3> DEFINE r == Observe(panel, pub.out, pub.seq)
    <3>1. panel' = Tick(r) BY <2>5 DEF PacketSent
    <3>2. /\ r \in Panels /\ Before(native, pub, r, aired) /\ r.client = panel.client
          /\ r.counter = panel.counter /\ r.result = panel.result
      BY <2>1, <2>5, ObserveBefore DEF PacketSent
    <3> HIDE DEF r
    <3> QED BY <2>2, <3>1, <3>2
  <2>6. CASE Shake
    <3>1. panel'.result = panel.result BY <2>1, <2>6 DEF Shake, Handshake, Panels
    <3> QED BY <3>1
  <2>7. CASE \E h \in Hosts : Choose(h)
    <3>1. panel'.result = panel.result BY <2>1, <2>7 DEF Choose, Panels
    <3> QED BY <3>1
  <2>8. CASE \E opcode \in Asks : Press(opcode)
    <3>1. panel'.result \in {"PENDING", "NOT_SENT"} BY <2>1, <2>8 DEF Press, Begin, Finish, Panels
    <3> QED BY <3>1 DEF Carried
  <2>9. CASE RequestTimesOut
    <3>1. panel'.result = "TIMED_OUT" BY <2>1, <2>9 DEF RequestTimesOut, Finish, Panels
    <3> QED BY <3>1 DEF Carried
  <2>10. CASE LinkInterrupted
    <3>1. panel'.result \in {"RESTARTED", "IDLE"}
      BY <2>1, <2>10 DEF LinkInterrupted, InvalidateLink, ResetAdmission, Finish, Panels
    <3> QED BY <3>1 DEF Carried
  <2>11. CASE PanelRestarts
    <3>1. panel'.result = "IDLE" BY <2>11 DEF PanelRestarts, InitPanel
    <3> QED BY <3>1 DEF Carried
  <2>12. CASE UNCHANGED panel BY <2>12
  <2> QED
    BY <2>3, <2>4, <2>5, <2>6, <2>7, <2>8, <2>9, <2>10, <2>11, <2>12
    DEF Next, ShakeAgain, RadioRepeats, TakeRequest, BadgeAsks, VolumeKey, LoopTail, ControllerRestarts, Native
<1>2. IInv /\ [Next]_vars => [Own]_vars BY <1>1
<1> HIDE DEF Own
<1>3. Spec => [][Own]_vars BY <1>2, ControlInvariant, PTL DEF Spec
<1> QED BY <1>3 DEF ConfirmedIsOwn, Own
===============================================================================

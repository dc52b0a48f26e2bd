---------------------------- MODULE BadgeLinkProofs ----------------------------
(***************************************************************************)
(* The badge's commands for any buttons, keys, room, numbers of actions,   *)
(* sequences, sessions, handshakes, boots and rehellos that meet the       *)
(* assumption, over a network that loses, repeats and reorders. The        *)
(* invariant is Good: a function of the badge a, the controller u, the     *)
(* sets rq and rp of requests and replies that may still arrive, and the   *)
(* log l. Each of its parts says less of fewer datagrams, so a loss keeps  *)
(* it (LossKeeps); a step of the badge changes a, l and adds one request,  *)
(* a step of the controller changes u, l and adds one reply.               *)
(***************************************************************************)
EXTENDS BadgeLink, SequenceTheorems, WellFoundedInduction, TLAPS

Seqs == 1..MaxSeq
Lasts == 0..MaxSeq
Ids == Nat \ {0}
PressTokens == [name : {"P", "R"}, button : Buttons, act : Acts]
KeyTokens == {Status} \cup [name : Taps, button : {None}, act : Acts]
HelloMsgs == [type : {"hello"}, nonce : Ids]
CommandMsgs == [type : {"cmd"}, boot : Nat, client : Ids, seq : Seqs, token : PressTokens \cup KeyTokens]
WelcomeMsgs == [type : {"welcome"}, nonce : Ids, boot : Nat, client : Ids]
StateMsgs == [type : {"state"}, boot : Nat, client : Ids, seq : Seqs, denied : BOOLEAN]
RehelloMsgs == [type : {"rehello"}, client : Ids, seq : Seqs]
Gestures == [button : Buttons, act : Acts, pressed : BOOLEAN, released : BOOLEAN]
Clients == [id : Ids, last : Lasts, nonce : Nat, denied : BOOLEAN]
Holds == [type : {"hold"}, button : Buttons, act : Acts]

Apps ==
    [boot : Nat, client : Nat, seq : Lasts, pending : {Nothing} \cup HelloMsgs \cup CommandMsgs,
     stalled : BOOLEAN, queue : Seq(KeyTokens), gestures : Seq(Gestures),
     held : Buttons \cup {None}, rehellos : Nat, closing : BOOLEAN, acts : Nat, hellos : Nat]
Units ==
    [boot : Nat, clients : Seq(Clients), hellos : SUBSET Ids, others : Nat, next : Ids,
     hold : {Nothing} \cup Holds]
Logs ==
    [ran : [Acts -> Nat], stopped : SUBSET Acts, sent : SUBSET Acts, refused : SUBSET Acts,
     owed : SUBSET Acts]

Typed(a, u, rq, rp, l) ==
    /\ a \in Apps /\ u \in Units /\ l \in Logs
    /\ rq \subseteq HelloMsgs \cup CommandMsgs
    /\ rp \subseteq WelcomeMsgs \cup StateMsgs \cup RehelloMsgs
    /\ a.acts <= MaxActs

(* The commands that may still arrive, and the one the badge repeats.       *)
Cmds(a, rq) == {c \in rq \cup {a.pending} : c.type = "cmd"}
Known(u, id) == \E i \in 1..Len(u.clients) : u.clients[i].id = id
Table(u) == {u.clients[i] : i \in 1..Len(u.clients)}

(* A client number is given once, by one boot; the table holds no number    *)
(* twice; a rehello names a session that is gone for ever.                  *)
Sessions(a, u, rq, rp) ==
    /\ a.client < u.next /\ (Known(u, a.client) => a.boot = u.boot)
    /\ \A c \in Cmds(a, rq) : c.client < u.next /\ (Known(u, c.client) => c.boot = u.boot)
    /\ \A m \in rp :
          /\ m.client < u.next
          /\ m.type = "welcome" /\ Known(u, m.client) => m.boot = u.boot
          /\ m.type = "rehello" => ~Known(u, m.client)
    /\ \A e \in Table(u) : e.id < u.next
    /\ \A i, j \in 1..Len(u.clients) : u.clients[i].id = u.clients[j].id => i = j

(* No nonce is seen before the badge draws it.                              *)
Nonces(a, u, rq, rp) ==
    /\ \A h \in rq : h.type = "hello" => h.nonce <= a.hellos
    /\ \A m \in rp : m.type = "welcome" => m.nonce <= a.hellos
    /\ \A e \in Table(u) : e.nonce <= a.hellos

(* Nobody has used session id yet.                                          *)
Unused(u, rq, rp, id) ==
    /\ \A c \in rq : c.type = "cmd" => c.client # id
    /\ \A m \in rp : m.type = "state" => m.client # id
    /\ \A e \in Table(u) : e.id = id => e.last = 0

(* A session that answers the badge's open hello has not been used: a late  *)
(* welcome to the same hello cannot begin a used session again.             *)
Opening(a, u, rq, rp) ==
    a.pending.type = "hello" =>
       /\ a.client = 0 /\ a.pending.nonce = a.hellos
       /\ \A m \in rp : m.type = "welcome" /\ m.nonce = a.hellos => Unused(u, rq, rp, m.client)
       /\ \A e \in Table(u) : e.nonce = a.hellos => Unused(u, rq, rp, e.id)

(* In a session a number stands for one command, and none is ahead of the   *)
(* badge's own.                                                             *)
Numbered(a, u, rq, rp) ==
    /\ a.pending.type = "cmd" => a.pending.client = a.client /\ a.pending.seq = a.seq
    /\ \A c \in Cmds(a, rq) : c.client = a.client => c.seq <= a.seq
    /\ \A m \in rp : m.type = "state" /\ m.client = a.client => m.seq <= a.seq
    /\ \A e \in Table(u) : e.id = a.client => e.last <= a.seq
    /\ \A c, d \in Cmds(a, rq) : c.client = d.client /\ c.seq = d.seq => c = d

(* The keys of the queue; the actions that are queued and not yet sent; the *)
(* commands that do something, other than ending it; the commands whose     *)
(* number the controller is past.                                           *)
Keys(a) == {i \in 1..Len(a.queue) : a.queue[i] # Status}
Unsent(a, n) ==
    \/ \E i \in Keys(a) : a.queue[i].act = n
    \/ \E i \in 1..Len(a.gestures) : ~a.gestures[i].pressed /\ a.gestures[i].act = n
Doing(c) == c.token # Status /\ c.token.name # "R"
Spent(u, c) == \A e \in Table(u) : e.id = c.client => c.seq <= e.last

(* An action is queued once.                                                *)
Queues(a) ==
    /\ \A i \in Keys(a) : a.queue[i].act <= a.acts
    /\ \A i \in 1..Len(a.gestures) : a.gestures[i].act <= a.acts
    /\ \A i, j \in Keys(a) : a.queue[i].act = a.queue[j].act => i = j
    /\ \A i, j \in 1..Len(a.gestures) : a.gestures[i].act = a.gestures[j].act => i = j
    /\ \A i \in Keys(a), j \in 1..Len(a.gestures) : a.queue[i].act # a.gestures[j].act
    /\ Releasing(a) =>
          /\ \A i \in Keys(a) : a.queue[i].act # a.pending.token.act
          /\ \A i \in 1..Len(a.gestures) : a.gestures[i].act # a.pending.token.act

(* An action is queued, or is one command, and when it has run its command  *)
(* is spent.                                                                *)
Once(a, u, rq, l) ==
    /\ \A c \in Cmds(a, rq) : c.token # Status => c.token.act <= a.acts /\ ~Unsent(a, c.token.act)
    /\ \A c, d \in Cmds(a, rq) : Doing(c) /\ Doing(d) /\ c.token.act = d.token.act => c = d
    /\ \A n \in Acts : l.ran[n] > 0 \/ n \in l.stopped \/ n \in l.refused => n <= a.acts /\ ~Unsent(a, n)
    /\ \A n \in Acts : l.ran[n] <= 1
    /\ \A c \in Cmds(a, rq) : Doing(c) /\ l.ran[c.token.act] > 0 => Spent(u, c)

(* What an answer on its way, or the table, says of a command is so.        *)
Truthful(a, u, rq, rp, l) ==
    /\ \A c \in Cmds(a, rq) : Doing(c) /\ Denied(c.token) => l.ran[c.token.act] = 0
    /\ \A c \in Cmds(a, rq) : Doing(c) /\ c.token.act \in l.refused => Denied(c.token)
    /\ \A c \in Cmds(a, rq), m \in rp :
          m.type = "state" /\ m.client = c.client /\ m.seq = c.seq =>
             m.denied = Denied(c.token) /\ (Doing(c) /\ ~m.denied => l.ran[c.token.act] > 0)
    /\ \A c \in Cmds(a, rq), e \in Table(u) :
          e.id = c.client /\ e.last = c.seq =>
             e.denied = Denied(c.token) /\ (Doing(c) /\ ~e.denied => l.ran[c.token.act] > 0)
    /\ \A n \in l.sent : l.ran[n] > 0
    /\ \A n \in l.refused : l.ran[n] = 0

(* Action n is a press of button b.                                         *)
IsPress(a, u, rq, n, b) ==
    \/ \E i \in 1..Len(a.gestures) : a.gestures[i].act = n /\ a.gestures[i].button = b
    \/ \E c \in Cmds(a, rq) : c.token.name \in {"P", "R"} /\ c.token.act = n /\ c.token.button = b
    \/ u.hold # Nothing /\ u.hold.act = n /\ u.hold.button = b

(* A release is in the session of its press and behind it, or the session   *)
(* of the press is gone: when the release runs, its press can run no more.  *)
Holding(a, u, rq, l) ==
    /\ \A n \in Acts, b \in Buttons : IsPress(a, u, rq, n, b) =>
          n <= a.acts /\ \A d \in Buttons : IsPress(a, u, rq, n, d) => b = d
    /\ \A c \in Cmds(a, rq) : c.token.name = "P" =>
          /\ \A i \in 1..Len(a.gestures) : a.gestures[i].act = c.token.act =>
                c.client = a.client \/ ~Known(u, c.client)
          /\ \A d \in Cmds(a, rq) : d.token.name = "R" /\ d.token.act = c.token.act =>
                (c.client = d.client /\ c.seq < d.seq) \/ ~Known(u, c.client)
          /\ c.token.act \in l.stopped => Spent(u, c)
    /\ u.hold # Nothing => u.hold.act \notin l.stopped /\ ~Unsent(a, u.hold.act)

(* Only the first gesture is pressed, and the badge knows whom it owes.     *)
Owed(a, l) ==
    /\ \A i \in 1..Len(a.gestures) : a.gestures[i].pressed => i = 1 /\ ~Releasing(a)
    /\ a.held # None =>
          \E i \in 1..Len(a.gestures) : a.gestures[i].button = a.held /\ ~a.gestures[i].released
    /\ Owing(a) = l.owed

(* A status query or a release that a rehello met is queued again beyond    *)
(* the room.                                                                *)
Repeated(a) == a.pending.type = "cmd" /\ (a.pending.token = Status \/ a.pending.token.name = "R")
Bounded(a, u) ==
    /\ Queued(a) + (IF Repeated(a) THEN 1 ELSE 0) <= Room + 1
    /\ \/ Queued(a) <= Room
       \/ \E i \in 1..Len(a.queue) : a.queue[i] = Status
       \/ (Len(a.gestures) > 0 /\ a.gestures[1].pressed /\ a.gestures[1].released)
    /\ a.rehellos <= MaxRehellos
    /\ a.stalled => Releasing(a)
    /\ Len(u.clients) <= MaxClients

-------------------------------------------------------------------------------

LEMMA LeastIsMin ==
    ASSUME NEW T, T \subseteq Nat, T # {}
    PROVE  Min(T) \in T
<1> DEFINE Less == {p \in Nat \X Nat : p[1] < p[2]}
<1>1. IsWellFoundedOn(Less, Nat) BY NatLessThanWellFounded DEF OpToRel
<1> HIDE DEF Less
<1>2. PICK x \in T : \A y \in T : <<y, x>> \notin Less BY <1>1, WFMin
<1>3. \A y \in T : y < x => <<y, x>> \in Less BY DEF Less
<1>4. x \in Nat /\ \A y \in T : y \in Nat /\ ~(y < x) BY <1>2, <1>3
<1>5. \A y \in T : x <= y BY <1>4, SMT
<1> QED BY <1>5 DEF Min

LEMMA RemoveAtKeeps ==
    ASSUME NEW S, NEW s \in Seq(S), NEW i \in 1..Len(s)
    PROVE  LET r == RemoveAt(s, i)
           IN  /\ r \in Seq(S) /\ Len(r) = Len(s) - 1
               /\ \A j \in 1..Len(r) : r[j] = s[IF j < i THEN j ELSE j + 1]
<1> DEFINE n == Len(s)
           p == SubSeq(s, 1, i - 1)
           q == SubSeq(s, i + 1, n)
<1>1. n \in Nat /\ i \in 1..n /\ \A j \in 1..n : s[j] \in S BY LenProperties, ElementOfSeq
<1> HIDE DEF n
<1>2. p \in Seq(S) /\ Len(p) = i - 1 /\ \A j \in 1..i - 1 : p[j] = s[j]
  <2>1. 1 \in Int /\ i - 1 \in Int /\ \A j \in 1..i - 1 : s[j] \in S BY <1>1
  <2>2. /\ p \in Seq(S)
        /\ Len(p) = IF 1 <= i - 1 THEN (i - 1) - 1 + 1 ELSE 0
        /\ \A j \in 1..(i - 1) - 1 + 1 : p[j] = s[1 + j - 1]
    BY <2>1, SubSeqProperties
  <2>3. \A j \in 1..i - 1 : j \in 1..(i - 1) - 1 + 1 /\ 1 + j - 1 = j BY <1>1
  <2> QED BY <1>1, <2>2, <2>3
<1>3. q \in Seq(S) /\ Len(q) = n - i /\ \A j \in 1..n - i : q[j] = s[i + j]
  <2>1. i + 1 \in Int /\ n \in Int /\ \A j \in i + 1..n : s[j] \in S BY <1>1
  <2>2. /\ q \in Seq(S)
        /\ Len(q) = IF i + 1 <= n THEN n - (i + 1) + 1 ELSE 0
        /\ \A j \in 1..n - (i + 1) + 1 : q[j] = s[i + 1 + j - 1]
    BY <2>1, SubSeqProperties
  <2>3. \A j \in 1..n - i : j \in 1..n - (i + 1) + 1 /\ i + 1 + j - 1 = i + j BY <1>1
  <2> QED BY <1>1, <2>2, <2>3
<1>4. RemoveAt(s, i) = p \o q BY DEF RemoveAt, n
<1> HIDE DEF p, q
<1> DEFINE r == p \o q
<1>5. r \in Seq(S) /\ Len(r) = Len(p) + Len(q)
      /\ \A j \in 1..Len(p) + Len(q) : r[j] = IF j <= Len(p) THEN p[j] ELSE q[j - Len(p)]
  BY <1>2, <1>3, ConcatProperties
<1> HIDE DEF r
<1>6. Len(r) = n - 1 BY <1>1, <1>2, <1>3, <1>5
<1>7. \A j \in 1..Len(r) : r[j] = s[IF j < i THEN j ELSE j + 1]
  <2> TAKE j \in 1..Len(r)
  <2>1. CASE j < i BY <1>1, <1>2, <1>5, <1>6, <2>1
  <2>2. CASE ~(j < i)
    <3>1. j - (i - 1) \in 1..n - i /\ i + (j - (i - 1)) = j + 1 BY <1>1, <1>6, <2>2
    <3>2. r[j] = q[j - (i - 1)] BY <1>1, <1>2, <1>3, <1>5, <1>6, <2>2
    <3> QED BY <1>3, <2>2, <3>1, <3>2
  <2> QED BY <2>1, <2>2
<1> QED BY <1>4, <1>5, <1>6, <1>7 DEF n, r

LEMMA PutKeeps ==
    ASSUME NEW S, NEW net \in Seq(S), NEW m \in S
    PROVE  Put(net, m) \in Seq(S) /\ ToSet(Put(net, m)) \subseteq ToSet(net) \cup {m}
<1> DEFINE at == {i \in 1..Len(net) : net[i] = m}
           kept == RemoveFirst(net, m)
           all == Append(kept, m)
<1>1. Len(net) \in Nat /\ DOMAIN net = 1..Len(net) BY LenProperties
<1>2. kept \in Seq(S) /\ ToSet(kept) \subseteq ToSet(net)
  <2>1. CASE at = {}
    <3>1. kept = net BY <2>1 DEF RemoveFirst
    <3> QED BY <3>1
  <2>2. CASE at # {}
    <3>1. Min(at) \in at
      <4>1. at \subseteq Nat BY <1>1
      <4> HIDE DEF at
      <4> QED BY <2>2, <4>1, LeastIsMin
    <3>2. SelectInSeq(net, LAMBDA v : v = m) = Min(at) BY <2>2 DEF SelectInSeq
    <3>3. kept = RemoveAt(net, Min(at)) BY <2>2, <3>2 DEF RemoveFirst
    <3> DEFINE k == Min(at)
    <3>4. k \in 1..Len(net) BY <3>1
    <3> HIDE DEF at, k
    <3> DEFINE r == RemoveAt(net, k)
    <3>5. /\ r \in Seq(S) /\ Len(r) = Len(net) - 1
          /\ \A j \in 1..Len(r) : r[j] = net[IF j < k THEN j ELSE j + 1]
      BY <3>4, RemoveAtKeeps
    <3>6. kept = r BY <3>3 DEF k
    <3> HIDE DEF r, kept
    <3>7. \A j \in 1..Len(r) : (IF j < k THEN j ELSE j + 1) \in 1..Len(net) BY <1>1, <3>4, <3>5
    <3>8. DOMAIN r = 1..Len(r) BY <3>5, LenProperties
    <3> QED BY <1>1, <3>5, <3>6, <3>7, <3>8 DEF ToSet
  <2> QED BY <2>1, <2>2
<1> HIDE DEF kept
<1>3. all \in Seq(S) /\ Len(all) > 0 /\ ToSet(all) \subseteq ToSet(kept) \cup {m}
  <2>1. /\ all \in Seq(S) /\ Len(all) = Len(kept) + 1 /\ Len(kept) \in Nat
        /\ \A i \in 1..Len(kept) : all[i] = kept[i]
        /\ all[Len(kept) + 1] = m
    BY <1>2, AppendProperties, LenProperties
  <2>2. DOMAIN all = 1..Len(kept) + 1 /\ DOMAIN kept = 1..Len(kept) BY <1>2, <2>1, LenProperties
  <2> HIDE DEF all
  <2>3. \A i \in 1..Len(kept) + 1 : i \in 1..Len(kept) \/ i = Len(kept) + 1 BY <2>1
  <2> QED BY <2>1, <2>2, <2>3 DEF ToSet
<1> HIDE DEF all
<1>4. Tail(all) \in Seq(S) /\ ToSet(Tail(all)) \subseteq ToSet(all)
  <2>1. all # <<>> BY <1>3, EmptySeq
  <2>2. /\ Tail(all) \in Seq(S) /\ Len(Tail(all)) = Len(all) - 1
        /\ \A i \in 1..Len(Tail(all)) : Tail(all)[i] = all[i + 1]
    BY <1>3, <2>1, HeadTailProperties
  <2>3. DOMAIN Tail(all) = 1..Len(Tail(all)) /\ DOMAIN all = 1..Len(all) /\ Len(all) \in Nat
    BY <1>3, <2>2, LenProperties
  <2>4. \A i \in 1..Len(all) - 1 : i + 1 \in 1..Len(all) BY <2>3
  <2> QED BY <2>2, <2>3, <2>4 DEF ToSet
<1>5. Put(net, m) = IF Len(all) > InFlight THEN Tail(all) ELSE all BY DEF Put, all, kept
<1> QED BY <1>2, <1>3, <1>4, <1>5

LEMMA BegunIsFirst ==
    ASSUME NEW gs \in Seq(Gestures), \A i \in 1..Len(gs) : gs[i].pressed => i = 1
    PROVE  Begun(gs) = IF Len(gs) > 0 /\ gs[1].pressed THEN <<gs[1]>> ELSE <<>>
<1> DEFINE n == Len(gs)
           kept == Len(gs) > 0 /\ gs[1].pressed
           F(f) == [i \in 0..n |->
                      IF i = 0 THEN <<>>
                      ELSE IF gs[i].pressed THEN Append(f[i - 1], gs[i]) ELSE f[i - 1]]
           g == [i \in 0..n |-> IF i > 0 /\ kept THEN <<gs[1]>> ELSE <<>>]
           u == CHOOSE f : f = F(f)
<1>1. n \in Nat BY LenProperties
<1>2. Begun(gs) = u[n] BY DEF Begun
<1>3. g = F(g)
  <2>1. \A i \in 0..n : i = 0 \/ (i > 0 /\ i \in 1..n /\ i - 1 \in 0..n /\ (i = 1 \/ i - 1 > 0)) BY <1>1
  <2>2. Append(<<>>, gs[1]) = <<gs[1]>> OBVIOUS
  <2>3. \A i \in 0..n : g[i] = IF i > 0 /\ kept THEN <<gs[1]>> ELSE <<>> OBVIOUS
  <2>4. g = [i \in 0..n |-> g[i]] OBVIOUS
  <2>5. \A i \in 0..n : g[i] = F(g)[i]
    <3> TAKE i \in 0..n
    <3>1. CASE i = 0 BY <2>3, <3>1
    <3>2. CASE i = 1
      <4>1. 0 \in 0..n /\ i - 1 = 0 /\ i # 0 /\ i > 0 /\ Len(gs) > 0 BY <1>1, <3>2
      <4>2. g[0] = <<>> /\ g[i] = IF kept THEN <<gs[1]>> ELSE <<>> BY <2>3, <4>1
      <4>3. F(g)[i] = IF gs[1].pressed THEN Append(g[0], gs[1]) ELSE g[0] BY <3>2, <4>1
      <4> QED BY <2>2, <4>1, <4>2, <4>3
    <3>3. CASE i # 0 /\ i # 1
      <4>1. i \in 1..n /\ i - 1 \in 0..n /\ i - 1 > 0 /\ ~gs[i].pressed BY <2>1, <3>3
      <4> QED BY <2>1, <2>3, <3>3, <4>1
    <3> QED BY <3>1, <3>2, <3>3
  <2> QED BY <2>4, <2>5
<1>4. u = F(u) BY <1>3
<1> HIDE DEF u, g
<1>5. \A i \in 0..n : u[i] = IF i = 0 THEN <<>> ELSE IF gs[i].pressed THEN Append(u[i - 1], gs[i]) ELSE u[i - 1]
  BY <1>4
<1> DEFINE wrong == {i \in 0..n : u[i] # IF i > 0 /\ kept THEN <<gs[1]>> ELSE <<>>}
<1>6. wrong = {}
  <2> SUFFICES ASSUME wrong # {} PROVE FALSE OBVIOUS
  <2> DEFINE Less == {p \in Nat \X Nat : p[1] < p[2]}
  <2>1. IsWellFoundedOn(Less, Nat) BY NatLessThanWellFounded DEF OpToRel
  <2>2. wrong \subseteq Nat BY <1>1
  <2> HIDE DEF Less
  <2>3. PICK x \in wrong : \A y \in wrong : <<y, x>> \notin Less
    <3> HIDE DEF wrong
    <3> QED BY <2>1, <2>2, WFMin
  <2>4. x \in 0..n BY <2>3
  <2>5. CASE x = 0 BY <1>5, <2>4, <2>5
  <2>6. CASE x # 0
    <3>1. x - 1 \in 0..n /\ x - 1 < x /\ x - 1 \in Nat /\ x \in Nat /\ x \in 1..n /\ x > 0 BY <1>1, <2>4, <2>6
    <3>2. <<x - 1, x>> \in Less BY <3>1 DEF Less
    <3>3. x - 1 \notin wrong BY <2>3, <3>2
    <3>4. u[x - 1] = IF x - 1 > 0 /\ kept THEN <<gs[1]>> ELSE <<>> BY <3>1, <3>3
    <3>5. u[x] = IF gs[x].pressed THEN Append(u[x - 1], gs[x]) ELSE u[x - 1] BY <1>5, <2>4, <2>6
    <3>6. CASE x = 1
      <4>1. u[0] = <<>> /\ u[x - 1] = <<>> BY <1>5, <3>1, <3>6
      <4>2. Append(<<>>, gs[1]) = <<gs[1]>> OBVIOUS
      <4>3. u[x] = IF kept THEN <<gs[1]>> ELSE <<>> BY <1>1, <3>1, <3>5, <3>6, <4>1, <4>2
      <4> QED BY <2>3, <3>1, <4>3
    <3>7. CASE x # 1
      <4>1. ~gs[x].pressed /\ x - 1 > 0 BY <3>1, <3>7
      <4> QED BY <2>3, <3>1, <3>4, <3>5, <4>1
    <3> QED BY <3>6, <3>7
  <2> QED BY <2>5, <2>6
<1>7. n \in 0..n /\ (n > 0 <=> Len(gs) > 0) BY <1>1
<1> QED BY <1>2, <1>6, <1>7

-------------------------------------------------------------------------------
Network(a, u, rq, rp, l) ==
    /\ Sessions(a, u, rq, rp) /\ Nonces(a, u, rq, rp) /\ Opening(a, u, rq, rp)
    /\ Numbered(a, u, rq, rp) /\ Once(a, u, rq, l) /\ Truthful(a, u, rq, rp, l)

(* The inductive invariant. Network is its part that does not look at the   *)
(* gestures beyond what is unsent.                                          *)
Good(a, u, rq, rp, l) ==
    /\ Typed(a, u, rq, rp, l) /\ Network(a, u, rq, rp, l)
    /\ Queues(a) /\ Holding(a, u, rq, l) /\ Owed(a, l) /\ Bounded(a, u)

LEMMA Numbers ==
    /\ \A n \in Acts : n \in Nat /\ n > 0 /\ n <= MaxActs
    /\ \A n \in Seqs : n \in Nat /\ n > 0 /\ n <= MaxSeq /\ n \in Lasts
    /\ \A n \in Lasts : n \in Nat /\ n <= MaxSeq /\ (n > 0 => n \in Seqs)
    /\ \A n \in Ids : n \in Nat /\ n > 0
    /\ 0 \in Lasts /\ MaxActs \in Nat /\ MaxSeq \in Nat /\ Room \in Nat /\ MaxRehellos \in Nat
    /\ MaxClients \in Nat /\ MaxClients > 0 /\ Room > 0
BY BadgeAssumption DEF Acts, Seqs, Lasts, Ids

LEMMA QueuedIs ==
    ASSUME NEW a, NEW b, NEW x \in Nat, NEW y \in Nat, NEW z \in Nat, NEW w \in Nat,
           Len(a.queue) = x, Len(a.gestures) = y, Len(b.queue) = z, Len(b.gestures) = w
    PROVE  /\ Queued(a) \in Nat /\ Queued(b) \in Nat
           /\ z = x /\ w = y + 1 => Queued(b) = Queued(a) + 1
           /\ z = x + 1 /\ w = y => Queued(b) = Queued(a) + 1
           /\ z = x /\ w = y => Queued(b) = Queued(a)
           /\ z <= x /\ w <= y => Queued(b) <= Queued(a)
<1>1. Queued(a) = x + y /\ Queued(b) = z + w BY DEF Queued
<1> QED BY <1>1

LEMMA QueuedStep ==
    ASSUME NEW a \in Apps, NEW b \in Apps
    PROVE  /\ Queued(a) \in Nat /\ Queued(b) \in Nat
           /\ Len(b.queue) = Len(a.queue) /\ Len(b.gestures) = Len(a.gestures) + 1
                 => Queued(b) = Queued(a) + 1
           /\ Len(b.queue) = Len(a.queue) + 1 /\ Len(b.gestures) = Len(a.gestures)
                 => Queued(b) = Queued(a) + 1
           /\ Len(b.queue) = Len(a.queue) /\ Len(b.gestures) = Len(a.gestures) => Queued(b) = Queued(a)
           /\ Len(b.queue) <= Len(a.queue) /\ Len(b.gestures) <= Len(a.gestures)
                 => Queued(b) <= Queued(a)
<1> DEFINE x == Len(a.queue)
           y == Len(a.gestures)
           z == Len(b.queue)
           w == Len(b.gestures)
<1>1. x \in Nat /\ y \in Nat /\ z \in Nat /\ w \in Nat BY LenProperties DEF Apps
<1> HIDE DEF x, y, z, w
<1> QED BY <1>1, QueuedIs DEF x, y, z, w

LEMMA CommandShape ==
    ASSUME NEW a, NEW u, NEW rq, NEW rp, NEW l, Typed(a, u, rq, rp, l)
    PROVE  /\ \A c \in Cmds(a, rq) :
                 /\ c \in CommandMsgs /\ c.client \in Ids /\ c.seq \in Seqs /\ c.boot \in Nat
                 /\ c.token = Status \/ (c.token # Status /\ c.token.act \in Acts)
           /\ \A c \in rq : c.type = "cmd" => c \in Cmds(a, rq)
           /\ a.pending.type = "cmd" => a.pending \in Cmds(a, rq)
           /\ \A m \in rp : m.client \in Ids /\ (m.type \in {"state", "rehello"} => m.seq \in Seqs)
           /\ \A e \in Table(u) : e \in Clients /\ e.last \in Lasts /\ e.id \in Ids /\ e.nonce \in Nat
<1>1. \A c \in Cmds(a, rq) : c \in CommandMsgs
  BY DEF Cmds, Typed, Apps, CommandMsgs, HelloMsgs, Nothing, None
<1>2. \A c \in CommandMsgs : c.client \in Ids /\ c.seq \in Seqs /\ c.boot \in Nat /\ c.token \in PressTokens \cup KeyTokens
  BY DEF CommandMsgs
<1>3. \A t \in PressTokens \cup KeyTokens : t # Status => t.act \in Acts BY DEF PressTokens, KeyTokens
<1>4. \A m \in rp : m.client \in Ids /\ (m.type \in {"state", "rehello"} => m.seq \in Seqs)
  BY DEF Typed, WelcomeMsgs, StateMsgs, RehelloMsgs
<1>5. \A e \in Table(u) : e \in Clients
  BY LenProperties, ElementOfSeq DEF Table, Typed, Units
<1>6. \A e \in Clients : e.last \in Lasts /\ e.id \in Ids /\ e.nonce \in Nat BY DEF Clients
<1> QED BY <1>1, <1>2, <1>3, <1>4, <1>5, <1>6 DEF Cmds

(* Datagrams are lost. *)
LEMMA LossKeeps ==
    ASSUME NEW a, NEW u, NEW rq, NEW rp, NEW l, Good(a, u, rq, rp, l),
           NEW fewer \in SUBSET rq, NEW left \in SUBSET rp
    PROVE  Good(a, u, fewer, left, l)
<1>1. Cmds(a, fewer) \subseteq Cmds(a, rq) BY DEF Cmds
<1>2. Typed(a, u, fewer, left, l) BY DEF Good, Typed
<1>3. Sessions(a, u, fewer, left) BY <1>1 DEF Good, Network, Sessions
<1>4. Nonces(a, u, fewer, left) BY DEF Good, Network, Nonces
<1>5. \A id : Unused(u, rq, rp, id) => Unused(u, fewer, left, id) BY DEF Unused
<1>6. Opening(a, u, fewer, left) BY <1>5 DEF Good, Network, Opening
<1>7. Numbered(a, u, fewer, left) BY <1>1 DEF Good, Network, Numbered
<1>8. Once(a, u, fewer, l) BY <1>1 DEF Good, Network, Once
<1>9. Truthful(a, u, fewer, left, l) BY <1>1 DEF Good, Network, Truthful
<1>10. Holding(a, u, fewer, l)
  <2>1. \A n, b : IsPress(a, u, fewer, n, b) => IsPress(a, u, rq, n, b) BY <1>1 DEF IsPress
  <2> QED BY <1>1, <2>1 DEF Good, Holding
<1> QED BY <1>2, <1>3, <1>4, <1>6, <1>7, <1>8, <1>9, <1>10 DEF Good, Network

(* The badge changes its queues, or has nothing pending any more. *)
LEMMA QuietKeeps ==
    ASSUME NEW a, NEW u, NEW rq, NEW rp, NEW l, Typed(a, u, rq, rp, l), Network(a, u, rq, rp, l),
           NEW b \in Apps, b.boot = a.boot, b.client = a.client, b.seq = a.seq, b.hellos = a.hellos,
           b.pending \in {a.pending, Nothing}, a.acts <= b.acts, 
           \A n \in Acts : n <= a.acts /\ Unsent(b, n) => Unsent(a, n)
    PROVE  Network(b, u, rq, rp, l)
<1>1. Cmds(b, rq) \subseteq Cmds(a, rq) BY DEF Cmds, Nothing, None
<1>2. a.acts \in Nat /\ b.acts \in Nat /\ \A n \in Nat : n <= a.acts => n <= b.acts BY DEF Typed, Apps
<1>3. Sessions(b, u, rq, rp) BY <1>1 DEF Network, Sessions
<1>4. Nonces(b, u, rq, rp) BY DEF Network, Nonces
<1>5. Opening(b, u, rq, rp) BY DEF Network, Opening, Nothing, None
<1>6. Numbered(b, u, rq, rp) BY <1>1 DEF Network, Numbered, Nothing, None
<1>7. Once(b, u, rq, l) BY <1>1, <1>2, CommandShape, Numbers DEF Network, Once
<1>8. Truthful(b, u, rq, rp, l) BY <1>1 DEF Network, Truthful
<1> QED BY <1>3, <1>4, <1>5, <1>6, <1>7, <1>8 DEF Network

LEMMA AppFields ==
    ASSUME NEW a \in Apps
    PROVE  /\ a.boot \in Nat /\ a.client \in Nat /\ a.seq \in Lasts /\ a.rehellos \in Nat
           /\ a.acts \in Nat /\ a.hellos \in Nat /\ a.stalled \in BOOLEAN /\ a.closing \in BOOLEAN
           /\ a.queue \in Seq(KeyTokens) /\ a.gestures \in Seq(Gestures)
           /\ Len(a.queue) \in Nat /\ Len(a.gestures) \in Nat
           /\ DOMAIN a.queue = 1..Len(a.queue) /\ DOMAIN a.gestures = 1..Len(a.gestures)
           /\ \A i \in 1..Len(a.queue) : a.queue[i] \in KeyTokens
           /\ \A i \in 1..Len(a.gestures) : a.gestures[i] \in Gestures
<1>1. a.queue \in Seq(KeyTokens) /\ a.gestures \in Seq(Gestures) BY DEF Apps
<1> QED BY <1>1, LenProperties, ElementOfSeq DEF Apps

(* Gestures are released, nothing else of the queues changes. *)
LEMMA ReleasedKeeps ==
    ASSUME NEW a, NEW u, NEW rq, NEW rp, NEW l, Good(a, u, rq, rp, l),
           NEW b \in Apps, b.boot = a.boot, b.client = a.client, b.seq = a.seq, b.hellos = a.hellos,
           b.acts = a.acts, b.pending = a.pending, b.stalled = a.stalled, b.queue = a.queue,
           b.rehellos = a.rehellos, Len(b.gestures) = Len(a.gestures),
           \A i \in 1..Len(a.gestures) :
              /\ b.gestures[i].act = a.gestures[i].act
              /\ b.gestures[i].button = a.gestures[i].button
              /\ b.gestures[i].pressed = a.gestures[i].pressed
              /\ a.gestures[i].released => b.gestures[i].released,
           b.held # None =>
              \E i \in 1..Len(b.gestures) : b.gestures[i].button = b.held /\ ~b.gestures[i].released
    PROVE  Good(b, u, rq, rp, l)
<1>1. Typed(b, u, rq, rp, l) BY DEF Good, Typed
<1>2. Keys(b) = Keys(a) /\ Cmds(b, rq) = Cmds(a, rq) /\ Releasing(b) = Releasing(a) /\ Queued(b) = Queued(a)
      /\ Repeated(b) = Repeated(a)
  BY DEF Keys, Cmds, Releasing, Queued, Repeated
<1>3. \A n : Unsent(b, n) <=> Unsent(a, n) BY <1>2 DEF Unsent
<1>4. Network(b, u, rq, rp, l)
  <2>1. a.acts <= b.acts BY AppFields
  <2> QED BY <1>3, <2>1, QuietKeeps DEF Good
<1>5. Queues(b) BY <1>2 DEF Good, Queues
<1>6. \A n, t : IsPress(b, u, rq, n, t) <=> IsPress(a, u, rq, n, t) BY <1>2 DEF IsPress
<1>7. Holding(b, u, rq, l) BY <1>2, <1>3, <1>6 DEF Good, Holding
<1>8. Owed(b, l)
  <2>1. DOMAIN a.gestures = 1..Len(a.gestures) /\ DOMAIN b.gestures = 1..Len(a.gestures)
    BY AppFields DEF Good, Typed
  <2>2. {g.act : g \in {h \in ToSet(b.gestures) : h.pressed}}
           = {g.act : g \in {h \in ToSet(a.gestures) : h.pressed}}
    BY <2>1 DEF ToSet
  <2>3. Owing(b) = Owing(a) BY <1>2, <2>2 DEF Owing
  <2> QED BY <1>2, <2>3 DEF Good, Owed
<1>9. Bounded(b, u) BY <1>2 DEF Good, Bounded
<1> QED BY <1>1, <1>4, <1>5, <1>7, <1>8, <1>9 DEF Good

LEMMA ReleaseVolumeShape ==
    ASSUME NEW a \in Apps,
           a.held # None =>
              \E i \in 1..Len(a.gestures) : a.gestures[i].button = a.held /\ ~a.gestures[i].released
    PROVE  LET b == ReleaseVolume(a)
           IN  /\ b \in Apps /\ b.held = None /\ b.boot = a.boot /\ b.client = a.client /\ b.seq = a.seq
               /\ b.hellos = a.hellos /\ b.acts = a.acts /\ b.pending = a.pending /\ b.stalled = a.stalled
               /\ b.queue = a.queue /\ b.rehellos = a.rehellos /\ b.closing = a.closing
               /\ Len(b.gestures) = Len(a.gestures)
               /\ \A i \in 1..Len(a.gestures) :
                     /\ b.gestures[i].act = a.gestures[i].act
                     /\ b.gestures[i].button = a.gestures[i].button
                     /\ b.gestures[i].pressed = a.gestures[i].pressed
                     /\ a.gestures[i].released => b.gestures[i].released
<1>1. CASE a.held = None BY <1>1 DEF ReleaseVolume
<1>2. CASE a.held # None
  <2> DEFINE of == {i \in 1..Len(a.gestures) : a.gestures[i].button = a.held}
             open == {i \in of : ~a.gestures[i].released}
             k == Max(open)
             gs == [a.gestures EXCEPT ![k].released = TRUE]
             b == [a EXCEPT !.gestures = gs, !.held = None]
  <2>1. Released(a, a.held) = [a EXCEPT !.gestures[k].released = TRUE] BY <1>2 DEF Released
  <2> HIDE DEF k
  <2>2. ReleaseVolume(a) = b BY <1>2, <2>1 DEF ReleaseVolume, Apps
  <2>3. a.gestures \in Seq(Gestures) /\ Len(a.gestures) \in Nat /\ DOMAIN a.gestures = 1..Len(a.gestures)
        /\ \A i \in 1..Len(a.gestures) : a.gestures[i] \in Gestures
    BY AppFields
  <2>4. \A i \in 1..Len(a.gestures) :
           /\ gs[i] \in Gestures
           /\ gs[i].act = a.gestures[i].act /\ gs[i].button = a.gestures[i].button
           /\ gs[i].pressed = a.gestures[i].pressed /\ (a.gestures[i].released => gs[i].released)
    BY <2>3 DEF Gestures
  <2>5. DOMAIN gs = 1..Len(a.gestures) BY <2>3
  <2>6. gs = [i \in 1..Len(a.gestures) |-> gs[i]] BY <2>3
  <2>7. gs \in Seq(Gestures) /\ Len(gs) = Len(a.gestures)
    <3> HIDE DEF gs
    <3> QED BY <2>3, <2>4, <2>5, <2>6, IsASeq, LenProperties
  <2> HIDE DEF gs
  <2>8. b \in Apps BY <2>7 DEF Apps
  <2>9. b.gestures = gs BY DEF Apps
  <2> QED BY <2>2, <2>4, <2>7, <2>8, <2>9 DEF Apps
<1> QED BY <1>1, <1>2

LEMMA ReleaseVolumeKeeps ==
    ASSUME NEW a, NEW u, NEW rq, NEW rp, NEW l, Good(a, u, rq, rp, l)
    PROVE  LET b == ReleaseVolume(a)
           IN  /\ Good(b, u, rq, rp, l) /\ b.held = None /\ b.acts = a.acts /\ b.closing = a.closing
               /\ Queued(b) = Queued(a)
<1> DEFINE b == ReleaseVolume(a)
<1>1. a \in Apps /\ (a.held # None =>
         \E i \in 1..Len(a.gestures) : a.gestures[i].button = a.held /\ ~a.gestures[i].released)
  BY DEF Good, Typed, Owed
<1>2. /\ b \in Apps /\ b.held = None /\ b.boot = a.boot /\ b.client = a.client /\ b.seq = a.seq
      /\ b.hellos = a.hellos /\ b.acts = a.acts /\ b.pending = a.pending /\ b.stalled = a.stalled
      /\ b.queue = a.queue /\ b.rehellos = a.rehellos /\ b.closing = a.closing
      /\ Len(b.gestures) = Len(a.gestures)
      /\ \A i \in 1..Len(a.gestures) :
            /\ b.gestures[i].act = a.gestures[i].act
            /\ b.gestures[i].button = a.gestures[i].button
            /\ b.gestures[i].pressed = a.gestures[i].pressed
            /\ a.gestures[i].released => b.gestures[i].released
  BY <1>1, ReleaseVolumeShape
<1> HIDE DEF b
<1>3. Good(b, u, rq, rp, l) BY <1>2, ReleasedKeeps
<1> QED BY <1>2, <1>3 DEF b, Queued

LEMMA AppendShape ==
    ASSUME NEW S, NEW s \in Seq(S), NEW e \in S
    PROVE  LET t == Append(s, e)
           IN  /\ t \in Seq(S) /\ Len(s) \in Nat /\ Len(t) = Len(s) + 1 /\ t[Len(t)] = e
               /\ \A i \in 1..Len(s) : i \in 1..Len(t) /\ t[i] = s[i] /\ i # Len(t)
               /\ \A i \in 1..Len(t) : i \in 1..Len(s) \/ i = Len(t)
<1> DEFINE t == Append(s, e)
<1>1. /\ t \in Seq(S) /\ Len(s) \in Nat /\ Len(t) = Len(s) + 1 /\ t[Len(s) + 1] = e
      /\ \A i \in 1..Len(s) : t[i] = s[i]
  BY AppendProperties, LenProperties
<1> HIDE DEF t
<1>2. \A i \in 1..Len(s) : i \in 1..Len(t) /\ i # Len(t) BY <1>1
<1>3. \A i \in 1..Len(t) : i \in 1..Len(s) \/ i = Len(t) BY <1>1
<1> QED BY <1>1, <1>2, <1>3 DEF t

(* A press is queued. *)
LEMMA PressKeeps ==
    ASSUME NEW a, NEW u, NEW rq, NEW rp, NEW l, Good(a, u, rq, rp, l),
           NEW button \in Buttons, a.acts < MaxActs, Queued(a) < Room
    PROVE  Good([a EXCEPT !.gestures = Append(a.gestures, [button |-> button, act |-> a.acts + 1,
                                                           pressed |-> FALSE, released |-> FALSE]),
                          !.held = button, !.acts = a.acts + 1], u, rq, rp, l)
<1> DEFINE n == a.acts + 1
           g == [button |-> button, act |-> n, pressed |-> FALSE, released |-> FALSE]
           gs == Append(a.gestures, g)
           b == [a EXCEPT !.gestures = gs, !.held = button, !.acts = n]
<1>1. a \in Apps /\ a.acts \in Nat /\ n \in Acts /\ n \in Nat /\ n > a.acts /\ n <= MaxActs
      /\ \A x \in Nat : x <= a.acts => x <= n /\ x # n
  BY Numbers, AppFields DEF Good, Typed, Acts
<1>2. g \in Gestures BY <1>1 DEF Gestures
<1>3. /\ gs \in Seq(Gestures) /\ Len(a.gestures) \in Nat /\ Len(gs) = Len(a.gestures) + 1 /\ gs[Len(gs)] = g
      /\ \A i \in 1..Len(a.gestures) : i \in 1..Len(gs) /\ gs[i] = a.gestures[i] /\ i # Len(gs)
      /\ \A i \in 1..Len(gs) : i \in 1..Len(a.gestures) \/ i = Len(gs)
  BY <1>1, <1>2, AppFields, AppendShape
<1> HIDE DEF gs
<1>4. g.act = n /\ g.button = button /\ ~g.pressed /\ ~g.released OBVIOUS
<1> HIDE DEF g, n
<1>5. /\ b \in Apps /\ b.boot = a.boot /\ b.client = a.client /\ b.seq = a.seq /\ b.hellos = a.hellos
      /\ b.acts = n /\ b.pending = a.pending /\ b.stalled = a.stalled /\ b.queue = a.queue
      /\ b.rehellos = a.rehellos /\ b.gestures = gs /\ b.held = button
  BY <1>1, <1>3 DEF Apps
<1> HIDE DEF b
<1>6. Keys(b) = Keys(a) /\ Cmds(b, rq) = Cmds(a, rq) /\ Releasing(b) = Releasing(a)
      /\ Queued(b) = Queued(a) + 1 /\ Repeated(b) = Repeated(a) /\ Queued(a) \in Nat
  <2>1. Keys(b) = Keys(a) BY <1>5 DEF Keys
  <2>2. Cmds(b, rq) = Cmds(a, rq) /\ Releasing(b) = Releasing(a) /\ Repeated(b) = Repeated(a)
    BY <1>5 DEF Cmds, Releasing, Repeated
  <2>4. Queued(b) = Queued(a) + 1 /\ Queued(a) \in Nat
    <3>1. Len(b.queue) = Len(a.queue) BY <1>5
    <3>2. Len(b.gestures) = Len(a.gestures) + 1 BY <1>3, <1>5
    <3> QED BY <1>1, <1>5, <3>1, <3>2, QueuedStep
  <2> QED BY <2>1, <2>2, <2>4
<1>7. \A x : Unsent(b, x) => Unsent(a, x) \/ x = n BY <1>3, <1>4, <1>5, <1>6 DEF Unsent
<1>8. Typed(b, u, rq, rp, l) BY <1>1, <1>5 DEF Good, Typed
<1>9. Network(b, u, rq, rp, l)
  <2>1. a.acts <= b.acts /\ \A x \in Acts : x <= a.acts /\ Unsent(b, x) => Unsent(a, x)
    BY <1>1, <1>5, <1>7, Numbers
  <2> QED BY <1>5, <2>1, QuietKeeps DEF Good
<1>10. Queues(b)
  <2>1. \A i \in Keys(a) : a.queue[i].act \in Nat /\ a.queue[i].act <= a.acts
    BY <1>1, AppFields, Numbers DEF Good, Queues, Keys, KeyTokens
  <2>2. \A i \in 1..Len(a.gestures) : a.gestures[i].act \in Nat /\ a.gestures[i].act <= a.acts
    BY <1>1, AppFields, Numbers DEF Good, Queues, Gestures
  <2>3. Releasing(a) => a.pending.token.act \in Nat /\ a.pending.token.act <= a.acts
    BY CommandShape, Numbers DEF Good, Network, Once, Releasing, Status, Token
  <2>4. \A i \in 1..Len(gs) : gs[i].act \in Nat /\ gs[i].act <= n /\ (i # Len(gs) => gs[i].act # n)
    BY <1>1, <1>3, <1>4, <2>2
  <2>5. \A i \in Keys(a) : a.queue[i].act <= n /\ a.queue[i].act # n BY <1>1, <2>1
  <2>6. \A i, j \in 1..Len(gs) : gs[i].act = gs[j].act => i = j
    BY <1>3, <1>4, <2>4 DEF Good, Queues
  <2>7. \A i \in Keys(a), j \in 1..Len(gs) : a.queue[i].act # gs[j].act
    BY <1>3, <1>4, <2>5 DEF Good, Queues
  <2>8. Releasing(a) => \A j \in 1..Len(gs) : gs[j].act # a.pending.token.act
    <3>1. Releasing(a) => a.pending.token.act # n BY <1>1, <2>3
    <3> QED BY <1>3, <1>4, <3>1 DEF Good, Queues
  <2> QED BY <1>5, <1>6, <2>4, <2>5, <2>6, <2>7, <2>8 DEF Good, Queues
<1>11. Holding(b, u, rq, l)
  <2>1. \A c \in Cmds(a, rq) : c.token.name \in {"P", "R"} => c.token.act \in Nat /\ c.token.act <= a.acts
    BY CommandShape, Numbers DEF Good, Network, Once, Status, Token
  <2>2. \A x \in Acts : \A t : IsPress(b, u, rq, x, t) => IsPress(a, u, rq, x, t) \/ (x = n /\ t = button)
    BY <1>3, <1>4, <1>5, <1>6 DEF IsPress
  <2>3. \A x \in Acts : x \in Nat BY Numbers
  <2>4. u.hold # Nothing => u.hold.act \in Acts /\ u.hold.button \in Buttons BY DEF Good, Typed, Units, Holds
  <2>5. u.hold # Nothing => u.hold.act <= a.acts
    BY <2>4 DEF Good, Holding, IsPress
  <2>6. \A x \in Acts, t \in Buttons : IsPress(a, u, rq, x, t) => x <= a.acts /\ x # n
    BY <1>1, <2>3 DEF Good, Holding
  <2>7. \A x \in Acts, t \in Buttons : IsPress(b, u, rq, x, t) =>
          x <= n /\ \A d \in Buttons : IsPress(b, u, rq, x, d) => t = d
    BY <1>1, <2>2, <2>3, <2>6 DEF Good, Holding
  <2>8. \A c \in Cmds(b, rq) : c.token.name = "P" =>
          \A i \in 1..Len(b.gestures) : b.gestures[i].act = c.token.act =>
                c.client = b.client \/ ~Known(u, c.client)
    BY <1>1, <1>3, <1>4, <1>5, <1>6, <2>1 DEF Good, Holding
  <2>9. u.hold # Nothing => u.hold.act \notin l.stopped /\ ~Unsent(b, u.hold.act)
    BY <1>1, <1>7, <2>3, <2>4, <2>5 DEF Good, Holding
  <2> QED BY <1>5, <1>6, <2>7, <2>8, <2>9 DEF Good, Holding
<1>12. Owed(b, l)
  <2>1. DOMAIN a.gestures = 1..Len(a.gestures) /\ DOMAIN gs = 1..Len(gs)
    BY <1>1, <1>3, <1>5, AppFields
  <2>2. {h \in ToSet(gs) : h.pressed} = {h \in ToSet(a.gestures) : h.pressed}
    BY <1>3, <1>4, <2>1 DEF ToSet
  <2>3. Owing(b) = Owing(a) BY <1>5, <1>6, <2>2 DEF Owing
  <2>4. Len(gs) \in 1..Len(gs) BY <1>3
  <2> QED BY <1>3, <1>4, <1>5, <1>6, <2>3, <2>4 DEF Good, Owed
<1>13. Bounded(b, u)
  <2>1. Queued(b) <= Room /\ (Repeated(b) => Queued(b) + 1 <= Room + 1) /\ Queued(b) \in Nat
    BY <1>6, Numbers
  <2> QED BY <1>5, <1>6, <2>1, Numbers DEF Good, Bounded
<1> QED BY <1>8, <1>9, <1>10, <1>11, <1>12, <1>13 DEF Good, b, g, gs, n

(* A key is queued. *)
LEMMA KeyKeeps ==
    ASSUME NEW a, NEW u, NEW rq, NEW rp, NEW l, Good(a, u, rq, rp, l),
           NEW name \in Taps, a.acts < MaxActs, Queued(a) < Room
    PROVE  Good([a EXCEPT !.queue = Append(a.queue, Token(name, None, a.acts + 1)), !.acts = a.acts + 1],
                u, rq, rp, l)
<1> DEFINE n == a.acts + 1
           k == Token(name, None, n)
           q == Append(a.queue, k)
           b == [a EXCEPT !.queue = q, !.acts = n]
<1>1. a \in Apps /\ a.acts \in Nat /\ n \in Acts /\ n \in Nat /\ n > a.acts /\ n <= MaxActs
      /\ \A x \in Nat : x <= a.acts => x <= n /\ x # n
  BY Numbers, AppFields DEF Good, Typed, Acts
<1>2. k \in KeyTokens /\ k.act = n /\ k # Status /\ Status \in KeyTokens
  BY <1>1, Numbers DEF KeyTokens, Token, Status
<1>3. /\ q \in Seq(KeyTokens) /\ Len(a.queue) \in Nat /\ Len(q) = Len(a.queue) + 1 /\ q[Len(q)] = k
      /\ \A i \in 1..Len(a.queue) : i \in 1..Len(q) /\ q[i] = a.queue[i] /\ i # Len(q)
      /\ \A i \in 1..Len(q) : i \in 1..Len(a.queue) \/ i = Len(q)
  BY <1>1, <1>2, AppFields, AppendShape
<1> HIDE DEF q, k, n
<1>4. /\ b \in Apps /\ b.boot = a.boot /\ b.client = a.client /\ b.seq = a.seq /\ b.hellos = a.hellos
      /\ b.acts = n /\ b.pending = a.pending /\ b.stalled = a.stalled /\ b.queue = q
      /\ b.rehellos = a.rehellos /\ b.gestures = a.gestures /\ b.held = a.held
  BY <1>1, <1>3 DEF Apps
<1> HIDE DEF b
<1>5. Cmds(b, rq) = Cmds(a, rq) /\ Releasing(b) = Releasing(a)
      /\ Queued(b) = Queued(a) + 1 /\ Repeated(b) = Repeated(a) /\ Queued(a) \in Nat
  <2>2. Cmds(b, rq) = Cmds(a, rq) /\ Releasing(b) = Releasing(a) /\ Repeated(b) = Repeated(a)
    BY <1>4 DEF Cmds, Releasing, Repeated
  <2>4. Queued(b) = Queued(a) + 1 /\ Queued(a) \in Nat
    <3>1. Len(b.gestures) = Len(a.gestures) BY <1>4
    <3>2. Len(b.queue) = Len(a.queue) + 1 BY <1>3, <1>4
    <3> QED BY <1>1, <1>4, <3>1, <3>2, QueuedStep
  <2> QED BY <2>2, <2>4
<1>6. /\ \A i \in Keys(a) : i \in Keys(b) /\ q[i] = a.queue[i] /\ i # Len(q)
      /\ \A i \in Keys(b) : i \in Keys(a) \/ i = Len(q)
  BY <1>2, <1>3, <1>4 DEF Keys
<1>7. \A x : Unsent(b, x) => Unsent(a, x) \/ x = n BY <1>2, <1>3, <1>4, <1>6 DEF Unsent
<1>8. Typed(b, u, rq, rp, l) BY <1>1, <1>4 DEF Good, Typed
<1>9. Network(b, u, rq, rp, l)
  <2>1. a.acts <= b.acts /\ \A x \in Acts : x <= a.acts /\ Unsent(b, x) => Unsent(a, x)
    BY <1>1, <1>4, <1>7, Numbers
  <2> QED BY <1>4, <2>1, QuietKeeps DEF Good
<1>10. Queues(b)
  <2>1. \A i \in Keys(a) : a.queue[i].act \in Nat /\ a.queue[i].act <= a.acts
    BY <1>1, AppFields, Numbers DEF Good, Queues, Keys, KeyTokens
  <2>2. \A i \in 1..Len(a.gestures) : a.gestures[i].act \in Nat /\ a.gestures[i].act <= a.acts
    BY <1>1, AppFields, Numbers DEF Good, Queues, Gestures
  <2>3. Releasing(a) => a.pending.token.act \in Nat /\ a.pending.token.act <= a.acts
    BY CommandShape, Numbers DEF Good, Network, Once, Releasing, Status, Token
  <2>4. \A i \in Keys(b) : q[i].act <= n /\ (i # Len(q) => q[i].act # n)
    BY <1>1, <1>2, <1>3, <1>6, <2>1
  <2>5. \A i \in 1..Len(a.gestures) : a.gestures[i].act <= n /\ a.gestures[i].act # n BY <1>1, <2>2
  <2>6. \A i, j \in Keys(b) : q[i].act = q[j].act => i = j
    BY <1>2, <1>3, <1>6, <2>4 DEF Good, Queues
  <2>7. \A i \in Keys(b), j \in 1..Len(a.gestures) : q[i].act # a.gestures[j].act
    BY <1>2, <1>3, <1>6, <2>5 DEF Good, Queues
  <2>8. Releasing(a) => \A i \in Keys(b) : q[i].act # a.pending.token.act
    <3>1. Releasing(a) => a.pending.token.act # n BY <1>1, <2>3
    <3> QED BY <1>2, <1>3, <1>6, <3>1 DEF Good, Queues
  <2> QED BY <1>4, <1>5, <2>4, <2>5, <2>6, <2>7, <2>8 DEF Good, Queues
<1>11. Holding(b, u, rq, l)
  <2>1. \A x, t : IsPress(b, u, rq, x, t) <=> IsPress(a, u, rq, x, t) BY <1>4, <1>5 DEF IsPress
  <2>2. \A x \in Acts : x \in Nat BY Numbers
  <2>3. u.hold # Nothing => u.hold.act \in Acts /\ u.hold.button \in Buttons BY DEF Good, Typed, Units, Holds
  <2>4. u.hold # Nothing => u.hold.act <= a.acts BY <2>3 DEF Good, Holding, IsPress
  <2>5. u.hold # Nothing => u.hold.act \notin l.stopped /\ ~Unsent(b, u.hold.act)
    BY <1>1, <1>7, <2>2, <2>3, <2>4 DEF Good, Holding
  <2>6. \A x \in Acts, t \in Buttons : IsPress(b, u, rq, x, t) =>
          x <= b.acts /\ \A d \in Buttons : IsPress(b, u, rq, x, d) => t = d
    BY <1>1, <1>4, <2>1, <2>2 DEF Good, Holding
  <2> QED BY <1>4, <1>5, <2>5, <2>6 DEF Good, Holding
<1>12. Owed(b, l)
  <2>1. Owing(b) = Owing(a) BY <1>4, <1>5 DEF Owing
  <2> QED BY <1>4, <1>5, <2>1 DEF Good, Owed
<1>13. Bounded(b, u)
  <2>1. Queued(b) <= Room /\ (Repeated(b) => Queued(b) + 1 <= Room + 1) /\ Queued(b) \in Nat
    BY <1>5, Numbers
  <2> QED BY <1>4, <1>5, <2>1, Numbers DEF Good, Bounded
<1> QED BY <1>8, <1>9, <1>10, <1>11, <1>12, <1>13 DEF Good, b, q, k, n

(* What was not sent is dropped. *)
LEMMA DroppedKeeps ==
    ASSUME NEW a, NEW u, NEW rq, NEW rp, NEW l, Good(a, u, rq, rp, l),
           NEW b \in Apps, b.boot = a.boot, b.client = a.client, b.seq = a.seq, b.hellos = a.hellos,
           b.acts = a.acts, b.pending = a.pending, b.stalled = a.stalled, b.queue = <<>>,
           b.rehellos = a.rehellos,
           \/ Len(b.gestures) = 0 /\ ~(Len(a.gestures) > 0 /\ a.gestures[1].pressed)
           \/ /\ Len(b.gestures) = 1 /\ Len(a.gestures) > 0 /\ a.gestures[1].pressed
              /\ b.gestures[1].act = a.gestures[1].act
              /\ b.gestures[1].button = a.gestures[1].button
              /\ b.gestures[1].pressed
              /\ a.gestures[1].released => b.gestures[1].released,
           b.held # None =>
              \E i \in 1..Len(b.gestures) : b.gestures[i].button = b.held /\ ~b.gestures[i].released
    PROVE  Good(b, u, rq, rp, l)
<1>1. a \in Apps /\ Len(b.queue) = 0 /\ Len(a.gestures) \in Nat /\ Len(b.gestures) \in Nat /\ Len(a.queue) \in Nat
  BY AppFields, EmptySeq DEF Good, Typed
<1>2. /\ \A i \in 1..Len(b.gestures) :
            /\ i = 1 /\ i \in 1..Len(a.gestures) /\ b.gestures[i].pressed /\ a.gestures[i].pressed
            /\ b.gestures[i].act = a.gestures[i].act /\ b.gestures[i].button = a.gestures[i].button
      /\ Len(b.gestures) <= Len(a.gestures) /\ Len(b.queue) <= Len(a.queue)
  <2> DEFINE x == Len(a.gestures)
             y == Len(b.gestures)
             z == Len(a.queue)
             w == Len(b.queue)
  <2>1. x \in Nat /\ y \in Nat /\ z \in Nat /\ w = 0 /\ (y = 0 \/ (y = 1 /\ x > 0)) BY <1>1
  <2> HIDE DEF x, y, z, w
  <2>2. y <= x /\ w <= z /\ \A i \in 1..y : i = 1 /\ y = 1 /\ i \in 1..x BY <2>1
  <2>3. \A i \in 1..Len(b.gestures) : i = 1 /\ Len(b.gestures) = 1 /\ i \in 1..Len(a.gestures)
    BY <2>2 DEF x, y
  <2> QED BY <2>2, <2>3 DEF x, y, z, w
<1>3. Keys(b) = {} /\ Cmds(b, rq) = Cmds(a, rq) /\ Releasing(b) = Releasing(a) /\ Repeated(b) = Repeated(a)
  BY <1>1 DEF Keys, Cmds, Releasing, Repeated
<1>4. Queued(b) <= Queued(a) /\ Queued(a) \in Nat /\ Queued(b) \in Nat BY <1>1, <1>2, QueuedStep
<1>5. \A n : ~Unsent(b, n) BY <1>2, <1>3 DEF Unsent
<1>6. Typed(b, u, rq, rp, l) BY DEF Good, Typed
<1>7. Network(b, u, rq, rp, l)
  <2>1. a.acts <= b.acts BY <1>1, AppFields
  <2> QED BY <1>5, <2>1, QuietKeeps DEF Good
<1>8. Queues(b) BY <1>2, <1>3 DEF Good, Queues
<1>9. Holding(b, u, rq, l)
  <2>1. \A n, t : IsPress(b, u, rq, n, t) => IsPress(a, u, rq, n, t) BY <1>2, <1>3 DEF IsPress
  <2>2. \A n \in Acts, t \in Buttons : IsPress(b, u, rq, n, t) =>
          n <= b.acts /\ \A d \in Buttons : IsPress(b, u, rq, n, d) => t = d
    BY <2>1 DEF Good, Holding
  <2> QED BY <1>2, <1>3, <1>5, <2>2 DEF Good, Holding
<1>10. Owed(b, l)
  <2>1. DOMAIN a.gestures = 1..Len(a.gestures) /\ DOMAIN b.gestures = 1..Len(b.gestures)
    BY <1>1, AppFields
  <2>2. \A i \in 1..Len(a.gestures) : a.gestures[i].pressed => i = 1 /\ 1 \in 1..Len(b.gestures)
    BY <1>1 DEF Good, Owed
  <2>3. {g.act : g \in {h \in ToSet(b.gestures) : h.pressed}}
           = {g.act : g \in {h \in ToSet(a.gestures) : h.pressed}}
    <3>1. ASSUME NEW i \in 1..Len(b.gestures)
          PROVE  b.gestures[i].act \in {g.act : g \in {h \in ToSet(a.gestures) : h.pressed}}
      <4>1. a.gestures[i] \in {h \in ToSet(a.gestures) : h.pressed} BY <1>2, <2>1 DEF ToSet
      <4> QED BY <1>2, <4>1
    <3>2. ASSUME NEW i \in 1..Len(a.gestures), a.gestures[i].pressed
          PROVE  a.gestures[i].act \in {g.act : g \in {h \in ToSet(b.gestures) : h.pressed}}
      <4>1. i \in 1..Len(b.gestures) BY <2>2, <3>2
      <4>2. b.gestures[i] \in {h \in ToSet(b.gestures) : h.pressed} BY <1>2, <2>1, <4>1 DEF ToSet
      <4> QED BY <1>2, <4>1, <4>2
    <3> QED BY <2>1, <3>1, <3>2 DEF ToSet
  <2>4. Owing(b) = Owing(a) BY <1>3, <2>3 DEF Owing
  <2> QED BY <1>2, <1>3, <2>4 DEF Good, Owed
<1>11. Bounded(b, u)
  <2>1. Queued(b) <= Room
    <3>1. Len(b.queue) = 0 /\ (Len(b.gestures) = 0 \/ Len(b.gestures) = 1) BY <1>1
    <3>2. Queued(b) = 0 \/ Queued(b) = 1 BY <3>1 DEF Queued
    <3> QED BY <1>4, <3>2, Numbers
  <2>2. Repeated(b) => Queued(b) + 1 <= Room + 1 BY <1>4, <2>1, Numbers
  <2>3. Queued(b) <= Room + 1 BY <1>4, <2>1, Numbers
  <2>4. Queued(b) + (IF Repeated(b) THEN 1 ELSE 0) <= Room + 1 BY <1>4, <2>2, <2>3
  <2>5. b.stalled => Releasing(b) BY <1>3 DEF Good, Bounded
  <2> QED BY <2>1, <2>4, <2>5 DEF Good, Bounded
<1> QED BY <1>6, <1>7, <1>8, <1>9, <1>10, <1>11 DEF Good

LEMMA FirstGesture ==
    ASSUME NEW a, NEW u, NEW rq, NEW rp, NEW l, Good(a, u, rq, rp, l)
    PROVE  LET gs == Begun(a.gestures)
           IN  /\ gs \in Seq(Gestures)
               /\ \/ Len(gs) = 0 /\ ~(Len(a.gestures) > 0 /\ a.gestures[1].pressed)
                  \/ /\ Len(gs) = 1 /\ Len(a.gestures) > 0 /\ a.gestures[1].pressed
                     /\ gs[1] = a.gestures[1]
<1>1. a \in Apps BY DEF Good, Typed
<1>2. \A i \in 1..Len(a.gestures) : a.gestures[i].pressed => i = 1 BY DEF Good, Owed
<1>3. a.gestures \in Seq(Gestures) /\ Len(a.gestures) \in Nat
      /\ \A i \in 1..Len(a.gestures) : a.gestures[i] \in Gestures
  BY <1>1, AppFields
<1>4. Begun(a.gestures) = IF Len(a.gestures) > 0 /\ a.gestures[1].pressed THEN <<a.gestures[1]>> ELSE <<>>
  BY <1>2, <1>3, BegunIsFirst
<1>5. CASE Len(a.gestures) > 0 /\ a.gestures[1].pressed
  <2>1. a.gestures[1] \in Gestures BY <1>3, <1>5
  <2> DEFINE g == a.gestures[1]
  <2> HIDE DEF g
  <2>2. <<g>> \in Seq(Gestures) /\ Len(<<g>>) = 1 /\ <<g>>[1] = g BY <2>1 DEF g
  <2> QED BY <1>4, <1>5, <2>2 DEF g
<1>6. CASE ~(Len(a.gestures) > 0 /\ a.gestures[1].pressed)
  BY <1>4, <1>6, EmptySeq
<1> QED BY <1>5, <1>6

LEMMA DropKeeps ==
    ASSUME NEW a, NEW u, NEW rq, NEW rp, NEW l, Good(a, u, rq, rp, l)
    PROVE  LET b == DropUnsent(a)
           IN  /\ Good(b, u, rq, rp, l) /\ b.pending = a.pending /\ b.stalled = a.stalled
<1> DEFINE gs == Begun(a.gestures)
           still == \E g \in ToSet(gs) : g.button = a.held /\ ~g.released
           held == IF still THEN a.held ELSE None
           b == [a EXCEPT !.queue = <<>>, !.gestures = gs, !.held = held]
<1>1. a \in Apps BY DEF Good, Typed
<1>2. /\ gs \in Seq(Gestures)
      /\ \/ Len(gs) = 0 /\ ~(Len(a.gestures) > 0 /\ a.gestures[1].pressed)
         \/ /\ Len(gs) = 1 /\ Len(a.gestures) > 0 /\ a.gestures[1].pressed
            /\ gs[1] = a.gestures[1]
  BY FirstGesture
<1>3. DropUnsent(a) = b BY DEF DropUnsent
<1> HIDE DEF gs
<1>4. held \in Buttons \cup {None} /\ (held # None =>
         \E i \in 1..Len(gs) : gs[i].button = held /\ ~gs[i].released)
  <2>1. a.held \in Buttons \cup {None} BY <1>1 DEF Apps
  <2>2. DOMAIN gs = 1..Len(gs) BY <1>2, LenProperties
  <2> QED BY <2>1, <2>2 DEF ToSet
<1> HIDE DEF held
<1>5. /\ b \in Apps /\ b.boot = a.boot /\ b.client = a.client /\ b.seq = a.seq /\ b.hellos = a.hellos
      /\ b.acts = a.acts /\ b.pending = a.pending /\ b.stalled = a.stalled /\ b.queue = <<>>
      /\ b.rehellos = a.rehellos /\ b.gestures = gs /\ b.held = held
  BY <1>1, <1>2, <1>4, EmptySeq DEF Apps
<1> HIDE DEF b
<1>6. Good(b, u, rq, rp, l) BY <1>2, <1>4, <1>5, DroppedKeeps
<1> QED BY <1>3, <1>5, <1>6

(* Nothing is pending any more, and the log may say what became of it. *)
LEMMA ClearedKeeps ==
    ASSUME NEW a, NEW u, NEW rq, NEW rp, NEW l, Good(a, u, rq, rp, l),
           NEW rehellos \in Nat, rehellos <= MaxRehellos,
           NEW k \in Logs, k.ran = l.ran, k.stopped = l.stopped,
           k.owed = IF Releasing(a) THEN l.owed \ {a.pending.token.act} ELSE l.owed,
           \A n \in k.sent : n \in l.sent \/ l.ran[n] > 0,
           \A n \in k.refused : n \in l.refused \/
              (n <= a.acts /\ ~Unsent(a, n) /\ l.ran[n] = 0
                 /\ \A c \in Cmds(a, rq) : Doing(c) /\ c.token.act = n => Denied(c.token))
    PROVE  Good([a EXCEPT !.pending = Nothing, !.stalled = FALSE, !.rehellos = rehellos], u, rq, rp, k)
<1> DEFINE b == [a EXCEPT !.pending = Nothing, !.stalled = FALSE, !.rehellos = rehellos]
<1>1. a \in Apps BY DEF Good, Typed
<1>2. /\ b \in Apps /\ b.boot = a.boot /\ b.client = a.client /\ b.seq = a.seq /\ b.hellos = a.hellos
      /\ b.acts = a.acts /\ b.pending = Nothing /\ b.stalled = FALSE /\ b.queue = a.queue
      /\ b.rehellos = rehellos /\ b.gestures = a.gestures /\ b.held = a.held
  BY <1>1 DEF Apps
<1> HIDE DEF b
<1>3. Keys(b) = Keys(a) BY <1>2 DEF Keys
<1>4. Cmds(b, rq) \subseteq Cmds(a, rq) /\ ~Releasing(b) /\ ~Repeated(b)
  BY <1>2 DEF Cmds, Releasing, Repeated, Nothing, None
<1>5. Queued(b) = Queued(a) BY <1>2 DEF Queued
<1>6. \A n : Unsent(b, n) <=> Unsent(a, n) BY <1>2, <1>3 DEF Unsent
<1>7. Typed(b, u, rq, rp, k) BY <1>2 DEF Good, Typed
<1>8. Network(b, u, rq, rp, k)
  <2>1. Network(b, u, rq, rp, l)
    <3>1. a.acts <= b.acts BY <1>1, <1>2, AppFields
    <3> QED BY <1>2, <1>6, <3>1, QuietKeeps DEF Good
  <2>2. Once(b, u, rq, k) BY <1>2, <1>6, <2>1 DEF Network, Once
  <2>3. Truthful(b, u, rq, rp, k) BY <1>4, <2>1 DEF Network, Truthful
  <2> QED BY <2>1, <2>2, <2>3 DEF Network
<1>9. Queues(b) BY <1>2, <1>3, <1>4 DEF Good, Queues
<1>10. Holding(b, u, rq, k)
  <2>1. \A n, t : IsPress(b, u, rq, n, t) => IsPress(a, u, rq, n, t) BY <1>2, <1>4 DEF IsPress
  <2>2. \A n \in Acts, t \in Buttons : IsPress(b, u, rq, n, t) =>
          n <= b.acts /\ \A d \in Buttons : IsPress(b, u, rq, n, d) => t = d
    BY <1>2, <2>1 DEF Good, Holding
  <2> QED BY <1>2, <1>4, <1>6, <2>2 DEF Good, Holding
<1>11. Owed(b, k)
  <2> DEFINE pressed == {g.act : g \in {h \in ToSet(a.gestures) : h.pressed}}
  <2>1. Owing(b) = pressed BY <1>2, <1>4 DEF Owing
  <2>2. Owing(a) = pressed \cup (IF Releasing(a) THEN {a.pending.token.act} ELSE {}) BY DEF Owing
  <2>3. Releasing(a) => a.pending.token.act \notin pressed
    <3>1. DOMAIN a.gestures = 1..Len(a.gestures) BY <1>1, AppFields
    <3>2. Releasing(a) => \A i \in 1..Len(a.gestures) : ~a.gestures[i].pressed BY DEF Good, Owed
    <3> QED BY <3>1, <3>2 DEF ToSet
  <2> HIDE DEF pressed
  <2>4. Owing(b) = k.owed BY <2>1, <2>2, <2>3 DEF Good, Owed
  <2> QED BY <1>2, <1>4, <2>4 DEF Good, Owed
<1>12. Bounded(b, u)
  <2>1. Queued(a) \in Nat BY <1>1, QueuedStep
  <2>2. Queued(b) + (IF Repeated(b) THEN 1 ELSE 0) <= Room + 1
    BY <1>4, <1>5, <2>1, Numbers DEF Good, Bounded
  <2> QED BY <1>2, <1>5, <2>2 DEF Good, Bounded
<1> QED BY <1>7, <1>8, <1>9, <1>10, <1>11, <1>12 DEF Good, b

(* A command is given up, or a hello expires. *)
LEMMA GivenUpKeeps ==
    ASSUME NEW a, NEW u, NEW rq, NEW rp, NEW l, Good(a, u, rq, rp, l), ~Releasing(a)
    PROVE  LET b == [a EXCEPT !.pending = Nothing]
           IN  /\ Good(b, u, rq, rp, l) /\ b.pending = Nothing
<1> DEFINE b == [a EXCEPT !.pending = Nothing, !.stalled = FALSE, !.rehellos = a.rehellos]
<1>1. a \in Apps /\ l \in Logs /\ a.rehellos \in Nat /\ a.rehellos <= MaxRehellos
  BY AppFields DEF Good, Typed, Bounded
<1>2. Good(b, u, rq, rp, l) BY <1>1, ClearedKeeps
<1>3. a.stalled = FALSE BY <1>1 DEF Good, Bounded, Apps
<1>4. [a EXCEPT !.pending = Nothing] = b BY <1>1, <1>3 DEF Apps
<1>5. b.pending = Nothing BY <1>1 DEF Apps
<1> QED BY <1>2, <1>4, <1>5

(* A release that was not answered stalls. *)
LEMMA StallKeeps ==
    ASSUME NEW a, NEW u, NEW rq, NEW rp, NEW l, Good(a, u, rq, rp, l), Releasing(a)
    PROVE  Good([a EXCEPT !.stalled = TRUE], u, rq, rp, l)
<1> DEFINE b == [a EXCEPT !.stalled = TRUE]
<1>1. a \in Apps BY DEF Good, Typed
<1>2. /\ b \in Apps /\ b.boot = a.boot /\ b.client = a.client /\ b.seq = a.seq /\ b.hellos = a.hellos
      /\ b.acts = a.acts /\ b.pending = a.pending /\ b.queue = a.queue
      /\ b.rehellos = a.rehellos /\ b.gestures = a.gestures /\ b.held = a.held
  BY <1>1 DEF Apps
<1> HIDE DEF b
<1>3. Keys(b) = Keys(a) /\ Queued(b) = Queued(a) BY <1>2 DEF Keys, Queued
<1>4. Cmds(b, rq) = Cmds(a, rq) /\ Releasing(b) = Releasing(a) /\ Repeated(b) = Repeated(a)
  BY <1>2 DEF Cmds, Releasing, Repeated
<1>5. \A n : Unsent(b, n) <=> Unsent(a, n) BY <1>2, <1>3 DEF Unsent
<1>6. Typed(b, u, rq, rp, l) BY <1>2 DEF Good, Typed
<1>7. Network(b, u, rq, rp, l)
  <2>1. a.acts <= b.acts BY <1>1, <1>2, AppFields
  <2> QED BY <1>2, <1>5, <2>1, QuietKeeps DEF Good
<1>8. Queues(b) BY <1>2, <1>3, <1>4 DEF Good, Queues
<1>9. Holding(b, u, rq, l)
  <2>1. \A n, t : IsPress(b, u, rq, n, t) <=> IsPress(a, u, rq, n, t) BY <1>2, <1>4 DEF IsPress
  <2> QED BY <1>2, <1>4, <1>5, <2>1 DEF Good, Holding
<1>10. Owed(b, l)
  <2>1. Owing(b) = Owing(a) BY <1>2, <1>4 DEF Owing
  <2> QED BY <1>2, <1>4, <2>1 DEF Good, Owed
<1>11. Bounded(b, u) BY <1>2, <1>3, <1>4 DEF Good, Bounded
<1> QED BY <1>6, <1>7, <1>8, <1>9, <1>10, <1>11 DEF Good, b

(* The badge begins again: nothing queued, nothing pending, no session. *)
LEMMA RestartKeeps ==
    ASSUME NEW a, NEW u, NEW rq, NEW rp, NEW l, Good(a, u, rq, rp, l)
    PROVE  Good(InitApp(a.acts, a.hellos), u, rq, rp, [l EXCEPT !.owed = {}])
<1> DEFINE b == InitApp(a.acts, a.hellos)
           k == [l EXCEPT !.owed = {}]
<1>1. a \in Apps /\ l \in Logs /\ u \in Units BY DEF Good, Typed
<1>2. k \in Logs /\ k.ran = l.ran /\ k.stopped = l.stopped /\ k.sent = l.sent /\ k.refused = l.refused
      /\ k.owed = {}
  BY <1>1 DEF Logs
<1>3. /\ b \in Apps /\ b.client = 0 /\ b.seq = 0 /\ b.hellos = a.hellos
      /\ b.acts = a.acts /\ b.pending = Nothing /\ b.stalled = FALSE /\ b.queue = <<>>
      /\ b.rehellos = 0 /\ b.gestures = <<>> /\ b.held = None
  BY <1>1, AppFields, Numbers, EmptySeq DEF InitApp, Apps
<1> HIDE DEF b, k
<1>4. Len(b.queue) = 0 /\ Len(b.gestures) = 0 BY <1>3, EmptySeq
<1>5. Cmds(b, rq) \subseteq Cmds(a, rq) /\ ~Releasing(b) /\ ~Repeated(b) /\ Keys(b) = {}
  BY <1>3, <1>4 DEF Cmds, Releasing, Repeated, Keys, Nothing, None
<1>6. \A n : ~Unsent(b, n) BY <1>4, <1>5 DEF Unsent
<1>7. /\ \A c \in Cmds(b, rq) : c.client # 0
      /\ \A m \in rp : m.client # 0
      /\ \A e \in Table(u) : e.id # 0
  BY <1>5, CommandShape, Numbers DEF Good
<1>8. Typed(b, u, rq, rp, k) BY <1>2, <1>3 DEF Good, Typed
<1>9. Sessions(b, u, rq, rp)
  <2>1. ~Known(u, 0) BY <1>7 DEF Known, Table
  <2>2. 0 < u.next BY <1>1, Numbers DEF Units
  <2> QED BY <1>3, <1>5, <2>1, <2>2 DEF Good, Network, Sessions
<1>10. Nonces(b, u, rq, rp) BY <1>3 DEF Good, Network, Nonces
<1>11. Opening(b, u, rq, rp) BY <1>3 DEF Opening, Nothing, None
<1>12. Numbered(b, u, rq, rp) BY <1>3, <1>5, <1>7 DEF Good, Network, Numbered, Nothing, None
<1>13. Once(b, u, rq, k) BY <1>2, <1>3, <1>5, <1>6 DEF Good, Network, Once
<1>14. Truthful(b, u, rq, rp, k) BY <1>2, <1>5 DEF Good, Network, Truthful
<1>15. Queues(b) BY <1>4, <1>5 DEF Queues
<1>16. Holding(b, u, rq, k)
  <2>1. \A n, t : IsPress(b, u, rq, n, t) => IsPress(a, u, rq, n, t) BY <1>4, <1>5 DEF IsPress
  <2>2. \A n \in Acts, t \in Buttons : IsPress(b, u, rq, n, t) =>
          n <= b.acts /\ \A d \in Buttons : IsPress(b, u, rq, n, d) => t = d
    BY <1>3, <2>1 DEF Good, Holding
  <2> QED BY <1>2, <1>4, <1>5, <1>6, <2>2 DEF Good, Holding
<1>17. Owed(b, k)
  <2>1. ToSet(b.gestures) = {} BY <1>3, <1>4 DEF ToSet
  <2>2. Owing(b) = {} BY <1>5, <2>1 DEF Owing
  <2> QED BY <1>2, <1>3, <1>4, <2>2 DEF Owed
<1>18. Bounded(b, u)
  <2>1. Queued(b) = 0 BY <1>4 DEF Queued
  <2> QED BY <1>3, <1>5, <2>1, Numbers DEF Good, Bounded
<1> QED BY <1>8, <1>9, <1>10, <1>11, <1>12, <1>13, <1>14, <1>15, <1>16, <1>17, <1>18
    DEF Good, Network, b, k

LEMMA PrependShape ==
    ASSUME NEW S, NEW s \in Seq(S), NEW e \in S
    PROVE  LET t == <<e>> \o s
           IN  /\ t \in Seq(S) /\ Len(s) \in Nat /\ Len(t) = Len(s) + 1 /\ t[1] = e /\ 1 \in 1..Len(t)
               /\ \A i \in 1..Len(s) : i + 1 \in 1..Len(t) /\ t[i + 1] = s[i]
               /\ \A i \in 1..Len(t) : i = 1 \/ (i # 1 /\ i - 1 \in 1..Len(s) /\ t[i] = s[i - 1])
<1> DEFINE t == <<e>> \o s
           n == Len(s)
<1>1. <<e>> \in Seq(S) /\ Len(<<e>>) = 1 /\ <<e>>[1] = e OBVIOUS
<1>2. n \in Nat BY LenProperties
<1>3. /\ t \in Seq(S) /\ Len(t) = Len(<<e>>) + Len(s)
      /\ \A i \in 1..Len(<<e>>) + Len(s) : t[i] = IF i <= Len(<<e>>) THEN <<e>>[i] ELSE s[i - Len(<<e>>)]
  BY <1>1, ConcatProperties
<1> HIDE DEF t
<1>4. Len(t) = n + 1 /\ \A i \in 1..n + 1 : t[i] = IF i <= 1 THEN e ELSE s[i - 1]
  BY <1>1, <1>2, <1>3 DEF n
<1>5. s \in Seq(S) BY DEF n
<1> HIDE DEF n
<1>6. t[1] = e /\ 1 \in 1..n + 1 BY <1>2, <1>4
<1>7. \A i \in 1..n : i + 1 \in 1..n + 1 /\ t[i + 1] = s[i] BY <1>2, <1>4
<1>8. \A i \in 1..n + 1 : i = 1 \/ (i # 1 /\ i - 1 \in 1..n /\ t[i] = s[i - 1]) BY <1>2, <1>4
<1> QED BY <1>2, <1>3, <1>4, <1>6, <1>7, <1>8 DEF t, n

(* A status query is queued again. *)
LEMMA StatusQueuedKeeps ==
    ASSUME NEW a, NEW u, NEW rq, NEW rp, NEW l, Good(a, u, rq, rp, l),
           a.pending = Nothing, Queued(a) <= Room
    PROVE  LET b == [a EXCEPT !.queue = <<Status>> \o a.queue]
           IN  Good(b, u, rq, rp, l) /\ b.pending = Nothing
<1> DEFINE q == <<Status>> \o a.queue
           b == [a EXCEPT !.queue = q]
<1>1. a \in Apps BY DEF Good, Typed
<1>2. Status \in KeyTokens BY DEF KeyTokens
<1>3. a.queue \in Seq(KeyTokens) BY <1>1, AppFields
<1>4. /\ q \in Seq(KeyTokens) /\ Len(q) = Len(a.queue) + 1 /\ q[1] = Status /\ 1 \in 1..Len(q)
      /\ \A i \in 1..Len(q) : i = 1 \/ (i # 1 /\ i - 1 \in 1..Len(a.queue) /\ q[i] = a.queue[i - 1])
  BY <1>2, <1>3, PrependShape
<1> HIDE DEF q
<1>5. /\ b \in Apps /\ b.boot = a.boot /\ b.client = a.client /\ b.seq = a.seq /\ b.hellos = a.hellos
      /\ b.acts = a.acts /\ b.pending = a.pending /\ b.stalled = a.stalled /\ b.queue = q
      /\ b.rehellos = a.rehellos /\ b.gestures = a.gestures /\ b.held = a.held
  BY <1>1, <1>4 DEF Apps
<1> HIDE DEF b
<1>6. Queued(b) = Queued(a) + 1 /\ Queued(a) \in Nat
  <2>1. Len(b.queue) = Len(a.queue) + 1 BY <1>4, <1>5
  <2>2. Len(b.gestures) = Len(a.gestures) BY <1>5
  <2> QED BY <1>1, <1>5, <2>1, <2>2, QueuedStep
<1>7. Cmds(b, rq) = Cmds(a, rq) /\ Releasing(b) = Releasing(a) /\ ~Repeated(b)
  BY <1>5 DEF Cmds, Releasing, Repeated, Nothing, None
<1>8. \A i \in Keys(b) : i - 1 \in Keys(a) /\ q[i] = a.queue[i - 1] /\ i \in Int
  BY <1>4, <1>5 DEF Keys
<1>9. \A n : Unsent(b, n) => Unsent(a, n) BY <1>5, <1>8 DEF Unsent
<1>10. Typed(b, u, rq, rp, l) BY <1>5 DEF Good, Typed
<1>11. Network(b, u, rq, rp, l)
  <2>1. a.acts <= b.acts BY <1>1, <1>5, AppFields
  <2> QED BY <1>5, <1>9, <2>1, QuietKeeps DEF Good
<1>12. Queues(b)
  <2>1. \A i, j \in Keys(b) : q[i].act = q[j].act => i = j
    <3> TAKE i, j \in Keys(b)
    <3>1. i - 1 \in Keys(a) /\ j - 1 \in Keys(a) /\ q[i] = a.queue[i - 1] /\ q[j] = a.queue[j - 1]
          /\ i \in Int /\ j \in Int
      BY <1>8
    <3>2. q[i].act = q[j].act => i - 1 = j - 1 BY <3>1 DEF Good, Queues
    <3> QED BY <3>1, <3>2
  <2> QED BY <1>5, <1>7, <1>8, <2>1 DEF Good, Queues
<1>13. Holding(b, u, rq, l)
  <2>1. \A n, t : IsPress(b, u, rq, n, t) <=> IsPress(a, u, rq, n, t) BY <1>5, <1>7 DEF IsPress
  <2> QED BY <1>5, <1>7, <1>9, <2>1 DEF Good, Holding
<1>14. Owed(b, l)
  <2>1. Owing(b) = Owing(a) BY <1>5, <1>7 DEF Owing
  <2> QED BY <1>5, <1>7, <2>1 DEF Good, Owed
<1>15. Bounded(b, u)
  <2>1. Queued(b) + (IF Repeated(b) THEN 1 ELSE 0) <= Room + 1 BY <1>6, <1>7, Numbers
  <2> QED BY <1>4, <1>5, <1>7, <2>1 DEF Good, Bounded
<1> QED BY <1>5, <1>10, <1>11, <1>12, <1>13, <1>14, <1>15 DEF Good, b, q

(* A release that a rehello met is the first gesture again. *)
LEMMA PutBackKeeps ==
    ASSUME NEW a, NEW u, NEW rq, NEW rp, NEW l, Good(a, u, rq, rp, l), Releasing(a),
           a.rehellos < MaxRehellos
    PROVE  LET t == a.pending.token
               g == [button |-> t.button, act |-> t.act, pressed |-> TRUE, released |-> TRUE]
               b == [a EXCEPT !.pending = Nothing, !.stalled = FALSE, !.rehellos = a.rehellos + 1,
                              !.gestures = <<g>> \o a.gestures]
           IN  Good(b, u, rq, rp, l)
<1> DEFINE t == a.pending.token
           g == [button |-> t.button, act |-> t.act, pressed |-> TRUE, released |-> TRUE]
           gs == <<g>> \o a.gestures
           b == [a EXCEPT !.pending = Nothing, !.stalled = FALSE, !.rehellos = a.rehellos + 1,
                          !.gestures = gs]
<1>1. a \in Apps /\ a.gestures \in Seq(Gestures) /\ Len(a.gestures) \in Nat /\ a.pending \in Cmds(a, rq)
  BY AppFields DEF Good, Typed, Cmds, Releasing
<1>2. t.name = "R" /\ t \in PressTokens /\ t.act \in Acts /\ t.button \in Buttons /\ t # Status
  BY <1>1, CommandShape, BadgeAssumption
     DEF Good, CommandMsgs, KeyTokens, PressTokens, Releasing, Status, Token
<1>3. g \in Gestures /\ g.act = t.act /\ g.button = t.button /\ g.pressed /\ g.released
  BY <1>2 DEF Gestures
<1> HIDE DEF g
<1>4. /\ gs \in Seq(Gestures) /\ Len(gs) = Len(a.gestures) + 1 /\ gs[1] = g /\ 1 \in 1..Len(gs)
      /\ \A i \in 1..Len(a.gestures) : i + 1 \in 1..Len(gs) /\ gs[i + 1] = a.gestures[i]
      /\ \A i \in 1..Len(gs) : i = 1 \/ (i # 1 /\ i - 1 \in 1..Len(a.gestures) /\ gs[i] = a.gestures[i - 1])
  BY <1>1, <1>3, PrependShape
<1> HIDE DEF gs
<1>5. a.rehellos + 1 \in Nat /\ a.rehellos + 1 <= MaxRehellos BY <1>1, AppFields, Numbers
<1>6. /\ b \in Apps /\ b.boot = a.boot /\ b.client = a.client /\ b.seq = a.seq /\ b.hellos = a.hellos
      /\ b.acts = a.acts /\ b.pending = Nothing /\ b.stalled = FALSE /\ b.queue = a.queue
      /\ b.rehellos = a.rehellos + 1 /\ b.gestures = gs /\ b.held = a.held
  BY <1>1, <1>4, <1>5 DEF Apps
<1> HIDE DEF b
<1>7. Queued(b) = Queued(a) + 1 /\ Queued(a) \in Nat
  <2>1. Len(b.queue) = Len(a.queue) /\ Len(b.gestures) = Len(a.gestures) + 1 BY <1>4, <1>6
  <2> QED BY <1>1, <1>6, <2>1, QueuedStep
<1>8. Cmds(b, rq) \subseteq Cmds(a, rq) /\ ~Releasing(b) /\ ~Repeated(b) /\ Keys(b) = Keys(a)
  BY <1>6 DEF Cmds, Releasing, Repeated, Keys, Nothing, None
<1>9. /\ \A i \in 1..Len(gs) : (i = 1 /\ gs[i] = g) \/ \E j \in 1..Len(a.gestures) : gs[i] = a.gestures[j]
      /\ \A j \in 1..Len(a.gestures) : \E i \in 1..Len(gs) : gs[i] = a.gestures[j]
  BY <1>4
<1>10. \A n : Unsent(b, n) => Unsent(a, n)
  <2>1. \A n : (\E i \in 1..Len(gs) : ~gs[i].pressed /\ gs[i].act = n) =>
           \E i \in 1..Len(a.gestures) : ~a.gestures[i].pressed /\ a.gestures[i].act = n
    BY <1>3, <1>9
  <2> QED BY <1>6, <1>8, <2>1 DEF Unsent
<1>11. Typed(b, u, rq, rp, l) BY <1>6 DEF Good, Typed
<1>12. Network(b, u, rq, rp, l)
  <2>1. a.acts <= b.acts BY <1>1, <1>6, AppFields
  <2> QED BY <1>6, <1>10, <2>1, QuietKeeps DEF Good
<1>13. \A i \in 1..Len(a.gestures) : a.gestures[i].act # t.act BY DEF Good, Queues
<1>14. t.act <= a.acts BY <1>1, <1>2 DEF Good, Network, Once
<1>15. Queues(b)
  <2>1. \A i, j \in 1..Len(gs) : gs[i].act = gs[j].act => i = j
    <3> TAKE i, j \in 1..Len(gs)
    <3>1. CASE i # 1 /\ j # 1
      <4>1. /\ i - 1 \in 1..Len(a.gestures) /\ gs[i] = a.gestures[i - 1] /\ i \in Int
            /\ j - 1 \in 1..Len(a.gestures) /\ gs[j] = a.gestures[j - 1] /\ j \in Int
        BY <1>4, <3>1
      <4>2. gs[i].act = gs[j].act => i - 1 = j - 1 BY <4>1 DEF Good, Queues
      <4> QED BY <4>1, <4>2
    <3>2. CASE i = 1 /\ j # 1
      <4>1. j - 1 \in 1..Len(a.gestures) /\ gs[j] = a.gestures[j - 1] BY <1>4, <3>2
      <4> QED BY <1>3, <1>4, <1>13, <3>2, <4>1
    <3>3. CASE i # 1 /\ j = 1
      <4>1. i - 1 \in 1..Len(a.gestures) /\ gs[i] = a.gestures[i - 1] BY <1>4, <3>3
      <4> QED BY <1>3, <1>4, <1>13, <3>3, <4>1
    <3> QED BY <3>1, <3>2, <3>3
  <2>2. \A i \in 1..Len(gs) : gs[i].act <= a.acts BY <1>3, <1>9, <1>14 DEF Good, Queues
  <2>3. \A i \in Keys(a), j \in 1..Len(gs) : a.queue[i].act # gs[j].act
    <3>1. \A i \in Keys(a) : a.queue[i].act # t.act BY DEF Good, Queues
    <3>2. \A i \in Keys(a), j \in 1..Len(a.gestures) : a.queue[i].act # a.gestures[j].act
      BY DEF Good, Queues
    <3> QED BY <1>3, <1>9, <3>1, <3>2
  <2> QED BY <1>6, <1>8, <2>1, <2>2, <2>3 DEF Good, Queues
<1>16. Holding(b, u, rq, l)
  <2>1. \A n, d : IsPress(b, u, rq, n, d) => IsPress(a, u, rq, n, d)
    <3>1. \A n, d : (\E i \in 1..Len(gs) : gs[i].act = n /\ gs[i].button = d) =>
             (n = t.act /\ d = t.button)
             \/ \E i \in 1..Len(a.gestures) : a.gestures[i].act = n /\ a.gestures[i].button = d
      BY <1>3, <1>9
    <3> TAKE n, d
    <3>2. IsPress(a, u, rq, t.act, t.button) BY <1>1, <1>2 DEF IsPress
    <3>3. (\E i \in 1..Len(gs) : gs[i].act = n /\ gs[i].button = d) => IsPress(a, u, rq, n, d)
      BY <3>1, <3>2 DEF IsPress
    <3> QED BY <1>6, <1>8, <3>3 DEF IsPress
  <2>2. \A n \in Acts, x \in Buttons : IsPress(b, u, rq, n, x) =>
          n <= b.acts /\ \A d \in Buttons : IsPress(b, u, rq, n, d) => x = d
    BY <1>6, <2>1 DEF Good, Holding
  <2>3. a.pending.client = a.client BY <1>1 DEF Good, Network, Numbered, Releasing
  <2>4. \A c \in Cmds(a, rq) : c.token.name = "P" /\ c.token.act = t.act =>
           c.client = a.client \/ ~Known(u, c.client)
    BY <1>1, <1>2, <2>3 DEF Good, Holding
  <2>5. \A c \in Cmds(b, rq) : c.token.name = "P" =>
          \A i \in 1..Len(gs) : gs[i].act = c.token.act => c.client = a.client \/ ~Known(u, c.client)
    <3>1. \A c \in Cmds(a, rq) : c.token.name = "P" =>
            \A j \in 1..Len(a.gestures) : a.gestures[j].act = c.token.act =>
               c.client = a.client \/ ~Known(u, c.client)
      BY DEF Good, Holding
    <3> QED BY <1>3, <1>8, <1>9, <2>4, <3>1
  <2> QED BY <1>6, <1>8, <1>10, <2>2, <2>5 DEF Good, Holding
<1>17. Owed(b, l)
  <2>1. DOMAIN a.gestures = 1..Len(a.gestures) /\ DOMAIN gs = 1..Len(gs) BY <1>1, <1>4, LenProperties
  <2> DEFINE pressed == {x.act : x \in {h \in ToSet(a.gestures) : h.pressed}}
             again == {x.act : x \in {h \in ToSet(gs) : h.pressed}}
  <2>2. again = pressed \cup {t.act}
    <3>1. ToSet(gs) = ToSet(a.gestures) \cup {g}
      <4>1. \A x : x \in ToSet(gs) <=> \E i \in 1..Len(gs) : x = gs[i] BY <2>1 DEF ToSet
      <4>2. \A x : x \in ToSet(a.gestures) <=> \E i \in 1..Len(a.gestures) : x = a.gestures[i]
        BY <2>1 DEF ToSet
      <4>3. \A x \in ToSet(gs) : x \in ToSet(a.gestures) \cup {g} BY <1>9, <4>1, <4>2
      <4>4. \A x \in ToSet(a.gestures) : x \in ToSet(gs) BY <1>9, <4>1, <4>2
      <4>5. g \in ToSet(gs) BY <1>4, <4>1
      <4> QED BY <4>3, <4>4, <4>5
    <3> QED BY <1>3, <3>1
  <2>3. Owing(b) = again BY <1>6, <1>8 DEF Owing
  <2>4. Owing(a) = pressed \cup {t.act} BY DEF Owing
  <2> HIDE DEF pressed, again
  <2>5. Owing(b) = l.owed BY <2>2, <2>3, <2>4 DEF Good, Owed
  <2>6. \A i \in 1..Len(gs) : gs[i].pressed => i = 1 BY <1>4 DEF Good, Owed
  <2>7. a.held # None => \E i \in 1..Len(gs) : gs[i].button = a.held /\ ~gs[i].released
    BY <1>4 DEF Good, Owed
  <2> QED BY <1>6, <1>8, <2>5, <2>6, <2>7 DEF Owed
<1>18. Bounded(b, u)
  <2>1. Repeated(a) BY DEF Repeated, Releasing
  <2>2. Queued(a) + 1 <= Room + 1 BY <2>1 DEF Good, Bounded
  <2>3. Queued(b) + (IF Repeated(b) THEN 1 ELSE 0) <= Room + 1 BY <1>7, <1>8, <2>2, Numbers
  <2>4. Len(b.gestures) > 0 /\ b.gestures[1].pressed /\ b.gestures[1].released
    BY <1>1, <1>3, <1>4, <1>6
  <2> QED BY <1>5, <1>6, <1>8, <2>3, <2>4 DEF Good, Bounded
<1> QED BY <1>11, <1>12, <1>15, <1>16, <1>17, <1>18 DEF Good, b, gs, g

(* The badge leaves a session that the controller does not know. *)
LEMMA LeftKeeps ==
    ASSUME NEW a, NEW u, NEW rq, NEW rp, NEW l, Good(a, u, rq, rp, l),
           a.pending = Nothing, ~Known(u, a.client)
    PROVE  Good([a EXCEPT !.boot = 0, !.client = 0], u, rq, rp, l)
<1> DEFINE b == [a EXCEPT !.boot = 0, !.client = 0]
<1>1. a \in Apps /\ u \in Units BY DEF Good, Typed
<1>2. /\ b \in Apps /\ b.client = 0 /\ b.seq = a.seq /\ b.hellos = a.hellos
      /\ b.acts = a.acts /\ b.pending = Nothing /\ b.stalled = a.stalled /\ b.queue = a.queue
      /\ b.rehellos = a.rehellos /\ b.gestures = a.gestures /\ b.held = a.held
  BY <1>1 DEF Apps
<1> HIDE DEF b
<1>3. Keys(b) = Keys(a) /\ Queued(b) = Queued(a) BY <1>2 DEF Keys, Queued
<1>4. Cmds(b, rq) = Cmds(a, rq) /\ ~Releasing(b) /\ ~Repeated(b) /\ ~Releasing(a)
  BY <1>2 DEF Cmds, Releasing, Repeated, Nothing, None
<1>5. \A n : Unsent(b, n) <=> Unsent(a, n) BY <1>2, <1>3 DEF Unsent
<1>6. /\ \A c \in Cmds(b, rq) : c.client # 0
      /\ \A m \in rp : m.client # 0
      /\ \A e \in Table(u) : e.id # 0
  BY <1>4, CommandShape, Numbers DEF Good
<1>7. Typed(b, u, rq, rp, l) BY <1>2 DEF Good, Typed
<1>8. Sessions(b, u, rq, rp)
  <2>1. ~Known(u, 0) BY <1>6 DEF Known, Table
  <2>2. 0 < u.next BY <1>1, Numbers DEF Units
  <2> QED BY <1>2, <1>4, <2>1, <2>2 DEF Good, Network, Sessions
<1>9. Nonces(b, u, rq, rp) BY <1>2 DEF Good, Network, Nonces
<1>10. Opening(b, u, rq, rp) BY <1>2 DEF Opening, Nothing, None
<1>11. Numbered(b, u, rq, rp) BY <1>2, <1>4, <1>6 DEF Good, Network, Numbered, Nothing, None
<1>12. Once(b, u, rq, l) BY <1>2, <1>4, <1>5 DEF Good, Network, Once
<1>13. Truthful(b, u, rq, rp, l) BY <1>2, <1>4 DEF Good, Network, Truthful
<1>14. Queues(b) BY <1>2, <1>3, <1>4 DEF Good, Queues
<1>15. Holding(b, u, rq, l)
  <2>1. \A n, t : IsPress(b, u, rq, n, t) <=> IsPress(a, u, rq, n, t) BY <1>2, <1>4 DEF IsPress
  <2> QED BY <1>2, <1>4, <1>5, <2>1 DEF Good, Holding
<1>16. Owed(b, l)
  <2>1. Owing(b) = Owing(a) BY <1>2, <1>4 DEF Owing
  <2> QED BY <1>2, <1>4, <2>1 DEF Good, Owed
<1>17. Bounded(b, u)
  <2>1. Queued(a) \in Nat /\ (IF Repeated(b) THEN 1 ELSE 0) <= (IF Repeated(a) THEN 1 ELSE 0)
    BY <1>1, <1>4, QueuedStep
  <2>2. Queued(b) + (IF Repeated(b) THEN 1 ELSE 0) <= Room + 1
    BY <1>3, <1>4, <2>1, Numbers DEF Good, Bounded
  <2> QED BY <1>2, <1>3, <1>4, <2>2 DEF Good, Bounded
<1> QED BY <1>7, <1>8, <1>9, <1>10, <1>11, <1>12, <1>13, <1>14, <1>15, <1>16, <1>17
    DEF Good, Network, b

(* The badge enters the session a welcome to its hello names. *)
LEMMA WelcomeKeeps ==
    ASSUME NEW a, NEW u, NEW rq, NEW rp, NEW l, Good(a, u, rq, rp, l), NEW m \in rp, Welcomes(a, m)
    PROVE  Good([a EXCEPT !.boot = m.boot, !.client = m.client, !.seq = 0, !.pending = Nothing], u, rq, rp, l)
<1> DEFINE b == [a EXCEPT !.boot = m.boot, !.client = m.client, !.seq = 0, !.pending = Nothing]
<1>1. a \in Apps /\ m \in WelcomeMsgs BY DEF Good, Typed, Welcomes, WelcomeMsgs, StateMsgs, RehelloMsgs
<1>2. m.boot \in Nat /\ m.client \in Nat /\ m.client \in Ids BY <1>1, Numbers DEF WelcomeMsgs
<1>3. a.client = 0 /\ m.nonce = a.hellos /\ Unused(u, rq, rp, m.client) /\ ~Releasing(a) /\ ~Repeated(a)
  BY DEF Good, Network, Opening, Welcomes, Releasing, Repeated
<1>4. /\ b \in Apps /\ b.boot = m.boot /\ b.client = m.client /\ b.seq = 0 /\ b.hellos = a.hellos
      /\ b.acts = a.acts /\ b.pending = Nothing /\ b.stalled = a.stalled /\ b.queue = a.queue
      /\ b.rehellos = a.rehellos /\ b.gestures = a.gestures /\ b.held = a.held
  BY <1>1, <1>2, Numbers DEF Apps
<1> HIDE DEF b
<1>5. Keys(b) = Keys(a) /\ Queued(b) = Queued(a) BY <1>4 DEF Keys, Queued
<1>6. Cmds(b, rq) = Cmds(a, rq) /\ ~Releasing(b) /\ ~Repeated(b)
  BY <1>4 DEF Cmds, Releasing, Repeated, Nothing, None, Welcomes
<1>7. \A n : Unsent(b, n) <=> Unsent(a, n) BY <1>4, <1>5 DEF Unsent
<1>8. \A c \in Cmds(a, rq) : c.client # m.client /\ c.client # 0
  BY <1>3, CommandShape, Numbers DEF Good, Unused, Cmds, Welcomes
<1>9. Typed(b, u, rq, rp, l) BY <1>4 DEF Good, Typed
<1>10. Sessions(b, u, rq, rp) BY <1>4, <1>6 DEF Good, Network, Sessions, Welcomes
<1>11. Nonces(b, u, rq, rp) BY <1>4 DEF Good, Network, Nonces
<1>12. Opening(b, u, rq, rp) BY <1>4 DEF Opening, Nothing, None
<1>13. Numbered(b, u, rq, rp)
  <2>1. \A c, d \in Cmds(b, rq) : c.client = d.client /\ c.seq = d.seq => c = d
    BY <1>6 DEF Good, Network, Numbered
  <2>2. \A e \in Table(u) : e.id = m.client => e.last <= 0 BY <1>3 DEF Unused
  <2> QED BY <1>3, <1>4, <1>6, <1>8, <2>1, <2>2 DEF Numbered, Unused, Nothing, None
<1>14. Once(b, u, rq, l) BY <1>4, <1>6, <1>7 DEF Good, Network, Once
<1>15. Truthful(b, u, rq, rp, l) BY <1>4, <1>6 DEF Good, Network, Truthful
<1>16. Queues(b) BY <1>3, <1>4, <1>5, <1>6 DEF Good, Queues
<1>17. Holding(b, u, rq, l)
  <2>1. \A n, t : IsPress(b, u, rq, n, t) <=> IsPress(a, u, rq, n, t) BY <1>4, <1>6 DEF IsPress
  <2> QED BY <1>3, <1>4, <1>6, <1>7, <1>8, <2>1 DEF Good, Holding
<1>18. Owed(b, l)
  <2>1. Owing(b) = Owing(a) BY <1>3, <1>4, <1>6 DEF Owing
  <2> QED BY <1>3, <1>4, <1>6, <2>1 DEF Good, Owed
<1>19. Bounded(b, u) BY <1>3, <1>4, <1>5, <1>6 DEF Good, Bounded
<1> QED BY <1>9, <1>10, <1>11, <1>12, <1>13, <1>14, <1>15, <1>16, <1>17, <1>18, <1>19
    DEF Good, Network, b

LEMMA RehelloKeeps ==
    ASSUME NEW a, NEW u, NEW rq, NEW rp, Good(a, u, rq, rp, log), NEW m \in rp,
           Answers(a, m), m.type = "rehello"
    PROVE  Good(Rehelloed(a), u, rq, rp, Noted(a, m))
<1> DEFINE t == a.pending.token
           again == a.rehellos < MaxRehellos
           more == IF again THEN a.rehellos + 1 ELSE a.rehellos
           c == [a EXCEPT !.pending = Nothing, !.stalled = FALSE, !.rehellos = more]
           k == Noted(a, m)
<1>1. a \in Apps /\ log \in Logs /\ a.rehellos \in Nat /\ a.rehellos <= MaxRehellos
      /\ a.queue \in Seq(KeyTokens) /\ a.gestures \in Seq(Gestures)
  BY AppFields DEF Good, Typed, Bounded
<1>2. ~Known(u, a.client) BY DEF Good, Network, Sessions, Answers
<1>3. again \in BOOLEAN /\ again = (a.rehellos < MaxRehellos) /\ (~again <=> a.rehellos >= MaxRehellos)
  BY <1>1, Numbers
<1>4. k = [log EXCEPT !.owed = IF Releasing(a) /\ ~again THEN log.owed \ {t.act} ELSE log.owed]
  BY <1>1, <1>3 DEF Noted, Logs
<1>5. more \in Nat /\ more <= MaxRehellos BY <1>1, <1>3, Numbers
<1>6. CASE Releasing(a) /\ again
  <2> DEFINE g == [button |-> t.button, act |-> t.act, pressed |-> TRUE, released |-> TRUE]
             b == [a EXCEPT !.pending = Nothing, !.stalled = FALSE, !.rehellos = a.rehellos + 1,
                            !.gestures = <<g>> \o a.gestures]
  <2>1. k = log BY <1>1, <1>4, <1>6 DEF Logs
  <2>2. Good(b, u, rq, rp, k) BY <1>3, <1>6, <2>1, PutBackKeeps
  <2>3. b.pending = Nothing /\ b.client = a.client /\ b \in Apps BY <1>1, <2>2 DEF Apps, Good, Typed
  <2>4. Good([b EXCEPT !.boot = 0, !.client = 0], u, rq, rp, k)
    <3> HIDE DEF b, k
    <3> QED BY <1>2, <2>2, <2>3, LeftKeeps
  <2>5. t # Status BY <1>6 DEF Releasing, Status, Token
  <2>6. Rehelloed(a) = [b EXCEPT !.boot = 0, !.client = 0]
    BY <1>1, <1>6, <2>5 DEF Rehelloed, Apps
  <2> QED BY <2>4, <2>6
<1>7. CASE ~(Releasing(a) /\ again)
  <2>1. /\ k \in Logs /\ k.ran = log.ran /\ k.stopped = log.stopped /\ k.sent = log.sent
        /\ k.refused = log.refused
        /\ k.owed = IF Releasing(a) THEN log.owed \ {t.act} ELSE log.owed
    BY <1>1, <1>4, <1>7 DEF Logs
  <2>2. Good(c, u, rq, rp, k)
    <3> HIDE DEF k, more
    <3> QED BY <1>5, <2>1, ClearedKeeps
  <2>3. c \in Apps /\ c.pending = Nothing /\ c.client = a.client /\ c.queue = a.queue /\ c.gestures = a.gestures
    BY <1>1, <1>5 DEF Apps
  <2>4. CASE t = Status /\ again
    <3> DEFINE b == [c EXCEPT !.queue = <<Status>> \o c.queue]
    <3>1. Queued(c) <= Room
      <4>1. Repeated(a) BY <2>4 DEF Repeated, Answers
      <4>2. Queued(c) = Queued(a) /\ Queued(a) \in Nat BY <1>1, <2>3, QueuedStep
      <4> QED BY <4>1, <4>2, Numbers DEF Good, Bounded
    <3>2. Good(b, u, rq, rp, k) /\ b.pending = Nothing
      <4> HIDE DEF c, k
      <4> QED BY <2>2, <2>3, <3>1, StatusQueuedKeeps
    <3>3. b.client = a.client BY <2>3 DEF Apps
    <3>4. Good([b EXCEPT !.boot = 0, !.client = 0], u, rq, rp, k)
      <4> HIDE DEF b, k
      <4> QED BY <1>2, <3>2, <3>3, LeftKeeps
    <3>5. Rehelloed(a) = [b EXCEPT !.boot = 0, !.client = 0]
      BY <1>1, <1>7, <2>3, <2>4 DEF Rehelloed, Apps
    <3> QED BY <3>4, <3>5
  <2>5. CASE ~(t = Status /\ again)
    <3>1. Good([c EXCEPT !.boot = 0, !.client = 0], u, rq, rp, k)
      <4> HIDE DEF c, k
      <4> QED BY <1>2, <2>2, <2>3, LeftKeeps
    <3>2. Rehelloed(a) = [c EXCEPT !.boot = 0, !.client = 0]
      BY <1>1, <1>7, <2>3, <2>5 DEF Rehelloed, Apps
    <3> QED BY <3>1, <3>2
  <2> QED BY <2>4, <2>5
<1> QED BY <1>6, <1>7

LEMMA AnswerKeeps ==
    ASSUME NEW a, NEW u, NEW rq, NEW rp, Good(a, u, rq, rp, log), NEW m \in rp,
           Answers(a, m), m.type = "state"
    PROVE  Good([a EXCEPT !.pending = Nothing, !.stalled = FALSE, !.rehellos = 0], u, rq, rp, Noted(a, m))
<1> DEFINE t == a.pending.token
           p == a.pending
           k == Noted(a, m)
           press == ~Releasing(a) /\ t # Status
<1>1. a \in Apps /\ log \in Logs /\ m \in StateMsgs BY DEF Good, Typed, WelcomeMsgs, StateMsgs, RehelloMsgs
<1>2. p \in Cmds(a, rq) /\ p.type = "cmd" BY DEF Answers, Cmds
<1>3. m.client = p.client /\ m.seq = p.seq BY <1>2 DEF Answers, Good, Network, Numbered
<1>4. m.denied \in BOOLEAN BY <1>1 DEF StateMsgs
<1>5. press => Doing(p) /\ t.act \in Acts /\ t.act <= a.acts /\ ~Unsent(a, t.act)
  BY <1>2, CommandShape DEF Doing, Releasing, Good, Network, Once
<1>6. m.denied = Denied(t) /\ (Doing(p) /\ ~m.denied => log.ran[t.act] > 0)
  BY <1>2, <1>3 DEF Good, Network, Truthful
<1>7. /\ k \in Logs /\ k.ran = log.ran /\ k.stopped = log.stopped
      /\ k.owed = IF Releasing(a) THEN log.owed \ {t.act} ELSE log.owed
      /\ k.sent = IF press /\ ~m.denied THEN log.sent \cup {t.act} ELSE log.sent
      /\ k.refused = IF press /\ m.denied THEN log.refused \cup {t.act} ELSE log.refused
  <2> DEFINE owed == IF Releasing(a) THEN log.owed \ {t.act} ELSE log.owed
             sent == IF press /\ ~m.denied THEN log.sent \cup {t.act} ELSE log.sent
             refused == IF press /\ m.denied THEN log.refused \cup {t.act} ELSE log.refused
  <2>1. k = [log EXCEPT !.owed = owed, !.sent = sent, !.refused = refused]
    BY <1>1, <1>4 DEF Noted, Logs
  <2>2. owed \subseteq Acts /\ sent \subseteq Acts /\ refused \subseteq Acts
    BY <1>1, <1>5 DEF Logs
  <2> HIDE DEF owed, sent, refused
  <2>3. k \in Logs /\ k.ran = log.ran /\ k.stopped = log.stopped /\ k.owed = owed /\ k.sent = sent
        /\ k.refused = refused
    BY <1>1, <2>1, <2>2 DEF Logs
  <2> QED BY <2>3 DEF owed, sent, refused
<1>8. \A n \in k.sent : n \in log.sent \/ log.ran[n] > 0 BY <1>4, <1>5, <1>6, <1>7
<1>9. \A n \in k.refused : n \in log.refused \/
         (n <= a.acts /\ ~Unsent(a, n) /\ log.ran[n] = 0
            /\ \A c \in Cmds(a, rq) : Doing(c) /\ c.token.act = n => Denied(c.token))
  <2>1. ASSUME press, m.denied
        PROVE  /\ log.ran[t.act] = 0
               /\ \A c \in Cmds(a, rq) : Doing(c) /\ c.token.act = t.act => Denied(c.token)
    <3>1. Denied(t) BY <1>6, <2>1
    <3>2. \A c \in Cmds(a, rq) : Doing(c) /\ c.token.act = t.act => c = p
      BY <1>2, <1>5, <2>1 DEF Good, Network, Once
    <3> QED BY <1>2, <1>5, <2>1, <3>1, <3>2 DEF Good, Network, Truthful
  <2> QED BY <1>4, <1>5, <1>7, <2>1
<1>10. 0 \in Nat /\ 0 <= MaxRehellos BY Numbers
<1> HIDE DEF k
<1> QED BY <1>7, <1>8, <1>9, <1>10, ClearedKeeps DEF k

(* A reply, or none, is taken. *)
LEMMA ReceivedKeeps ==
    ASSUME NEW a, NEW u, NEW rq, NEW rp, Good(a, u, rq, rp, log), NEW m \in rp \cup {Nothing}
    PROVE  Good(Received(a, m), u, rq, rp, Noted(a, m))
<1>1. CASE Welcomes(a, m)
  <2>1. ~Answers(a, m) BY <1>1 DEF Welcomes, Answers
  <2>2. m \in rp BY <1>1 DEF Welcomes, Nothing, None
  <2>3. Noted(a, m) = log BY <2>1 DEF Noted
  <2>4. Received(a, m) = [a EXCEPT !.boot = m.boot, !.client = m.client, !.seq = 0, !.pending = Nothing]
    BY <1>1 DEF Received
  <2>5. Good([a EXCEPT !.boot = m.boot, !.client = m.client, !.seq = 0, !.pending = Nothing], u, rq, rp, log)
    BY <1>1, <2>2, WelcomeKeeps
  <2> QED BY <2>3, <2>4, <2>5
<1>2. CASE ~Welcomes(a, m) /\ ~Answers(a, m) BY <1>2 DEF Received, Noted
<1>3. CASE ~Welcomes(a, m) /\ Answers(a, m) /\ m.type = "rehello"
  <2>1. m \in rp BY <1>3 DEF Answers, Nothing, None
  <2>2. Received(a, m) = Rehelloed(a) BY <1>3 DEF Received
  <2> QED BY <1>3, <2>1, <2>2, RehelloKeeps
<1>4. CASE ~Welcomes(a, m) /\ Answers(a, m) /\ m.type # "rehello"
  <2>1. m \in rp /\ m.type = "state" BY <1>4 DEF Answers, Nothing, None
  <2>2. Received(a, m) = [a EXCEPT !.pending = Nothing, !.stalled = FALSE, !.rehellos = 0]
    BY <1>4 DEF Received
  <2>3. Good([a EXCEPT !.pending = Nothing, !.stalled = FALSE, !.rehellos = 0], u, rq, rp, Noted(a, m))
    BY <1>4, <2>1, AnswerKeeps
  <2> QED BY <2>2, <2>3
<1> QED BY <1>1, <1>2, <1>3, <1>4

(* A hello is sent. *)
LEMMA HelloKeeps ==
    ASSUME NEW a, NEW u, NEW rq, NEW rp, NEW l, Good(a, u, rq, rp, l),
           a.pending = Nothing, a.client = 0
    PROVE  LET h == [type |-> "hello", nonce |-> a.hellos + 1]
           IN  Good([a EXCEPT !.hellos = a.hellos + 1, !.pending = h], u, rq \cup {h}, rp, l)
<1> DEFINE n == a.hellos + 1
           h == [type |-> "hello", nonce |-> n]
           b == [a EXCEPT !.hellos = n, !.pending = h]
           more == rq \cup {h}
<1>1. a \in Apps BY DEF Good, Typed
<1>2. a.hellos \in Nat /\ n \in Nat /\ n \in Ids /\ a.hellos <= n /\ (\A x \in Nat : x <= a.hellos => x <= n /\ x # n)
      /\ n <= n
  BY <1>1, AppFields DEF Ids
<1>3. h \in HelloMsgs /\ h.type = "hello" /\ h.nonce = n BY <1>2 DEF HelloMsgs
<1> HIDE DEF h, n
<1>4. /\ b \in Apps /\ b.boot = a.boot /\ b.client = a.client /\ b.seq = a.seq /\ b.hellos = n
      /\ b.acts = a.acts /\ b.pending = h /\ b.stalled = a.stalled /\ b.queue = a.queue
      /\ b.rehellos = a.rehellos /\ b.gestures = a.gestures /\ b.held = a.held
  BY <1>1, <1>2, <1>3 DEF Apps
<1> HIDE DEF b
<1>5. Keys(b) = Keys(a) /\ Queued(b) = Queued(a) BY <1>4 DEF Keys, Queued
<1>6. Cmds(b, more) = Cmds(a, rq) /\ ~Releasing(b) /\ ~Repeated(b) /\ ~Releasing(a) /\ ~Repeated(a)
  BY <1>3, <1>4 DEF Cmds, Releasing, Repeated, Nothing, None
<1>7. \A x : Unsent(b, x) <=> Unsent(a, x) BY <1>4, <1>5 DEF Unsent
<1>8. Typed(b, u, more, rp, l) BY <1>3, <1>4 DEF Good, Typed
<1>9. Sessions(b, u, more, rp) BY <1>4, <1>6 DEF Good, Network, Sessions
<1>10. /\ \A m \in rp : m.type = "welcome" => m.nonce \in Nat
       /\ \A x \in rq : x.type = "hello" => x.nonce \in Nat
       /\ \A e \in Table(u) : e.nonce \in Nat
  BY CommandShape, Numbers DEF Good, Typed, WelcomeMsgs, StateMsgs, RehelloMsgs, HelloMsgs, CommandMsgs
<1>11. Nonces(b, u, more, rp) BY <1>2, <1>3, <1>4, <1>10 DEF Good, Network, Nonces
<1>12. Opening(b, u, more, rp)
  <2>1. \A m \in rp : m.type = "welcome" => m.nonce # n BY <1>2, <1>10 DEF Good, Network, Nonces
  <2>2. \A e \in Table(u) : e.nonce # n BY <1>2, <1>10 DEF Good, Network, Nonces
  <2> QED BY <1>3, <1>4, <2>1, <2>2 DEF Opening
<1>13. Numbered(b, u, more, rp) BY <1>3, <1>4, <1>6 DEF Good, Network, Numbered
<1>14. Once(b, u, more, l) BY <1>4, <1>6, <1>7 DEF Good, Network, Once
<1>15. Truthful(b, u, more, rp, l) BY <1>6 DEF Good, Network, Truthful
<1>16. Queues(b) BY <1>4, <1>5, <1>6 DEF Good, Queues
<1>17. Holding(b, u, more, l)
  <2>1. \A x, t : IsPress(b, u, more, x, t) <=> IsPress(a, u, rq, x, t) BY <1>4, <1>6 DEF IsPress
  <2> QED BY <1>4, <1>6, <1>7, <2>1 DEF Good, Holding
<1>18. Owed(b, l)
  <2>1. Owing(b) = Owing(a) BY <1>4, <1>6 DEF Owing
  <2> QED BY <1>4, <1>6, <2>1 DEF Good, Owed
<1>19. Bounded(b, u) BY <1>4, <1>5, <1>6 DEF Good, Bounded
<1> QED BY <1>8, <1>9, <1>11, <1>12, <1>13, <1>14, <1>15, <1>16, <1>17, <1>18, <1>19
    DEF Good, Network, b, h, n

CommandOf(a, t) ==
    [type |-> "cmd", boot |-> a.boot, client |-> a.client, seq |-> a.seq + 1, token |-> t]

(* A command takes the next number of its session. *)
LEMMA CommandFacts ==
    ASSUME NEW a \in Apps, a.client # 0, a.seq < MaxSeq, NEW t \in PressTokens \cup KeyTokens
    PROVE  LET w == CommandOf(a, t)
           IN  /\ w \in CommandMsgs /\ w.type = "cmd" /\ w.boot = a.boot /\ w.client = a.client
               /\ w.token = t /\ w.seq \in Seqs /\ w.seq = a.seq + 1 /\ w.seq \in Lasts
               /\ \A n \in Nat : n <= a.seq => n <= w.seq /\ n < w.seq /\ n # w.seq
               /\ w.seq <= w.seq
<1>1. a.seq \in Lasts /\ a.seq \in Nat /\ a.client \in Ids /\ a.boot \in Nat /\ a.seq + 1 \in Seqs
  BY AppFields, Numbers DEF Seqs, Ids
<1>2. a.seq + 1 \in Nat /\ a.seq + 1 <= a.seq + 1 /\ a.seq + 1 \in Lasts BY <1>1, Numbers
<1>3. \A n \in Nat : n <= a.seq => n <= a.seq + 1 /\ n < a.seq + 1 /\ n # a.seq + 1 BY <1>1
<1> QED BY <1>1, <1>2, <1>3 DEF CommandOf, CommandMsgs

Agree(k, l) == k.ran = l.ran /\ k.stopped = l.stopped /\ k.sent = l.sent /\ k.refused = l.refused

(* The badge a sends t and is b. *)
Sends(a, t, b) ==
    /\ a.pending = Nothing /\ a.client # 0 /\ a.seq < MaxSeq /\ t \in PressTokens \cup KeyTokens
    /\ t # Status => t.act <= a.acts
    /\ t # Status /\ t.name # "R" => Unsent(a, t.act)
    /\ b \in Apps /\ b.boot = a.boot /\ b.client = a.client /\ b.hellos = a.hellos /\ b.acts = a.acts
    /\ b.seq = a.seq + 1 /\ b.pending = CommandOf(a, t)
    /\ \A n : Unsent(b, n) => Unsent(a, n)
    /\ t # Status => ~Unsent(b, t.act)

SentWell(a, u, rq, rp, t, b, k) ==
    LET more == rq \cup {CommandOf(a, t)}
    IN  Network(b, u, more, rp, k) /\ Cmds(b, more) = Cmds(a, rq) \cup {CommandOf(a, t)}

LEMMA CommandKeeps ==
    ASSUME NEW a, NEW u, NEW rq, NEW rp, NEW l, Good(a, u, rq, rp, l),
           NEW t, NEW b, Sends(a, t, b), NEW k, Agree(k, l)
    PROVE  SentWell(a, u, rq, rp, t, b, k)
<1> DEFINE w == CommandOf(a, t)
           more == rq \cup {w}
<1>1. /\ a.pending = Nothing /\ a.client # 0 /\ a.seq < MaxSeq /\ t \in PressTokens \cup KeyTokens
      /\ t # Status => t.act <= a.acts
      /\ t # Status /\ t.name # "R" => Unsent(a, t.act)
      /\ b \in Apps /\ b.boot = a.boot /\ b.client = a.client /\ b.hellos = a.hellos /\ b.acts = a.acts
      /\ b.seq = a.seq + 1 /\ b.pending = CommandOf(a, t)
      /\ \A n : Unsent(b, n) => Unsent(a, n)
      /\ t # Status => ~Unsent(b, t.act)
  BY DEF Sends
<1>2. k.ran = l.ran /\ k.stopped = l.stopped /\ k.sent = l.sent /\ k.refused = l.refused BY DEF Agree
<1>3. a \in Apps BY <1>1, <1>2 DEF Good, Typed
<1>4. /\ w \in CommandMsgs /\ w.type = "cmd" /\ w.boot = a.boot /\ w.client = a.client
      /\ w.token = t /\ w.seq \in Seqs /\ w.seq = a.seq + 1 /\ w.seq \in Lasts
      /\ \A n \in Nat : n <= a.seq => n <= w.seq /\ n < w.seq /\ n # w.seq
      /\ w.seq <= w.seq
  BY <1>1, <1>2, <1>3, CommandFacts
<1> HIDE DEF w
<1>5. Cmds(b, more) = Cmds(a, rq) \cup {w} BY <1>1, <1>2, <1>4 DEF Cmds, Nothing, None, w
<1>6. \A c \in Cmds(a, rq) : c.client = a.client => c.seq <= w.seq /\ c.seq # w.seq
  BY <1>1, <1>2, <1>4, CommandShape, Numbers DEF Good, Network, Numbered
<1>7. \A m \in rp : m.type = "state" /\ m.client = a.client => m.seq <= w.seq /\ m.seq # w.seq
  BY <1>1, <1>2, <1>4, CommandShape, Numbers DEF Good, Network, Numbered
<1>8. \A e \in Table(u) : e.id = a.client => e.last <= w.seq /\ e.last # w.seq
  BY <1>1, <1>2, <1>4, CommandShape, Numbers DEF Good, Network, Numbered
<1>9. b.pending = w /\ b.seq = w.seq BY <1>1, <1>2, <1>4 DEF w
<1>10. Doing(w) => /\ \A c \in Cmds(a, rq) : c.token # Status => c.token.act # t.act
                   /\ l.ran[t.act] = 0 /\ t.act \notin l.refused
  <2>1. Doing(w) => Unsent(a, t.act) /\ t.act \in Acts
    BY <1>1, <1>2, <1>4 DEF Doing, PressTokens, KeyTokens
  <2>2. l.ran \in [Acts -> Nat] BY <1>1, <1>2 DEF Good, Typed, Logs
  <2> QED BY <1>1, <1>2, <2>1, <2>2 DEF Good, Network, Once
<1>11. Sessions(b, u, more, rp) BY <1>1, <1>2, <1>4, <1>5 DEF Good, Network, Sessions
<1>12. Nonces(b, u, more, rp) BY <1>1, <1>2, <1>4 DEF Good, Network, Nonces
<1>13. Opening(b, u, more, rp) BY <1>1, <1>2, <1>4, <1>9 DEF Opening
<1>14. Numbered(b, u, more, rp)
  <2>1. \A c, d \in Cmds(b, more) : c.client = d.client /\ c.seq = d.seq => c = d
    BY <1>1, <1>2, <1>4, <1>5, <1>6 DEF Good, Network, Numbered
  <2> QED BY <1>1, <1>2, <1>4, <1>5, <1>6, <1>7, <1>8, <1>9, <2>1 DEF Numbered
<1>15. Once(b, u, more, k)
  <2>1. \A c \in Cmds(b, more) : c.token # Status => c.token.act <= b.acts /\ ~Unsent(b, c.token.act)
    BY <1>1, <1>2, <1>4, <1>5 DEF Good, Network, Once
  <2>2. \A c, d \in Cmds(b, more) : Doing(c) /\ Doing(d) /\ c.token.act = d.token.act => c = d
    BY <1>1, <1>2, <1>4, <1>5, <1>10 DEF Good, Network, Once, Doing
  <2>3. \A c \in Cmds(b, more) : Doing(c) /\ k.ran[c.token.act] > 0 => Spent(u, c)
    BY <1>1, <1>2, <1>4, <1>5, <1>10 DEF Good, Network, Once
  <2>4. \A n \in Acts : k.ran[n] > 0 \/ n \in k.stopped \/ n \in k.refused => n <= b.acts /\ ~Unsent(b, n)
    BY <1>1, <1>2 DEF Good, Network, Once
  <2>5. \A n \in Acts : k.ran[n] <= 1 BY <1>1, <1>2 DEF Good, Network, Once
  <2> QED BY <1>1, <1>2, <2>1, <2>2, <2>3, <2>4, <2>5 DEF Once
<1>16. Truthful(b, u, more, rp, k)
  <2>1. \A c \in Cmds(b, more) : Doing(c) /\ Denied(c.token) => k.ran[c.token.act] = 0
    BY <1>1, <1>2, <1>4, <1>5, <1>10 DEF Good, Network, Truthful
  <2>2. \A c \in Cmds(b, more) : Doing(c) /\ c.token.act \in k.refused => Denied(c.token)
    BY <1>1, <1>2, <1>4, <1>5, <1>10 DEF Good, Network, Truthful
  <2>3. \A c \in Cmds(b, more), m \in rp :
          m.type = "state" /\ m.client = c.client /\ m.seq = c.seq =>
             m.denied = Denied(c.token) /\ (Doing(c) /\ ~m.denied => k.ran[c.token.act] > 0)
    BY <1>1, <1>2, <1>4, <1>5, <1>7 DEF Good, Network, Truthful
  <2>4. \A c \in Cmds(b, more), e \in Table(u) :
          e.id = c.client /\ e.last = c.seq =>
             e.denied = Denied(c.token) /\ (Doing(c) /\ ~e.denied => k.ran[c.token.act] > 0)
    BY <1>1, <1>2, <1>4, <1>5, <1>8 DEF Good, Network, Truthful
  <2>5. (\A n \in k.sent : k.ran[n] > 0) /\ (\A n \in k.refused : k.ran[n] = 0)
    BY <1>1, <1>2 DEF Good, Network, Truthful
  <2> QED BY <1>1, <1>2, <2>1, <2>2, <2>3, <2>4, <2>5 DEF Truthful
<1> QED BY <1>5, <1>11, <1>12, <1>13, <1>14, <1>15, <1>16 DEF SentWell, Network, w

LEMMA TailShape ==
    ASSUME NEW S, NEW s \in Seq(S), s # <<>>
    PROVE  LET t == Tail(s)
           IN  /\ t \in Seq(S) /\ Len(t) \in Nat /\ Len(s) = Len(t) + 1 /\ Head(s) = s[1] /\ Head(s) \in S
               /\ 1 \in 1..Len(s)
               /\ \A i \in 1..Len(t) : i \in Int /\ i + 1 \in 1..Len(s) /\ i + 1 # 1 /\ t[i] = s[i + 1]
               /\ \A i \in 1..Len(s) : i = 1 \/ (i # 1 /\ i - 1 \in 1..Len(t) /\ s[i] = t[i - 1])
<1> DEFINE t == Tail(s)
           n == Len(t)
<1>1. /\ t \in Seq(S) /\ Len(t) = Len(s) - 1 /\ Head(s) = s[1] /\ Head(s) \in S
      /\ \A i \in 1..Len(t) : t[i] = s[i + 1]
  BY HeadTailProperties
<1> HIDE DEF t
<1>2. n \in Nat /\ Len(s) \in Nat BY <1>1, LenProperties
<1>3. Len(s) = n + 1 BY <1>1, <1>2
<1>4. /\ \A i \in 1..n : i \in Int /\ i + 1 \in 1..n + 1 /\ i + 1 # 1
      /\ \A i \in 1..n + 1 : i = 1 \/ (i # 1 /\ i - 1 \in 1..n /\ (i - 1) + 1 = i)
      /\ 1 \in 1..n + 1
  BY <1>2
<1> HIDE DEF n
<1>5. \A i \in 1..n : t[i] = s[i + 1] BY <1>1 DEF n
<1>6. \A i \in 1..n + 1 : i = 1 \/ (i # 1 /\ i - 1 \in 1..n /\ s[i] = t[i - 1]) BY <1>4, <1>5
<1> QED BY <1>1, <1>2, <1>3, <1>4, <1>5, <1>6 DEF t, n

(* The press of the first gesture is sent. *)
LEMMA PressSentKeeps ==
    ASSUME NEW a, NEW u, NEW rq, NEW rp, NEW l, Good(a, u, rq, rp, l),
           a.pending = Nothing, a.client # 0, a.seq < MaxSeq,
           a.gestures # <<>>, ~Head(a.gestures).pressed
    PROVE  LET g == Head(a.gestures)
               w == CommandOf(a, Token("P", g.button, g.act))
           IN  Good([a EXCEPT !.gestures[1].pressed = TRUE, !.seq = a.seq + 1, !.pending = w],
                    u, rq \cup {w}, rp, [l EXCEPT !.owed = l.owed \cup {g.act}])
<1> DEFINE g == Head(a.gestures)
           t == Token("P", g.button, g.act)
           w == CommandOf(a, t)
           gs == [a.gestures EXCEPT ![1].pressed = TRUE]
           b == [a EXCEPT !.gestures = gs, !.seq = a.seq + 1, !.pending = w]
           k == [l EXCEPT !.owed = l.owed \cup {g.act}]
           more == rq \cup {w}
<1>1. a \in Apps /\ l \in Logs /\ a.gestures \in Seq(Gestures) /\ Len(a.gestures) \in Nat
      /\ DOMAIN a.gestures = 1..Len(a.gestures) /\ \A i \in 1..Len(a.gestures) : a.gestures[i] \in Gestures
  BY AppFields DEF Good, Typed
<1>2. g = a.gestures[1] /\ g \in Gestures /\ 1 \in 1..Len(a.gestures) BY <1>1, TailShape
<1>3. g.act \in Acts /\ g.button \in Buttons /\ ~g.pressed BY <1>2 DEF Gestures
<1>4. t \in PressTokens /\ t # Status /\ t.name = "P" /\ t.act = g.act /\ t.button = g.button
  BY <1>3 DEF PressTokens, Token, Status
<1> HIDE DEF t
<1>5. /\ w \in CommandMsgs /\ w.type = "cmd" /\ w.boot = a.boot /\ w.client = a.client
      /\ w.token = t /\ w.seq \in Seqs /\ w.seq = a.seq + 1 /\ w.seq \in Lasts
  BY <1>1, <1>4, CommandFacts
<1> HIDE DEF w
<1>6. \A i \in 1..Len(a.gestures) :
         /\ gs[i] \in Gestures /\ gs[i].act = a.gestures[i].act /\ gs[i].button = a.gestures[i].button
         /\ gs[i].released = a.gestures[i].released
         /\ gs[i].pressed <=> i = 1
  <2>1. \A i \in 1..Len(a.gestures) : i # 1 => ~a.gestures[i].pressed BY DEF Good, Owed
  <2> QED BY <1>1, <2>1 DEF Gestures
<1>7. DOMAIN gs = 1..Len(a.gestures) BY <1>1
<1>8. gs \in Seq(Gestures) /\ Len(gs) = Len(a.gestures)
  <2> DEFINE e == [a.gestures[1] EXCEPT !.pressed = TRUE]
  <2>1. e \in Gestures BY <1>1, <1>2 DEF Gestures
  <2>2. gs = [a.gestures EXCEPT ![1] = e] OBVIOUS
  <2> HIDE DEF e, gs
  <2> QED BY <1>1, <1>2, <2>1, <2>2, ExceptSeq
<1>9. [a EXCEPT !.gestures[1].pressed = TRUE, !.seq = a.seq + 1, !.pending = w] = b BY <1>1 DEF Apps
<1> HIDE DEF gs
<1>10. /\ b \in Apps /\ b.boot = a.boot /\ b.client = a.client /\ b.seq = a.seq + 1 /\ b.hellos = a.hellos
       /\ b.acts = a.acts /\ b.pending = w /\ b.stalled = a.stalled /\ b.queue = a.queue
       /\ b.rehellos = a.rehellos /\ b.gestures = gs /\ b.held = a.held
  BY <1>1, <1>5, <1>8 DEF Apps
<1> HIDE DEF b
<1>11. /\ k \in Logs /\ k.ran = l.ran /\ k.stopped = l.stopped /\ k.sent = l.sent /\ k.refused = l.refused
       /\ k.owed = l.owed \cup {g.act}
  BY <1>1, <1>3 DEF Logs
<1> HIDE DEF k
<1>12. Keys(b) = Keys(a) /\ Queued(b) = Queued(a) BY <1>8, <1>10 DEF Keys, Queued
<1>13. ~Releasing(b) /\ ~Repeated(b) /\ ~Releasing(a) /\ ~Repeated(a)
  BY <1>4, <1>5, <1>10 DEF Releasing, Repeated, Nothing, None
<1>14. \A i \in 1..Len(a.gestures) : ~a.gestures[i].pressed BY <1>2, <1>3 DEF Good, Owed
<1>15. \A n : Unsent(b, n) => Unsent(a, n)
  <2>1. \A n : (\E i \in 1..Len(gs) : ~gs[i].pressed /\ gs[i].act = n) =>
           \E i \in 1..Len(a.gestures) : ~a.gestures[i].pressed /\ a.gestures[i].act = n
    BY <1>6, <1>8, <1>14
  <2> QED BY <1>10, <1>12, <2>1 DEF Unsent
<1>16. Unsent(a, g.act) BY <1>2, <1>3 DEF Unsent
<1>17. ~Unsent(b, g.act)
  <2>1. \A i \in Keys(a) : a.queue[i].act # g.act BY <1>2 DEF Good, Queues
  <2>2. \A i \in 1..Len(a.gestures) : a.gestures[i].act = g.act => i = 1 BY <1>2 DEF Good, Queues
  <2> QED BY <1>6, <1>8, <1>10, <1>12, <2>1, <2>2 DEF Unsent
<1>18. g.act <= a.acts BY <1>2 DEF Good, Queues
<1>19. Network(b, u, more, rp, k) /\ Cmds(b, more) = Cmds(a, rq) \cup {w}
  <2>1. Sends(a, t, b) BY <1>4, <1>10, <1>15, <1>16, <1>17, <1>18 DEF Sends, w
  <2>2. Agree(k, l) BY <1>11 DEF Agree
  <2>3. SentWell(a, u, rq, rp, t, b, k) BY <2>1, <2>2, CommandKeeps
  <2> QED BY <2>3 DEF SentWell, w
<1>20. Typed(b, u, more, rp, k) BY <1>5, <1>10, <1>11 DEF Good, Typed
<1>21. Queues(b) BY <1>6, <1>8, <1>10, <1>12, <1>13 DEF Good, Queues
<1>22. Holding(b, u, more, k)
  <2>1. \A n, d : IsPress(b, u, more, n, d) => IsPress(a, u, rq, n, d)
    <3> TAKE n, d
    <3>2. IsPress(a, u, rq, g.act, g.button) BY <1>2 DEF IsPress
    <3>3. ASSUME NEW i \in 1..Len(gs), gs[i].act = n, gs[i].button = d PROVE IsPress(a, u, rq, n, d)
      <4>1. i \in 1..Len(a.gestures) /\ a.gestures[i].act = n /\ a.gestures[i].button = d BY <1>6, <1>8, <3>3
      <4> QED BY <4>1 DEF IsPress
    <3>4. \A c \in Cmds(b, more) : c.token.name \in {"P", "R"} /\ c.token.act = n /\ c.token.button = d
             => IsPress(a, u, rq, n, d)
      <4>1. w.token.act = n /\ w.token.button = d => IsPress(a, u, rq, n, d) BY <1>4, <1>5, <3>2
      <4> QED BY <1>19, <4>1 DEF IsPress
    <3>5. u.hold # Nothing /\ u.hold.act = n /\ u.hold.button = d => IsPress(a, u, rq, n, d) BY DEF IsPress
    <3> QED BY <1>10, <3>3, <3>4, <3>5 DEF IsPress
  <2>2. \A n \in Acts, x \in Buttons : IsPress(b, u, more, n, x) =>
          n <= b.acts /\ \A d \in Buttons : IsPress(b, u, more, n, d) => x = d
    BY <1>10, <2>1 DEF Good, Holding
  <2>3. \A d \in Cmds(a, rq) : d.token.name = "R" => d.token.act # g.act
    BY <1>16 DEF Good, Network, Once, Status, Token
  <2>4. g.act \notin l.stopped BY <1>3, <1>16 DEF Good, Network, Once
  <2>5. \A c \in Cmds(b, more) : c.token.name = "P" =>
          /\ \A i \in 1..Len(gs) : gs[i].act = c.token.act => c.client = a.client \/ ~Known(u, c.client)
          /\ \A d \in Cmds(b, more) : d.token.name = "R" /\ d.token.act = c.token.act =>
                (c.client = d.client /\ c.seq < d.seq) \/ ~Known(u, c.client)
          /\ c.token.act \in l.stopped => Spent(u, c)
    <3> SUFFICES ASSUME NEW c \in Cmds(a, rq) \cup {w}, c.token.name = "P"
                 PROVE  /\ \A i \in 1..Len(gs) : gs[i].act = c.token.act => c.client = a.client \/ ~Known(u, c.client)
                        /\ \A d \in Cmds(a, rq) \cup {w} : d.token.name = "R" /\ d.token.act = c.token.act =>
                              (c.client = d.client /\ c.seq < d.seq) \/ ~Known(u, c.client)
                        /\ c.token.act \in l.stopped => Spent(u, c)
      BY <1>19
    <3>1. w.token.name # "R" BY <1>4, <1>5
    <3>2. CASE c = w BY <1>4, <1>5, <2>3, <2>4, <3>1, <3>2
    <3>3. CASE c \in Cmds(a, rq) BY <1>6, <1>8, <3>1, <3>3 DEF Good, Holding
    <3> QED BY <3>2, <3>3
  <2> QED BY <1>10, <1>11, <1>15, <2>2, <2>5 DEF Good, Holding
<1>23. Owed(b, k)
  <2>1. {x.act : x \in {h \in ToSet(gs) : h.pressed}} = {g.act}
    <3>1. ToSet(gs) = {gs[i] : i \in 1..Len(a.gestures)} BY <1>7 DEF ToSet
    <3>2. gs[1] \in ToSet(gs) /\ gs[1].pressed /\ gs[1].act = g.act BY <1>2, <1>6, <3>1
    <3>3. \A h \in ToSet(gs) : h.pressed => h.act = g.act BY <1>2, <1>6, <3>1
    <3> QED BY <3>2, <3>3
  <2>2. Owing(b) = {g.act} BY <1>10, <1>13, <2>1 DEF Owing
  <2>3. {x.act : x \in {h \in ToSet(a.gestures) : h.pressed}} = {}
    BY <1>1, <1>2, <1>3 DEF ToSet, Good, Owed
  <2>4. Owing(a) = {} BY <1>13, <2>3 DEF Owing
  <2>5. \A i \in 1..Len(gs) : gs[i].pressed => i = 1 BY <1>6, <1>8
  <2>6. a.held # None => \E i \in 1..Len(gs) : gs[i].button = a.held /\ ~gs[i].released
    BY <1>6, <1>8 DEF Good, Owed
  <2> QED BY <1>10, <1>11, <1>13, <2>2, <2>4, <2>5, <2>6 DEF Good, Owed
<1>24. Bounded(b, u)
  <2>1. Queued(b) + (IF Repeated(b) THEN 1 ELSE 0) <= Room + 1 BY <1>12, <1>13 DEF Good, Bounded
  <2> QED BY <1>2, <1>3, <1>10, <1>12, <1>13, <2>1 DEF Good, Bounded
<1> QED BY <1>9, <1>19, <1>20, <1>21, <1>22, <1>23, <1>24 DEF Good, b, k, w, t

(* The release of the first gesture is sent. *)
LEMMA ReleaseSentKeeps ==
    ASSUME NEW a, NEW u, NEW rq, NEW rp, NEW l, Good(a, u, rq, rp, l),
           a.pending = Nothing, a.client # 0, a.seq < MaxSeq,
           a.gestures # <<>>, Head(a.gestures).pressed, Head(a.gestures).released
    PROVE  LET g == Head(a.gestures)
               w == CommandOf(a, Token("R", g.button, g.act))
           IN  Good([a EXCEPT !.gestures = Tail(a.gestures), !.seq = a.seq + 1, !.pending = w],
                    u, rq \cup {w}, rp, l)
<1> DEFINE g == Head(a.gestures)
           t == Token("R", g.button, g.act)
           w == CommandOf(a, t)
           gs == Tail(a.gestures)
           b == [a EXCEPT !.gestures = gs, !.seq = a.seq + 1, !.pending = w]
           more == rq \cup {w}
<1>1. a \in Apps /\ a.gestures \in Seq(Gestures) /\ DOMAIN a.gestures = 1..Len(a.gestures)
      /\ \A i \in 1..Len(a.gestures) : a.gestures[i] \in Gestures
  BY AppFields DEF Good, Typed
<1>2. /\ gs \in Seq(Gestures) /\ Len(gs) \in Nat /\ Len(a.gestures) = Len(gs) + 1
      /\ g = a.gestures[1] /\ g \in Gestures /\ 1 \in 1..Len(a.gestures)
      /\ \A i \in 1..Len(gs) : i \in Int /\ i + 1 \in 1..Len(a.gestures) /\ i + 1 # 1 /\ gs[i] = a.gestures[i + 1]
      /\ \A i \in 1..Len(a.gestures) : i = 1 \/ (i # 1 /\ i - 1 \in 1..Len(gs) /\ a.gestures[i] = gs[i - 1])
  BY <1>1, TailShape
<1> HIDE DEF gs
<1>3. g.act \in Acts /\ g.button \in Buttons /\ g.pressed /\ g.released BY <1>2 DEF Gestures
<1>4. t \in PressTokens /\ t # Status /\ t.name = "R" /\ t.act = g.act /\ t.button = g.button
  BY <1>3 DEF PressTokens, Token, Status
<1> HIDE DEF t
<1>5. /\ w \in CommandMsgs /\ w.type = "cmd" /\ w.boot = a.boot /\ w.client = a.client
      /\ w.token = t /\ w.seq \in Seqs /\ w.seq = a.seq + 1 /\ w.seq \in Lasts
      /\ \A n \in Nat : n <= a.seq => n < w.seq
  BY <1>1, <1>4, CommandFacts
<1> HIDE DEF w
<1>6. /\ b \in Apps /\ b.boot = a.boot /\ b.client = a.client /\ b.seq = a.seq + 1 /\ b.hellos = a.hellos
      /\ b.acts = a.acts /\ b.pending = w /\ b.stalled = a.stalled /\ b.queue = a.queue
      /\ b.rehellos = a.rehellos /\ b.gestures = gs /\ b.held = a.held
  BY <1>1, <1>2, <1>5 DEF Apps
<1> HIDE DEF b
<1>7. Keys(b) = Keys(a) BY <1>6 DEF Keys
<1>8. Queued(a) = Queued(b) + 1 /\ Queued(b) \in Nat
  <2>1. Len(a.queue) = Len(b.queue) /\ Len(a.gestures) = Len(b.gestures) + 1 BY <1>2, <1>6
  <2> QED BY <1>1, <1>6, <2>1, QueuedStep
<1>9. Releasing(b) /\ Repeated(b) /\ ~Releasing(a) /\ ~Repeated(a)
  BY <1>4, <1>5, <1>6 DEF Releasing, Repeated, Nothing, None
<1>10. \A i \in 1..Len(gs) : \E j \in 1..Len(a.gestures) : j # 1 /\ gs[i] = a.gestures[j] BY <1>2
<1>11. \A n : Unsent(b, n) => Unsent(a, n)
  <2>1. \A n : (\E i \in 1..Len(gs) : ~gs[i].pressed /\ gs[i].act = n) =>
           \E i \in 1..Len(a.gestures) : ~a.gestures[i].pressed /\ a.gestures[i].act = n
    BY <1>10
  <2> QED BY <1>6, <1>7, <2>1 DEF Unsent
<1>12. /\ \A i \in Keys(a) : a.queue[i].act # g.act
       /\ \A i \in 1..Len(gs) : gs[i].act # g.act
  <2>1. \A i \in Keys(a) : a.queue[i].act # g.act BY <1>2 DEF Good, Queues
  <2>2. \A i \in 1..Len(a.gestures) : a.gestures[i].act = g.act => i = 1 BY <1>2 DEF Good, Queues
  <2> QED BY <1>10, <2>1, <2>2
<1>13. ~Unsent(b, g.act) BY <1>6, <1>7, <1>12 DEF Unsent
<1>14. g.act <= a.acts BY <1>2 DEF Good, Queues
<1>15. Network(b, u, more, rp, l) /\ Cmds(b, more) = Cmds(a, rq) \cup {w}
  <2>1. t \in PressTokens \cup KeyTokens /\ t # Status /\ t.name = "R" /\ t.act = g.act BY <1>4
  <2>2. b.pending = CommandOf(a, t) BY <1>6 DEF w
  <2>3. Sends(a, t, b) BY <1>6, <1>11, <1>13, <1>14, <2>1, <2>2 DEF Sends
  <2>4. Agree(l, l) BY DEF Agree
  <2>5. SentWell(a, u, rq, rp, t, b, l) BY <2>3, <2>4, CommandKeeps
  <2> QED BY <2>5 DEF SentWell, w
<1>16. Typed(b, u, more, rp, l) BY <1>5, <1>6 DEF Good, Typed
<1>17. Queues(b)
  <2>1. \A i, j \in 1..Len(gs) : gs[i].act = gs[j].act => i = j
    <3> TAKE i, j \in 1..Len(gs)
    <3>1. /\ i + 1 \in 1..Len(a.gestures) /\ gs[i] = a.gestures[i + 1] /\ i \in Int
          /\ j + 1 \in 1..Len(a.gestures) /\ gs[j] = a.gestures[j + 1] /\ j \in Int
      BY <1>2
    <3>2. gs[i].act = gs[j].act => i + 1 = j + 1 BY <3>1 DEF Good, Queues
    <3> QED BY <3>1, <3>2
  <2>2. \A i \in 1..Len(gs) : gs[i].act <= a.acts BY <1>10 DEF Good, Queues
  <2>3. \A i \in Keys(a), j \in 1..Len(gs) : a.queue[i].act # gs[j].act BY <1>10 DEF Good, Queues
  <2> QED BY <1>4, <1>5, <1>6, <1>7, <1>12, <2>1, <2>2, <2>3 DEF Good, Queues
<1>18. Holding(b, u, more, l)
  <2>1. \A n, d : IsPress(b, u, more, n, d) => IsPress(a, u, rq, n, d)
    <3> TAKE n, d
    <3>1. IsPress(a, u, rq, g.act, g.button) BY <1>2 DEF IsPress
    <3>2. (\E i \in 1..Len(gs) : gs[i].act = n /\ gs[i].button = d) => IsPress(a, u, rq, n, d)
      BY <1>10 DEF IsPress
    <3>3. \A c \in Cmds(b, more) : c.token.name \in {"P", "R"} /\ c.token.act = n /\ c.token.button = d
             => IsPress(a, u, rq, n, d)
      <4>1. w.token.act = n /\ w.token.button = d => IsPress(a, u, rq, n, d) BY <1>4, <1>5, <3>1
      <4> QED BY <1>15, <4>1 DEF IsPress
    <3>4. u.hold # Nothing /\ u.hold.act = n /\ u.hold.button = d => IsPress(a, u, rq, n, d) BY DEF IsPress
    <3> QED BY <1>6, <3>2, <3>3, <3>4 DEF IsPress
  <2>2. \A n \in Acts, x \in Buttons : IsPress(b, u, more, n, x) =>
          n <= b.acts /\ \A d \in Buttons : IsPress(b, u, more, n, d) => x = d
    BY <1>6, <2>1 DEF Good, Holding
  <2>3. \A c \in Cmds(a, rq) : c.token.name = "P" /\ c.token.act = g.act =>
          (c.client = w.client /\ c.seq < w.seq) \/ ~Known(u, c.client)
    <3>1. \A c \in Cmds(a, rq) : c.token.name = "P" /\ c.token.act = g.act =>
             c.client = a.client \/ ~Known(u, c.client)
      BY <1>2 DEF Good, Holding
    <3>2. \A c \in Cmds(a, rq) : c.client = a.client => c.seq < w.seq
      BY <1>5, CommandShape, Numbers DEF Good, Network, Numbered
    <3> QED BY <1>5, <3>1, <3>2
  <2>4. \A c \in Cmds(b, more) : c.token.name = "P" =>
          /\ \A i \in 1..Len(gs) : gs[i].act = c.token.act => c.client = a.client \/ ~Known(u, c.client)
          /\ \A d \in Cmds(b, more) : d.token.name = "R" /\ d.token.act = c.token.act =>
                (c.client = d.client /\ c.seq < d.seq) \/ ~Known(u, c.client)
          /\ c.token.act \in l.stopped => Spent(u, c)
    <3> SUFFICES ASSUME NEW c \in Cmds(a, rq), c.token.name = "P"
                 PROVE  /\ \A i \in 1..Len(gs) : gs[i].act = c.token.act => c.client = a.client \/ ~Known(u, c.client)
                        /\ \A d \in Cmds(a, rq) \cup {w} : d.token.name = "R" /\ d.token.act = c.token.act =>
                              (c.client = d.client /\ c.seq < d.seq) \/ ~Known(u, c.client)
                        /\ c.token.act \in l.stopped => Spent(u, c)
      BY <1>4, <1>5, <1>15
    <3>1. \A i \in 1..Len(gs) : gs[i].act = c.token.act => c.client = a.client \/ ~Known(u, c.client)
      BY <1>10 DEF Good, Holding
    <3>2. \A d \in Cmds(a, rq) \cup {w} : d.token.name = "R" /\ d.token.act = c.token.act =>
                              (c.client = d.client /\ c.seq < d.seq) \/ ~Known(u, c.client)
      BY <1>4, <1>5, <2>3 DEF Good, Holding
    <3> QED BY <3>1, <3>2 DEF Good, Holding
  <2> QED BY <1>6, <1>11, <2>2, <2>4 DEF Good, Holding
<1>19. Owed(b, l)
  <2>1. \A i \in 1..Len(gs) : ~gs[i].pressed BY <1>10 DEF Good, Owed
  <2>2. {x.act : x \in {h \in ToSet(gs) : h.pressed}} = {}
    BY <1>2, <2>1, LenProperties DEF ToSet
  <2>3. Owing(b) = {g.act} BY <1>4, <1>5, <1>6, <1>9, <2>2 DEF Owing
  <2>4. {x.act : x \in {h \in ToSet(a.gestures) : h.pressed}} = {g.act}
    <3>1. ToSet(a.gestures) = {a.gestures[i] : i \in 1..Len(a.gestures)} BY <1>1 DEF ToSet
    <3>2. g \in ToSet(a.gestures) BY <1>2, <3>1
    <3>3. \A i \in 1..Len(a.gestures) : a.gestures[i].pressed => i = 1 BY DEF Good, Owed
    <3>4. \A h \in ToSet(a.gestures) : h.pressed => h.act = g.act BY <1>2, <3>1, <3>3
    <3> QED BY <1>3, <3>2, <3>4
  <2>5. Owing(a) = {g.act} BY <1>9, <2>4 DEF Owing
  <2>6. a.held # None => \E i \in 1..Len(gs) : gs[i].button = a.held /\ ~gs[i].released
    <3>1. a.held # None => \E i \in 1..Len(a.gestures) :
             i # 1 /\ a.gestures[i].button = a.held /\ ~a.gestures[i].released
      BY <1>2, <1>3 DEF Good, Owed
    <3> QED BY <1>2, <3>1
  <2> QED BY <1>6, <2>1, <2>3, <2>5, <2>6 DEF Good, Owed
<1>20. Bounded(b, u)
  <2>1. Queued(b) <= Room /\ Queued(b) + (IF Repeated(b) THEN 1 ELSE 0) <= Room + 1
    BY <1>8, <1>9, Numbers DEF Good, Bounded
  <2> QED BY <1>6, <1>9, <2>1 DEF Good, Bounded
<1> QED BY <1>15, <1>16, <1>17, <1>18, <1>19, <1>20 DEF Good, b, gs, w, t

(* A key or a status query is sent. *)
LEMMA OtherSentKeeps ==
    ASSUME NEW a, NEW u, NEW rq, NEW rp, NEW l, Good(a, u, rq, rp, l),
           a.pending = Nothing, a.client # 0, a.seq < MaxSeq,
           NEW t \in KeyTokens, NEW q \in Seq(KeyTokens),
           \A i \in 1..Len(q) : \E j \in 1..Len(a.queue) : q[i] = a.queue[j],
           \A i \in 1..Len(q) : \A j \in 1..Len(q) :
              q[i] # Status /\ q[j] # Status /\ q[i].act = q[j].act => i = j,
           t # Status => \A i \in 1..Len(q) : q[i] = Status \/ q[i].act # t.act,
           t # Status => \E j \in 1..Len(a.queue) : t = a.queue[j],
           Len(q) <= Len(a.queue),
           Len(q) = Len(a.queue) => Queued(a) <= Room,
           Len(q) # Len(a.queue) => Len(a.queue) = Len(q) + 1
    PROVE  LET w == CommandOf(a, t)
           IN  Good([a EXCEPT !.queue = q, !.seq = a.seq + 1, !.pending = w], u, rq \cup {w}, rp, l)
<1> DEFINE w == CommandOf(a, t)
           b == [a EXCEPT !.queue = q, !.seq = a.seq + 1, !.pending = w]
           more == rq \cup {w}
<1>1. a \in Apps BY DEF Good, Typed
<1>2. t.name \notin {"P", "R"}
  BY BadgeAssumption DEF KeyTokens, Status, Token
<1>3. t \in PressTokens \cup KeyTokens OBVIOUS
<1>4. /\ w \in CommandMsgs /\ w.type = "cmd" /\ w.boot = a.boot /\ w.client = a.client
      /\ w.token = t /\ w.seq \in Seqs /\ w.seq = a.seq + 1 /\ w.seq \in Lasts
  BY <1>1, <1>3, CommandFacts
<1> HIDE DEF w
<1>5. /\ b \in Apps /\ b.boot = a.boot /\ b.client = a.client /\ b.seq = a.seq + 1 /\ b.hellos = a.hellos
      /\ b.acts = a.acts /\ b.pending = w /\ b.stalled = a.stalled /\ b.queue = q
      /\ b.rehellos = a.rehellos /\ b.gestures = a.gestures /\ b.held = a.held
  BY <1>1, <1>4 DEF Apps
<1> HIDE DEF b
<1>6. Queued(b) \in Nat /\ Queued(b) <= Room
  <2>1. Len(b.gestures) = Len(a.gestures) /\ Len(b.queue) = Len(q) BY <1>5
  <2>2. CASE Len(q) = Len(a.queue)
    <3>1. Queued(b) = Queued(a) /\ Queued(b) \in Nat BY <1>1, <1>5, <2>1, <2>2, QueuedStep
    <3> QED BY <2>2, <3>1
  <2>3. CASE Len(q) # Len(a.queue)
    <3>1. Len(a.queue) = Len(b.queue) + 1 BY <2>1, <2>3
    <3>2. Queued(a) = Queued(b) + 1 /\ Queued(b) \in Nat /\ Queued(a) \in Nat
      BY <1>1, <1>5, <2>1, <3>1, QueuedStep
    <3>3. Queued(a) <= Room + 1
      BY <3>2, Numbers DEF Good, Bounded
    <3> QED BY <3>2, <3>3, Numbers
  <2> QED BY <2>2, <2>3
<1>7. ~Releasing(b) /\ ~Releasing(a) /\ ~Repeated(a)
  BY <1>2, <1>4, <1>5 DEF Releasing, Repeated, Nothing, None
<1>8. \A i \in Keys(b) : i \in 1..Len(q) /\ b.queue[i] = q[i] /\ q[i] # Status
         /\ \E j \in Keys(a) : q[i] = a.queue[j]
  BY <1>5 DEF Keys
<1>9. \A n : Unsent(b, n) => Unsent(a, n)
  <2>1. \A n : (\E i \in Keys(b) : b.queue[i].act = n) => \E i \in Keys(a) : a.queue[i].act = n
    BY <1>8
  <2> QED BY <1>5, <2>1 DEF Unsent
<1>10. t # Status => \E j \in Keys(a) : t = a.queue[j] BY DEF Keys
<1>11. t # Status => t.act \in Acts /\ t.act <= a.acts /\ Unsent(a, t.act) /\ ~Unsent(b, t.act)
  <2> SUFFICES ASSUME t # Status PROVE t.act \in Acts /\ t.act <= a.acts /\ Unsent(a, t.act) /\ ~Unsent(b, t.act)
    OBVIOUS
  <2>1. t.act \in Acts BY DEF KeyTokens
  <2>2. PICK j \in Keys(a) : t = a.queue[j] BY <1>10
  <2>3. t.act <= a.acts BY <2>2 DEF Good, Queues
  <2>4. Unsent(a, t.act) BY <2>2 DEF Unsent
  <2>5. \A i \in 1..Len(a.gestures) : a.gestures[i].act # t.act BY <2>2 DEF Good, Queues
  <2>6. \A i \in Keys(b) : b.queue[i].act # t.act BY <1>8
  <2>7. ~Unsent(b, t.act) BY <1>5, <2>5, <2>6 DEF Unsent
  <2> QED BY <2>1, <2>3, <2>4, <2>7
<1>12. Network(b, u, more, rp, l) /\ Cmds(b, more) = Cmds(a, rq) \cup {w}
  <2>1. b.pending = CommandOf(a, t) BY <1>5 DEF w
  <2>2. Sends(a, t, b) BY <1>3, <1>5, <1>9, <1>11, <2>1 DEF Sends
  <2>3. Agree(l, l) BY DEF Agree
  <2>4. SentWell(a, u, rq, rp, t, b, l) BY <2>2, <2>3, CommandKeeps
  <2> QED BY <2>4 DEF SentWell, w
<1>13. Typed(b, u, more, rp, l) BY <1>4, <1>5 DEF Good, Typed
<1>14. Queues(b)
  <2>1. \A i \in Keys(b) : b.queue[i].act <= b.acts BY <1>5, <1>8 DEF Good, Queues
  <2>2. \A i, j \in Keys(b) : b.queue[i].act = b.queue[j].act => i = j
    <3> TAKE i, j \in Keys(b)
    <3>1. /\ i \in 1..Len(q) /\ b.queue[i] = q[i] /\ q[i] # Status
          /\ j \in 1..Len(q) /\ b.queue[j] = q[j] /\ q[j] # Status
      BY <1>8
    <3> QED BY <3>1
  <2>3. \A i \in Keys(b), j \in 1..Len(b.gestures) : b.queue[i].act # b.gestures[j].act
    <3> TAKE i \in Keys(b), j \in 1..Len(b.gestures)
    <3>1. PICK x \in Keys(a) : b.queue[i] = a.queue[x] BY <1>8
    <3> QED BY <1>5, <3>1 DEF Good, Queues
  <2> QED BY <1>5, <1>7, <2>1, <2>2, <2>3 DEF Good, Queues
<1>15. Holding(b, u, more, l)
  <2>1. \A n, d : IsPress(b, u, more, n, d) => IsPress(a, u, rq, n, d)
    BY <1>2, <1>4, <1>5, <1>12 DEF IsPress
  <2>2. \A n \in Acts, x \in Buttons : IsPress(b, u, more, n, x) =>
          n <= b.acts /\ \A d \in Buttons : IsPress(b, u, more, n, d) => x = d
    BY <1>5, <2>1 DEF Good, Holding
  <2>3. w.token.name # "P" /\ w.token.name # "R" BY <1>2, <1>4
  <2> QED BY <1>5, <1>9, <1>12, <2>2, <2>3 DEF Good, Holding
<1>16. Owed(b, l)
  <2>1. Owing(b) = Owing(a) BY <1>5, <1>7 DEF Owing
  <2> QED BY <1>5, <1>7, <2>1 DEF Good, Owed
<1>17. Bounded(b, u)
  <2>1. Queued(b) + (IF Repeated(b) THEN 1 ELSE 0) <= Room + 1 BY <1>6, Numbers
  <2> QED BY <1>5, <1>6, <1>7, <2>1 DEF Good, Bounded
<1> QED BY <1>12, <1>13, <1>14, <1>15, <1>16, <1>17 DEF Good, b, w

LEMMA KeySentKeeps ==
    ASSUME NEW a, NEW u, NEW rq, NEW rp, NEW l, Good(a, u, rq, rp, l),
           a.pending = Nothing, a.client # 0, a.seq < MaxSeq, a.queue # <<>>
    PROVE  LET w == CommandOf(a, Head(a.queue))
           IN  Good([a EXCEPT !.queue = Tail(a.queue), !.seq = a.seq + 1, !.pending = w],
                    u, rq \cup {w}, rp, l)
<1> DEFINE q == Tail(a.queue)
           t == Head(a.queue)
<1>1. a.queue \in Seq(KeyTokens) BY AppFields DEF Good, Typed
<1>2. /\ q \in Seq(KeyTokens) /\ Len(q) \in Nat /\ Len(a.queue) = Len(q) + 1 /\ t = a.queue[1]
      /\ t \in KeyTokens /\ 1 \in 1..Len(a.queue)
      /\ \A i \in 1..Len(q) : i \in Int /\ i + 1 \in 1..Len(a.queue) /\ i + 1 # 1 /\ q[i] = a.queue[i + 1]
  BY <1>1, TailShape
<1> HIDE DEF q, t
<1>3. \A i \in 1..Len(q) : \E j \in 1..Len(a.queue) : q[i] = a.queue[j] BY <1>2
<1>4. \A i, j \in 1..Len(a.queue) :
         a.queue[i] # Status /\ a.queue[j] # Status /\ a.queue[i].act = a.queue[j].act => i = j
  BY DEF Good, Queues, Keys
<1>5. \A i \in 1..Len(q) : \A j \in 1..Len(q) :
         q[i] # Status /\ q[j] # Status /\ q[i].act = q[j].act => i = j
  <2> TAKE i \in 1..Len(q)
  <2> TAKE j \in 1..Len(q)
  <2>1. /\ i + 1 \in 1..Len(a.queue) /\ q[i] = a.queue[i + 1] /\ i \in Int
        /\ j + 1 \in 1..Len(a.queue) /\ q[j] = a.queue[j + 1] /\ j \in Int
    BY <1>2
  <2>2. q[i] # Status /\ q[j] # Status /\ q[i].act = q[j].act => i + 1 = j + 1 BY <1>4, <2>1
  <2> QED BY <2>1, <2>2
<1>6. t # Status => \A i \in 1..Len(q) : q[i] = Status \/ q[i].act # t.act BY <1>2, <1>4
<1>7. Len(q) <= Len(a.queue) /\ Len(q) # Len(a.queue) BY <1>2
<1>8. t # Status => \E j \in 1..Len(a.queue) : t = a.queue[j] BY <1>2
<1>9. Good([a EXCEPT !.queue = q, !.seq = a.seq + 1, !.pending = CommandOf(a, t)],
           u, rq \cup {CommandOf(a, t)}, rp, l)
  BY <1>2, <1>3, <1>5, <1>6, <1>7, <1>8, OtherSentKeeps
<1> QED BY <1>9 DEF q, t

LEMMA StatusSentKeeps ==
    ASSUME NEW a, NEW u, NEW rq, NEW rp, NEW l, Good(a, u, rq, rp, l),
           a.pending = Nothing, a.client # 0, a.seq < MaxSeq, a.queue = <<>>,
           a.gestures # <<>> => ~Head(a.gestures).released
    PROVE  LET w == CommandOf(a, Status)
           IN  Good([a EXCEPT !.seq = a.seq + 1, !.pending = w], u, rq \cup {w}, rp, l)
<1>1. a \in Apps /\ a.queue \in Seq(KeyTokens) /\ Status \in KeyTokens /\ Len(a.queue) = 0
      /\ a.gestures \in Seq(Gestures) /\ Len(a.gestures) \in Nat
  BY AppFields, EmptySeq DEF Good, Typed, KeyTokens
<1>2. Len(a.gestures) > 0 => a.gestures # <<>> /\ Head(a.gestures) = a.gestures[1]
  <2>1. Len(a.gestures) > 0 => a.gestures # <<>> BY <1>1, EmptySeq
  <2> QED BY <1>1, <2>1, TailShape
<1>3. Queued(a) <= Room BY <1>1, <1>2 DEF Good, Bounded
<1>4. (\A i \in 1..Len(a.queue) : FALSE) /\ Len(a.queue) <= Len(a.queue) BY <1>1
<1>5. Good([a EXCEPT !.queue = a.queue, !.seq = a.seq + 1, !.pending = CommandOf(a, Status)],
           u, rq \cup {CommandOf(a, Status)}, rp, l)
  BY <1>1, <1>3, <1>4, OtherSentKeeps
<1>6. [a EXCEPT !.queue = a.queue, !.seq = a.seq + 1, !.pending = CommandOf(a, Status)]
        = [a EXCEPT !.seq = a.seq + 1, !.pending = CommandOf(a, Status)]
  BY <1>1 DEF Apps
<1> QED BY <1>5, <1>6

-------------------------------------------------------------------------------
Requests == HelloMsgs \cup CommandMsgs
Replies == WelcomeMsgs \cup StateMsgs \cup RehelloMsgs

IInv ==
    /\ requests \in Seq(Requests) /\ replies \in Seq(Replies)
    /\ Good(app, unit, ToSet(requests), ToSet(replies), log)

(* The badge sends w, and the network may lose another datagram for it. *)
LEMMA SentKeeps ==
    ASSUME IInv, NEW w, NEW b, NEW k,
           Good(b, unit, ToSet(requests) \cup {w}, ToSet(replies), k),
           app' = b, requests' = Put(requests, w), log' = k, unit' = unit, replies' = replies
    PROVE  IInv'
<1>1. w \in Requests BY DEF Good, Typed, Requests
<1>2. requests' \in Seq(Requests) /\ ToSet(requests') \subseteq ToSet(requests) \cup {w}
  BY <1>1, PutKeeps DEF IInv
<1>3. Good(b, unit, ToSet(requests'), ToSet(replies), k) BY <1>2, LossKeeps
<1> QED BY <1>2, <1>3 DEF IInv

LEMMA AppKeeps ==
    ASSUME IInv, NEW b, NEW k, Good(b, unit, ToSet(requests), ToSet(replies), k),
           app' = b, requests' = requests, log' = k, unit' = unit, replies' = replies
    PROVE  IInv'
BY DEF IInv

LEMMA TransactKeeps ==
    ASSUME IInv, NEW a, NEW k, Good(a, unit, ToSet(requests), ToSet(replies), k), a.pending = Nothing,
           Transact(a, k), unit' = unit, replies' = replies
    PROVE  IInv'
<1> DEFINE rq == ToSet(requests)
           rp == ToSet(replies)
<1>1. a \in Apps /\ k \in Logs BY DEF Good, Typed
<1>2. CASE a.client = 0 /\ ~a.closing /\ a.hellos < MaxHellos
           /\ Sent([a EXCEPT !.hellos = @ + 1], [type |-> "hello", nonce |-> a.hellos + 1])
           /\ log' = k
  <2> DEFINE h == [type |-> "hello", nonce |-> a.hellos + 1]
             b == [a EXCEPT !.hellos = a.hellos + 1, !.pending = h]
  <2>1. Good(b, unit, rq \cup {h}, rp, k) BY <1>2, HelloKeeps
  <2>2. app' = b /\ requests' = Put(requests, h) BY <1>1, <1>2 DEF Sent, Apps
  <2> HIDE DEF b, h
  <2> QED BY <1>2, <2>1, <2>2, SentKeeps
<1>3. CASE /\ a.client # 0 /\ a.gestures # <<>> /\ ~Head(a.gestures).pressed
           /\ Command([a EXCEPT !.gestures[1].pressed = TRUE],
                      Token("P", Head(a.gestures).button, Head(a.gestures).act))
           /\ log' = [k EXCEPT !.owed = @ \cup {Head(a.gestures).act}]
  <2> DEFINE g == Head(a.gestures)
             t == Token("P", g.button, g.act)
             w == CommandOf(a, t)
             b == [a EXCEPT !.gestures[1].pressed = TRUE, !.seq = a.seq + 1, !.pending = w]
             m == [k EXCEPT !.owed = k.owed \cup {g.act}]
  <2>1. a.seq < MaxSeq /\ app' = b /\ requests' = Put(requests, w)
    BY <1>1, <1>3 DEF Command, Sent, CommandOf, Apps
  <2>2. log' = m BY <1>1, <1>3 DEF Logs
  <2>3. Good(b, unit, rq \cup {w}, rp, m) BY <1>3, <2>1, PressSentKeeps
  <2> HIDE DEF b, w, m
  <2> QED BY <2>1, <2>2, <2>3, SentKeeps
<1>4. CASE /\ a.client # 0 /\ a.gestures # <<>> /\ Head(a.gestures).pressed /\ Head(a.gestures).released
           /\ Command([a EXCEPT !.gestures = Tail(@)],
                      Token("R", Head(a.gestures).button, Head(a.gestures).act))
           /\ log' = k
  <2> DEFINE g == Head(a.gestures)
             t == Token("R", g.button, g.act)
             w == CommandOf(a, t)
             b == [a EXCEPT !.gestures = Tail(a.gestures), !.seq = a.seq + 1, !.pending = w]
  <2>1. a.seq < MaxSeq /\ app' = b /\ requests' = Put(requests, w)
    BY <1>1, <1>4 DEF Command, Sent, CommandOf, Apps
  <2>2. Good(b, unit, rq \cup {w}, rp, k) BY <1>4, <2>1, ReleaseSentKeeps
  <2> HIDE DEF b, w
  <2> QED BY <1>4, <2>1, <2>2, SentKeeps
<1>5. CASE /\ a.client # 0 /\ a.queue # <<>>
           /\ Command([a EXCEPT !.queue = Tail(@)], Head(a.queue)) /\ log' = k
  <2> DEFINE w == CommandOf(a, Head(a.queue))
             b == [a EXCEPT !.queue = Tail(a.queue), !.seq = a.seq + 1, !.pending = w]
  <2>1. a.seq < MaxSeq /\ app' = b /\ requests' = Put(requests, w)
    BY <1>1, <1>5 DEF Command, Sent, CommandOf, Apps
  <2>2. Good(b, unit, rq \cup {w}, rp, k) BY <1>5, <2>1, KeySentKeeps
  <2> HIDE DEF b, w
  <2> QED BY <1>5, <2>1, <2>2, SentKeeps
<1>6. CASE /\ a.client # 0 /\ a.queue = <<>> /\ (a.gestures # <<>> => ~Head(a.gestures).released)
           /\ Command(a, Status) /\ log' = k
  <2> DEFINE w == CommandOf(a, Status)
             b == [a EXCEPT !.seq = a.seq + 1, !.pending = w]
  <2>1. a.seq < MaxSeq /\ app' = b /\ requests' = Put(requests, w)
    BY <1>1, <1>6 DEF Command, Sent, CommandOf, Apps
  <2>2. Good(b, unit, rq \cup {w}, rp, k) BY <1>6, <2>1, StatusSentKeeps
  <2> HIDE DEF b, w
  <2> QED BY <1>6, <2>1, <2>2, SentKeeps
<1> QED BY <1>2, <1>3, <1>4, <1>5, <1>6 DEF Transact

(* The badge takes a step. *)
LEMMA StepKeeps ==
    ASSUME IInv, NEW connected \in BOOLEAN, NEW m \in ToSet(replies) \cup {Nothing}, Step(connected, m)
    PROVE  IInv'
<1> DEFINE a == IF connected THEN Received(app, m) ELSE DropUnsent(app)
           k == IF connected THEN Noted(app, m) ELSE log
           idle == [a EXCEPT !.pending = Nothing]
           rq == ToSet(requests)
           rp == ToSet(replies)
<1>1. Good(a, unit, rq, rp, k)
  <2>1. CASE connected
    <3>1. Good(Received(app, m), unit, rq, rp, Noted(app, m)) BY ReceivedKeeps DEF IInv
    <3> QED BY <2>1, <3>1
  <2>2. CASE ~connected
    <3>1. Good(DropUnsent(app), unit, rq, rp, log) BY DropKeeps DEF IInv
    <3> QED BY <2>2, <3>1
  <2> QED BY <2>1, <2>2
<1>2. unit' = unit /\ replies' = replies BY DEF Step
<1>3. \/ Rests(a, k)
      \/ Releasing(a) /\ Rests([a EXCEPT !.stalled = TRUE], k)
      \/ ~Releasing(a) /\ Rests(idle, k)
      \/ ~Releasing(a) /\ Transact(idle, k)
  BY DEF Step, GivesWay
<1> HIDE DEF a, k
<1>4. CASE Rests(a, k) BY <1>1, <1>2, <1>4, AppKeeps DEF Rests
<1>5. CASE Releasing(a) /\ Rests([a EXCEPT !.stalled = TRUE], k)
  <2> DEFINE b == [a EXCEPT !.stalled = TRUE]
  <2>1. Good(b, unit, rq, rp, k) BY <1>1, <1>5, StallKeeps
  <2> HIDE DEF b
  <2> QED BY <1>2, <1>5, <2>1, AppKeeps DEF Rests, b
<1>6. ~Releasing(a) => Good(idle, unit, rq, rp, k) /\ idle.pending = Nothing BY <1>1, GivenUpKeeps
<1> HIDE DEF idle
<1>7. CASE ~Releasing(a) /\ Rests(idle, k) BY <1>2, <1>6, <1>7, AppKeeps DEF Rests
<1>8. CASE ~Releasing(a) /\ Transact(idle, k) BY <1>2, <1>6, <1>8, TransactKeeps
<1> QED BY <1>3, <1>4, <1>5, <1>7, <1>8 DEF idle

LEMMA HelloExpiresKeeps == ASSUME IInv, HelloExpires PROVE IInv'
<1> DEFINE a == DropUnsent(app)
           b == [a EXCEPT !.pending = Nothing]
<1>1. Good(a, unit, ToSet(requests), ToSet(replies), log) /\ a.pending = app.pending
  BY DropKeeps DEF IInv
<1>2. ~Releasing(a) BY <1>1 DEF HelloExpires, Releasing
<1> HIDE DEF a
<1>3. Good(b, unit, ToSet(requests), ToSet(replies), log) BY <1>1, <1>2, GivenUpKeeps
<1>4. app' = b /\ UNCHANGED <<unit, requests, replies, log>> BY DEF HelloExpires, a
<1> HIDE DEF b
<1> QED BY <1>3, <1>4, AppKeeps

LEMMA VolumeKeeps == ASSUME IInv, NEW button \in Buttons, Volume(button) PROVE IInv'
<1> DEFINE a == ReleaseVolume(app)
           g == [button |-> button, act |-> a.acts + 1, pressed |-> FALSE, released |-> FALSE]
           b == [a EXCEPT !.gestures = Append(a.gestures, g), !.held = button, !.acts = a.acts + 1]
<1>1. Good(a, unit, ToSet(requests), ToSet(replies), log) /\ a.acts = app.acts
  BY ReleaseVolumeKeeps DEF IInv
<1> HIDE DEF a
<1>2. a \in Apps BY <1>1 DEF Good, Typed
<1>3. app.acts < MaxActs /\ UNCHANGED <<unit, requests, replies, log>> BY DEF Volume
<1>4. app' = IF HasRoom(a) THEN b ELSE a BY <1>1, <1>2 DEF Volume, a, Apps
<1>5. HasRoom(a) => Good(b, unit, ToSet(requests), ToSet(replies), log)
  BY <1>1, <1>3, PressKeeps DEF HasRoom
<1> HIDE DEF b
<1> QED BY <1>1, <1>3, <1>4, <1>5, AppKeeps

LEMMA ReleaseKeeps == ASSUME IInv, Release PROVE IInv'
<1>1. Good(ReleaseVolume(app), unit, ToSet(requests), ToSet(replies), log)
  BY ReleaseVolumeKeeps DEF IInv
<1> QED BY <1>1, AppKeeps DEF Release

LEMMA TapKeeps == ASSUME IInv, NEW name \in Taps, Tap(name) PROVE IInv'
<1> DEFINE b == [app EXCEPT !.queue = Append(app.queue, Token(name, None, app.acts + 1)),
                            !.acts = app.acts + 1]
<1>1. app \in Apps BY DEF IInv, Good, Typed
<1>2. app' = b /\ UNCHANGED <<unit, requests, replies, log>> /\ app.acts < MaxActs /\ Queued(app) < Room
  BY <1>1 DEF Tap, HasRoom, Apps
<1>3. Good(b, unit, ToSet(requests), ToSet(replies), log) BY <1>2, KeyKeeps DEF IInv
<1> HIDE DEF b
<1> QED BY <1>2, <1>3, AppKeeps

LEMMA AppRestartKeeps == ASSUME IInv, AppRestart PROVE IInv'
<1>1. Good(InitApp(app.acts, app.hellos), unit, ToSet(requests), ToSet(replies), [log EXCEPT !.owed = {}])
  BY RestartKeeps DEF IInv
<1> QED BY <1>1, AppKeeps DEF AppRestart

LEMMA CloseKeeps == ASSUME IInv, Close PROVE IInv'
<1> DEFINE a == ReleaseVolume(app)
           begun == Begun(a.gestures)
           gs == [i \in 1..Len(begun) |-> [begun[i] EXCEPT !.released = TRUE]]
           b == [a EXCEPT !.closing = TRUE, !.queue = <<>>, !.gestures = gs]
           rq == ToSet(requests)
           rp == ToSet(replies)
<1>1. Good(a, unit, rq, rp, log) /\ a.held = None BY ReleaseVolumeKeeps DEF IInv
<1>2. app' = b /\ UNCHANGED <<unit, requests, replies, log>> BY DEF Close
<1> HIDE DEF a
<1>3. /\ begun \in Seq(Gestures)
      /\ \/ Len(begun) = 0 /\ ~(Len(a.gestures) > 0 /\ a.gestures[1].pressed)
         \/ /\ Len(begun) = 1 /\ Len(a.gestures) > 0 /\ a.gestures[1].pressed
            /\ begun[1] = a.gestures[1]
  BY <1>1, FirstGesture
<1>4. a \in Apps BY <1>1 DEF Good, Typed
<1> HIDE DEF begun
<1>5. Len(begun) \in Nat /\ \A i \in 1..Len(begun) : begun[i] \in Gestures
  BY <1>3, LenProperties, ElementOfSeq
<1>6. \A i \in 1..Len(begun) :
         /\ gs[i] \in Gestures /\ gs[i].act = begun[i].act /\ gs[i].button = begun[i].button
         /\ gs[i].pressed = begun[i].pressed /\ gs[i].released
  BY <1>5 DEF Gestures
<1>7. gs \in Seq(Gestures) /\ Len(gs) = Len(begun)
  <2>1. gs \in Seq(Gestures) BY <1>5, <1>6, IsASeq
  <2>2. DOMAIN gs = 1..Len(begun) OBVIOUS
  <2> HIDE DEF gs
  <2> QED BY <1>5, <2>1, <2>2, LenProperties
<1> HIDE DEF gs
<1>8. /\ b \in Apps /\ b.boot = a.boot /\ b.client = a.client /\ b.seq = a.seq /\ b.hellos = a.hellos
      /\ b.acts = a.acts /\ b.pending = a.pending /\ b.stalled = a.stalled /\ b.queue = <<>>
      /\ b.rehellos = a.rehellos /\ b.gestures = gs /\ b.held = None
  BY <1>1, <1>4, <1>7, EmptySeq DEF Apps
<1> HIDE DEF b
<1>9. \/ Len(b.gestures) = 0 /\ ~(Len(a.gestures) > 0 /\ a.gestures[1].pressed)
      \/ /\ Len(b.gestures) = 1 /\ Len(a.gestures) > 0 /\ a.gestures[1].pressed
         /\ b.gestures[1].act = a.gestures[1].act
         /\ b.gestures[1].button = a.gestures[1].button
         /\ b.gestures[1].pressed /\ b.gestures[1].released
  <2>1. CASE Len(begun) = 1
    <3>1. 1 \in 1..Len(begun) BY <2>1
    <3> QED BY <1>3, <1>6, <1>7, <1>8, <2>1, <3>1
  <2>2. CASE Len(begun) # 1 BY <1>3, <1>7, <1>8, <2>2
  <2> QED BY <2>1, <2>2
<1>10. Good(b, unit, rq, rp, log) BY <1>1, <1>8, <1>9, DroppedKeeps
<1> QED BY <1>2, <1>10, AppKeeps DEF b, gs

-------------------------------------------------------------------------------
Fits(a, u, rq, rp, l, x) ==
    /\ x \in Replies /\ x.client < u.next
    /\ x.type = "welcome" =>
          /\ x.nonce <= a.hellos /\ (Known(u, x.client) => x.boot = u.boot)
          /\ a.pending.type = "hello" /\ x.nonce = a.hellos => Unused(u, rq, rp, x.client)
    /\ x.type = "rehello" => ~Known(u, x.client)
    /\ x.type = "state" =>
          /\ \E c \in rq : c.type = "cmd" /\ c.client = x.client /\ c.seq = x.seq
          /\ \A c \in Cmds(a, rq) : x.client = c.client /\ x.seq = c.seq =>
                x.denied = Denied(c.token) /\ (Doing(c) /\ ~x.denied => l.ran[c.token.act] > 0)

(* The controller sends a reply. *)
LEMMA ReplyKeeps ==
    ASSUME NEW a, NEW u, NEW rq, NEW rp, NEW l, Good(a, u, rq, rp, l), NEW x, Fits(a, u, rq, rp, l, x)
    PROVE  Good(a, u, rq, rp \cup {x}, l)
<1> DEFINE more == rp \cup {x}
<1>1. Typed(a, u, rq, more, l) BY DEF Good, Typed, Fits, Replies
<1>2. Sessions(a, u, rq, more) BY DEF Good, Network, Sessions, Fits
<1>3. Nonces(a, u, rq, more) BY DEF Good, Network, Nonces, Fits
<1>4. \A id : Unused(u, rq, rp, id) => Unused(u, rq, more, id)
  <2> SUFFICES ASSUME NEW id, Unused(u, rq, rp, id) PROVE Unused(u, rq, more, id) OBVIOUS
  <2>1. x.type = "state" => x.client # id BY DEF Fits, Unused
  <2> QED BY <2>1 DEF Unused
<1>5. Opening(a, u, rq, more)
  <2> SUFFICES ASSUME a.pending.type = "hello"
               PROVE  /\ a.client = 0 /\ a.pending.nonce = a.hellos
                      /\ \A m \in more : m.type = "welcome" /\ m.nonce = a.hellos => Unused(u, rq, rp, m.client)
                      /\ \A e \in Table(u) : e.nonce = a.hellos => Unused(u, rq, rp, e.id)
    BY <1>4 DEF Opening
  <2>1. x.type = "welcome" /\ x.nonce = a.hellos => Unused(u, rq, rp, x.client) BY DEF Fits
  <2> QED BY <2>1 DEF Good, Network, Opening
<1>6. Numbered(a, u, rq, more)
  <2>1. x.type = "state" /\ x.client = a.client => x.seq <= a.seq
    BY CommandShape DEF Good, Network, Numbered, Fits
  <2> QED BY <2>1 DEF Good, Network, Numbered
<1>7. Truthful(a, u, rq, more, l)
  <2>1. \A c \in Cmds(a, rq), m \in more :
          m.type = "state" /\ m.client = c.client /\ m.seq = c.seq =>
             m.denied = Denied(c.token) /\ (Doing(c) /\ ~m.denied => l.ran[c.token.act] > 0)
    BY DEF Good, Network, Truthful, Fits
  <2> QED BY <2>1 DEF Good, Network, Truthful
<1> QED BY <1>1, <1>2, <1>3, <1>5, <1>6, <1>7 DEF Good, Network

LEMMA TableIs ==
    ASSUME NEW u \in Units
    PROVE  /\ \A e : e \in Table(u) <=> \E i \in 1..Len(u.clients) : e = u.clients[i]
           /\ \A id : Known(u, id) <=> \E e \in Table(u) : e.id = id
           /\ u.clients \in Seq(Clients) /\ Len(u.clients) \in Nat /\ u.next \in Nat /\ u.next \in Ids
           /\ u.boot \in Nat /\ u.hold \in {Nothing} \cup Holds
           /\ \A i \in 1..Len(u.clients) : u.clients[i] \in Clients
<1>1. u.clients \in Seq(Clients) BY DEF Units
<1>2. Len(u.clients) \in Nat /\ \A i \in 1..Len(u.clients) : u.clients[i] \in Clients
  BY <1>1, LenProperties, ElementOfSeq
<1> QED BY <1>1, <1>2, Numbers DEF Units, Table, Known

(* The welcome to the session of a client. *)
LEMMA WelcomeFits ==
    ASSUME NEW a, NEW u, NEW rq, NEW rp, NEW l, Good(a, u, rq, rp, l), NEW e \in Table(u), e.nonce \in Ids
    PROVE  Good(a, u, rq, rp \cup {[type |-> "welcome", nonce |-> e.nonce, boot |-> u.boot, client |-> e.id]}, l)
<1> DEFINE x == [type |-> "welcome", nonce |-> e.nonce, boot |-> u.boot, client |-> e.id]
<1>1. u \in Units BY DEF Good, Typed
<1>2. e.id \in Ids /\ e.id < u.next /\ e.nonce <= a.hellos
  BY CommandShape DEF Good, Network, Sessions, Nonces
<1>3. x \in Replies BY <1>1, <1>2, TableIs DEF Replies, WelcomeMsgs
<1>4. a.pending.type = "hello" /\ e.nonce = a.hellos => Unused(u, rq, rp, e.id)
  BY DEF Good, Network, Opening
<1>5. Fits(a, u, rq, rp, l, x) BY <1>2, <1>3, <1>4 DEF Fits
<1> HIDE DEF x
<1>6. Good(a, u, rq, rp \cup {x}, l) BY <1>5, ReplyKeeps
<1> QED BY <1>6 DEF x

(* The answer to the last command of a client. *)
LEMMA StateFits ==
    ASSUME NEW a, NEW u, NEW rq, NEW rp, NEW l, Good(a, u, rq, rp, l), NEW e \in Table(u),
           NEW m \in rq, m.type = "cmd", m.client = e.id, m.seq = e.last
    PROVE  Good(a, u, rq, rp \cup {[type |-> "state", boot |-> u.boot, client |-> m.client,
                                    seq |-> m.seq, denied |-> e.denied]}, l)
<1> DEFINE x == [type |-> "state", boot |-> u.boot, client |-> m.client, seq |-> m.seq, denied |-> e.denied]
<1>1. u \in Units BY DEF Good, Typed
<1>2. m \in Cmds(a, rq) /\ m.client \in Ids /\ m.seq \in Seqs /\ m.client < u.next /\ e.denied \in BOOLEAN
  BY CommandShape DEF Good, Network, Sessions, Clients
<1>3. x \in Replies BY <1>1, <1>2, TableIs DEF Replies, StateMsgs
<1>4. \A c \in Cmds(a, rq) : m.client = c.client /\ m.seq = c.seq =>
         e.denied = Denied(c.token) /\ (Doing(c) /\ ~e.denied => l.ran[c.token.act] > 0)
  BY DEF Good, Network, Truthful
<1>5. x.type = "state" /\ x.client = m.client /\ x.seq = m.seq /\ x.denied = e.denied OBVIOUS
<1> HIDE DEF x
<1>6. Fits(a, u, rq, rp, l, x) BY <1>2, <1>3, <1>4, <1>5 DEF Fits
<1>7. Good(a, u, rq, rp \cup {x}, l) BY <1>6, ReplyKeeps
<1> QED BY <1>7 DEF x

(* The answer to a command of a session that is not known. *)
LEMMA RehelloFits ==
    ASSUME NEW a, NEW u, NEW rq, NEW rp, NEW l, Good(a, u, rq, rp, l),
           NEW m \in rq, m.type = "cmd", m.boot # u.boot \/ ~Known(u, m.client)
    PROVE  Good(a, u, rq, rp \cup {[type |-> "rehello", client |-> m.client, seq |-> m.seq]}, l)
<1> DEFINE x == [type |-> "rehello", client |-> m.client, seq |-> m.seq]
<1>1. m \in Cmds(a, rq) /\ m.client \in Ids /\ m.seq \in Seqs BY CommandShape DEF Good
<1>2. m.client < u.next /\ ~Known(u, m.client) BY <1>1 DEF Good, Network, Sessions
<1>3. x \in Replies BY <1>1 DEF Replies, RehelloMsgs
<1>4. Fits(a, u, rq, rp, l, x) BY <1>2, <1>3 DEF Fits
<1> HIDE DEF x
<1>5. Good(a, u, rq, rp \cup {x}, l) BY <1>4, ReplyKeeps
<1> QED BY <1>5 DEF x

(* The controller boots. *)
LEMMA BootKeeps ==
    ASSUME NEW a, NEW u, NEW rq, NEW rp, NEW l, Good(a, u, rq, rp, l),
           NEW v \in Units, v.clients = <<>>, v.next = u.next, v.hold = Nothing
    PROVE  Good(a, v, rq, rp, l)
<1>1. Len(v.clients) = 0 BY EmptySeq
<1>2. Table(v) = {} /\ \A id : ~Known(v, id) BY <1>1 DEF Table, Known
<1>3. Typed(a, v, rq, rp, l) BY DEF Good, Typed
<1>4. Sessions(a, v, rq, rp) BY <1>1, <1>2 DEF Good, Network, Sessions
<1>5. Nonces(a, v, rq, rp) BY <1>2 DEF Good, Network, Nonces
<1>6. \A id : Unused(u, rq, rp, id) => Unused(v, rq, rp, id) BY <1>2 DEF Unused
<1>7. Opening(a, v, rq, rp) BY <1>2, <1>6 DEF Good, Network, Opening
<1>8. Numbered(a, v, rq, rp) BY <1>2 DEF Good, Network, Numbered
<1>9. \A c : Spent(v, c) BY <1>2 DEF Spent
<1>10. Once(a, v, rq, l) BY <1>9 DEF Good, Network, Once
<1>11. Truthful(a, v, rq, rp, l) BY <1>2 DEF Good, Network, Truthful
<1>12. Holding(a, v, rq, l)
  <2>1. \A n, d : IsPress(a, v, rq, n, d) => IsPress(a, u, rq, n, d) BY DEF IsPress
  <2>2. \A n \in Acts, x \in Buttons : IsPress(a, v, rq, n, x) =>
          n <= a.acts /\ \A d \in Buttons : IsPress(a, v, rq, n, d) => x = d
    BY <2>1 DEF Good, Holding
  <2> QED BY <1>2, <1>9, <2>2 DEF Holding
<1>13. Bounded(a, v) BY <1>1, Numbers DEF Good, Bounded
<1> QED BY <1>3, <1>4, <1>5, <1>7, <1>8, <1>10, <1>11, <1>12, <1>13 DEF Good, Network

(* A session is admitted, another one may have to go. *)
LEMMA AdmittedKeeps ==
    ASSUME NEW a, NEW u, NEW rq, NEW rp, NEW l, Good(a, u, rq, rp, l),
           NEW v \in Units, v.boot = u.boot, v.next = u.next + 1, v.hold = u.hold,
           Len(v.clients) <= MaxClients,
           NEW e \in Table(v), e.id = u.next, e.last = 0, e.nonce <= a.hellos,
           \A x \in Table(v) : x \in Table(u) \/ x = e,
           \A i, j \in 1..Len(v.clients) : v.clients[i].id = v.clients[j].id => i = j
    PROVE  Good(a, v, rq, rp, l)
<1>1. u \in Units /\ a \in Apps BY DEF Good, Typed
<1>2. u.next \in Nat /\ \A n \in Nat : n < u.next => n < v.next /\ n # u.next BY <1>1, TableIs
<1>3. u.next < v.next BY <1>2
<1>4. a.client \in Nat /\ a.client < u.next BY <1>1, AppFields DEF Good, Network, Sessions
<1>5. /\ \A c \in Cmds(a, rq) : c.client < u.next /\ c.client \in Nat
      /\ \A m \in rp : m.client < u.next /\ m.client \in Nat
      /\ \A x \in Table(u) : x.id < u.next /\ x.id \in Nat
  BY CommandShape, Numbers DEF Good, Network, Sessions
<1>6. \A id \in Nat : id < u.next /\ Known(v, id) => Known(u, id)
  <2> TAKE id \in Nat
  <2> HAVE id < u.next /\ Known(v, id)
  <2>1. PICK x \in Table(v) : x.id = id BY TableIs
  <2>2. x \in Table(u) BY <1>2, <2>1
  <2> QED BY <1>1, <2>1, <2>2, TableIs
<1>7. \A x \in Table(v) : x.id # u.next => x \in Table(u) OBVIOUS
<1>8. Typed(a, v, rq, rp, l) BY DEF Good, Typed
<1>9. Sessions(a, v, rq, rp)
  <2>1. a.client < v.next /\ (Known(v, a.client) => a.boot = v.boot)
    BY <1>2, <1>4, <1>6 DEF Good, Network, Sessions
  <2>2. \A c \in Cmds(a, rq) : c.client < v.next /\ (Known(v, c.client) => c.boot = v.boot)
    BY <1>2, <1>5, <1>6 DEF Good, Network, Sessions
  <2>3. \A m \in rp :
          /\ m.client < v.next
          /\ m.type = "welcome" /\ Known(v, m.client) => m.boot = v.boot
          /\ m.type = "rehello" => ~Known(v, m.client)
    BY <1>2, <1>5, <1>6 DEF Good, Network, Sessions
  <2>4. \A x \in Table(v) : x.id < v.next BY <1>2, <1>3, <1>5
  <2> QED BY <2>1, <2>2, <2>3, <2>4 DEF Sessions
<1>10. Nonces(a, v, rq, rp) BY DEF Good, Network, Nonces
<1>11. \A id : Unused(u, rq, rp, id) => Unused(v, rq, rp, id) BY DEF Unused
<1>12. Unused(v, rq, rp, u.next)
  <2>1. \A c \in rq : c.type = "cmd" => c.client # u.next BY <1>2, <1>5, CommandShape DEF Good
  <2>2. \A m \in rp : m.client # u.next BY <1>2, <1>5
  <2>3. \A x \in Table(v) : x.id = u.next => x = e BY <1>2, <1>5
  <2> QED BY <2>1, <2>2, <2>3 DEF Unused
<1>13. Opening(a, v, rq, rp) BY <1>11, <1>12 DEF Good, Network, Opening
<1>14. Numbered(a, v, rq, rp)
  <2>1. \A x \in Table(v) : x.id = a.client => x.last <= a.seq BY <1>2, <1>4 DEF Good, Network, Numbered
  <2> QED BY <2>1 DEF Good, Network, Numbered
<1>15. \A c \in Cmds(a, rq) : Spent(u, c) => Spent(v, c) BY <1>2, <1>5 DEF Spent
<1>16. Once(a, v, rq, l) BY <1>15 DEF Good, Network, Once
<1>17. Truthful(a, v, rq, rp, l)
  <2>1. \A c \in Cmds(a, rq), x \in Table(v) :
          x.id = c.client /\ x.last = c.seq =>
             x.denied = Denied(c.token) /\ (Doing(c) /\ ~x.denied => l.ran[c.token.act] > 0)
    BY <1>2, <1>5 DEF Good, Network, Truthful
  <2> QED BY <2>1 DEF Good, Network, Truthful
<1>18. Holding(a, v, rq, l)
  <2>1. \A n, d : IsPress(a, v, rq, n, d) <=> IsPress(a, u, rq, n, d) BY DEF IsPress
  <2>2. \A c \in Cmds(a, rq) : ~Known(u, c.client) => ~Known(v, c.client) BY <1>5, <1>6
  <2> QED BY <1>15, <2>1, <2>2 DEF Good, Holding
<1>19. Bounded(a, v) BY DEF Good, Bounded
<1> QED BY <1>8, <1>9, <1>10, <1>13, <1>14, <1>16, <1>17, <1>18, <1>19 DEF Good, Network

(* The clients change places. *)
LEMMA TouchedKeeps ==
    ASSUME NEW a, NEW u, NEW rq, NEW rp, NEW l, Good(a, u, rq, rp, l),
           NEW v \in Units, v.boot = u.boot, v.next = u.next, v.hold = u.hold,
           Len(v.clients) = Len(u.clients), Table(v) = Table(u),
           \A i, j \in 1..Len(v.clients) : v.clients[i].id = v.clients[j].id => i = j
    PROVE  Good(a, v, rq, rp, l)
<1>1. u \in Units BY DEF Good, Typed
<1>2. \A id : Known(v, id) <=> Known(u, id) BY <1>1, TableIs
<1>3. Typed(a, v, rq, rp, l) BY DEF Good, Typed
<1>4. Sessions(a, v, rq, rp) BY <1>2 DEF Good, Network, Sessions
<1>5. Nonces(a, v, rq, rp) BY DEF Good, Network, Nonces
<1>6. \A id : Unused(u, rq, rp, id) => Unused(v, rq, rp, id) BY DEF Unused
<1>7. Opening(a, v, rq, rp) BY <1>6 DEF Good, Network, Opening
<1>8. Numbered(a, v, rq, rp) BY DEF Good, Network, Numbered
<1>9. \A c : Spent(v, c) <=> Spent(u, c) BY DEF Spent
<1>10. Once(a, v, rq, l) BY <1>9 DEF Good, Network, Once
<1>11. Truthful(a, v, rq, rp, l) BY DEF Good, Network, Truthful
<1>12. Holding(a, v, rq, l)
  <2>1. \A n, d : IsPress(a, v, rq, n, d) <=> IsPress(a, u, rq, n, d) BY DEF IsPress
  <2> QED BY <1>2, <1>9, <2>1 DEF Good, Holding
<1>13. Bounded(a, v) BY DEF Good, Bounded
<1> QED BY <1>3, <1>4, <1>5, <1>7, <1>8, <1>10, <1>11, <1>12, <1>13 DEF Good, Network

(* What the log says after the command of token t. *)
After(l, t) ==
    IF t = Status \/ Denied(t) THEN l
    ELSE IF t.name = "R" THEN [l EXCEPT !.stopped = @ \cup {t.act}]
    ELSE [l EXCEPT !.ran[t.act] = @ + 1]

LEMMA AfterIs ==
    ASSUME NEW l \in Logs, NEW t \in PressTokens \cup KeyTokens
    PROVE  LET k == After(l, t)
               runs == t # Status /\ t.name # "R" /\ ~Denied(t)
           IN  /\ k \in Logs /\ k.sent = l.sent /\ k.refused = l.refused /\ k.owed = l.owed
               /\ k.stopped = IF t.name = "R" THEN l.stopped \cup {t.act} ELSE l.stopped
               /\ \A n \in Acts : k.ran[n] = IF runs /\ n = t.act THEN l.ran[n] + 1 ELSE l.ran[n]
               /\ \A n \in Acts : l.ran[n] \in Nat
<1> DEFINE k == After(l, t)
<1>1. l.ran \in [Acts -> Nat] /\ l.stopped \subseteq Acts BY DEF Logs
<1>2. CASE t = Status \/ Denied(t)
  <2>1. t.name # "R" /\ k = l BY <1>2 DEF After, Denied, Status, Token
  <2> QED BY <1>1, <1>2, <2>1
<1>3. CASE t # Status /\ ~Denied(t)
  <2>1. t.act \in Acts BY <1>3 DEF PressTokens, KeyTokens
  <2>2. CASE t.name = "R"
    <3>1. k = [l EXCEPT !.stopped = l.stopped \cup {t.act}] BY <1>3, <2>2 DEF After, Logs
    <3> QED BY <1>1, <2>1, <2>2, <3>1 DEF Logs
  <2>3. CASE t.name # "R"
    <3> DEFINE r == [l.ran EXCEPT ![t.act] = l.ran[t.act] + 1]
    <3>1. k = [l EXCEPT !.ran = r] BY <1>3, <2>3 DEF After, Logs
    <3>2. r \in [Acts -> Nat] BY <1>1, <2>1
    <3>3. \A n \in Acts : r[n] = IF n = t.act THEN l.ran[n] + 1 ELSE l.ran[n] BY <1>1, <2>1
    <3> HIDE DEF r
    <3>4. k \in Logs /\ k.ran = r /\ k.sent = l.sent /\ k.refused = l.refused /\ k.owed = l.owed
          /\ k.stopped = l.stopped
      BY <3>1, <3>2 DEF Logs
    <3> QED BY <1>1, <1>3, <2>3, <3>3, <3>4
  <2> QED BY <2>2, <2>3
<1> QED BY <1>2, <1>3

(* The controller runs a command whose number is new. *)
LEMMA RanKeeps ==
    ASSUME NEW a, NEW u, NEW rq, NEW rp, NEW l, Good(a, u, rq, rp, l),
           NEW m \in rq, m.type = "cmd", NEW c \in Table(u), c.id = m.client, m.seq > c.last,
           NEW v \in Units, v.boot = u.boot, v.next = u.next, v.hold = Held(u.hold, m.token),
           Len(v.clients) = Len(u.clients),
           NEW x \in Table(v), x.id = c.id, x.last = m.seq, x.nonce = c.nonce, x.denied = Denied(m.token),
           \A y \in Table(v) : y = x \/ (y \in Table(u) /\ y.id # c.id),
           \A id : Known(v, id) <=> Known(u, id),
           \A i, j \in 1..Len(v.clients) : v.clients[i].id = v.clients[j].id => i = j
    PROVE  Good(a, v, rq, rp, After(l, m.token))
<1> DEFINE k == After(l, m.token)
           t == m.token
           runs == t # Status /\ t.name # "R" /\ ~Denied(t)
<1>1. u \in Units /\ l \in Logs /\ m \in Cmds(a, rq) BY CommandShape DEF Good, Typed
<1>2. t \in PressTokens \cup KeyTokens /\ m.client \in Ids /\ m.seq \in Seqs /\ m.seq \in Nat
      /\ (t # Status => t.act \in Acts /\ t.act \in Nat)
  BY <1>1, CommandShape, Numbers DEF Good, CommandMsgs
<1>3. /\ k \in Logs /\ k.sent = l.sent /\ k.refused = l.refused /\ k.owed = l.owed
      /\ k.stopped = IF t.name = "R" THEN l.stopped \cup {t.act} ELSE l.stopped
      /\ \A n \in Acts : k.ran[n] = IF runs /\ n = t.act THEN l.ran[n] + 1 ELSE l.ran[n]
      /\ \A n \in Acts : l.ran[n] \in Nat
  BY <1>1, <1>2, AfterIs
<1> HIDE DEF k
<1>4. c.last \in Nat /\ c.last < m.seq /\ ~(m.seq <= c.last)
  BY <1>2, CommandShape, Numbers DEF Good
<1>5. ~Spent(u, m) BY <1>4 DEF Spent
<1>6. \A d \in Cmds(a, rq) : d.seq \in Nat /\ d.client \in Ids /\ (d.token # Status => d.token.act \in Acts)
  BY CommandShape, Numbers DEF Good
<1>7. \A d \in Cmds(a, rq) : Spent(u, d) => Spent(v, d)
  <2> TAKE d \in Cmds(a, rq)
  <2> HAVE Spent(u, d)
  <2>1. d.client = c.id => d.seq <= c.last BY DEF Spent
  <2>2. d.client = c.id => d.seq <= m.seq BY <1>2, <1>4, <1>6, <2>1
  <2> QED BY <2>2 DEF Spent
<1>8. Spent(v, m) BY <1>2 DEF Spent
<1>9. Doing(m) => l.ran[t.act] = 0
  <2> SUFFICES ASSUME Doing(m) PROVE l.ran[t.act] = 0 OBVIOUS
  <2>1. ~(l.ran[t.act] > 0) BY <1>1, <1>5 DEF Good, Network, Once
  <2> QED BY <1>2, <1>3, <2>1 DEF Doing
<1>10. \A n \in Acts : (l.ran[n] > 0 => k.ran[n] > 0) /\ (k.ran[n] > 0 => l.ran[n] > 0 \/ (runs /\ n = t.act))
  BY <1>3
<1>11. runs => k.ran[t.act] = 1 /\ Doing(m) BY <1>2, <1>3, <1>9 DEF Doing
<1>12. \A d \in Cmds(a, rq) : Doing(d) /\ Doing(m) /\ d.token.act = t.act => d = m
  BY <1>1 DEF Good, Network, Once
<1>13. \A d \in Cmds(a, rq) : d.client = m.client /\ d.seq = m.seq => d = m
  BY <1>1 DEF Good, Network, Numbered
<1>14. Typed(a, v, rq, rp, k) BY <1>3 DEF Good, Typed
<1>15. Sessions(a, v, rq, rp)
  <2>1. \A y \in Table(v) : y.id < v.next BY DEF Good, Network, Sessions
  <2> QED BY <2>1 DEF Good, Network, Sessions
<1>16. Nonces(a, v, rq, rp) BY DEF Good, Network, Nonces
<1>17. \A id : Unused(u, rq, rp, id) => Unused(v, rq, rp, id)
  <2> SUFFICES ASSUME NEW id, Unused(u, rq, rp, id) PROVE Unused(v, rq, rp, id) OBVIOUS
  <2>1. m.client # id BY DEF Unused
  <2> QED BY <2>1 DEF Unused
<1>18. Opening(a, v, rq, rp) BY <1>17 DEF Good, Network, Opening
<1>19. Numbered(a, v, rq, rp)
  <2>1. \A y \in Table(v) : y.id = a.client => y.last <= a.seq BY <1>1 DEF Good, Network, Numbered
  <2> QED BY <2>1 DEF Good, Network, Numbered
<1>20. Once(a, v, rq, k)
  <2>1. t # Status => t.act <= a.acts /\ ~Unsent(a, t.act) BY <1>1 DEF Good, Network, Once
  <2>2. \A n \in Acts : k.ran[n] > 0 \/ n \in k.stopped \/ n \in k.refused => n <= a.acts /\ ~Unsent(a, n)
    <3> TAKE n \in Acts
    <3>1. n = t.act /\ (runs \/ t.name = "R") => n <= a.acts /\ ~Unsent(a, n)
      BY <2>1 DEF Status, Token
    <3> QED BY <1>3, <1>10, <3>1 DEF Good, Network, Once
  <2>3. \A n \in Acts : k.ran[n] <= 1
    <3> TAKE n \in Acts
    <3>1. CASE runs /\ n = t.act BY <1>11, <3>1
    <3>2. CASE ~(runs /\ n = t.act) BY <1>3, <3>2 DEF Good, Network, Once
    <3> QED BY <3>1, <3>2
  <2>4. \A d \in Cmds(a, rq) : Doing(d) /\ k.ran[d.token.act] > 0 => Spent(v, d)
    <3> SUFFICES ASSUME NEW d \in Cmds(a, rq), Doing(d), k.ran[d.token.act] > 0 PROVE Spent(v, d) OBVIOUS
    <3>1. d.token.act \in Acts BY <1>6 DEF Doing
    <3>2. CASE l.ran[d.token.act] > 0 BY <1>7, <3>2 DEF Good, Network, Once
    <3>3. CASE runs /\ d.token.act = t.act BY <1>8, <1>11, <1>12, <3>3
    <3> QED BY <1>10, <3>1, <3>2, <3>3
  <2> QED BY <2>2, <2>3, <2>4 DEF Good, Network, Once
<1>21. Truthful(a, v, rq, rp, k)
  <2>1. \A d \in Cmds(a, rq) : Doing(d) /\ Denied(d.token) => k.ran[d.token.act] = 0
    <3> SUFFICES ASSUME NEW d \in Cmds(a, rq), Doing(d), Denied(d.token) PROVE k.ran[d.token.act] = 0 OBVIOUS
    <3>1. d.token.act \in Acts BY <1>6 DEF Doing
    <3>2. ~(runs /\ d.token.act = t.act) BY <1>11, <1>12
    <3> QED BY <1>3, <3>1, <3>2 DEF Good, Network, Truthful
  <2>2. \A d \in Cmds(a, rq) : Doing(d) /\ d.token.act \in k.refused => Denied(d.token)
    BY <1>3 DEF Good, Network, Truthful
  <2>3. \A d \in Cmds(a, rq), y \in rp :
          y.type = "state" /\ y.client = d.client /\ y.seq = d.seq =>
             y.denied = Denied(d.token) /\ (Doing(d) /\ ~y.denied => k.ran[d.token.act] > 0)
    BY <1>6, <1>10 DEF Good, Network, Truthful, Doing
  <2>4. \A d \in Cmds(a, rq), y \in Table(v) :
          y.id = d.client /\ y.last = d.seq =>
             y.denied = Denied(d.token) /\ (Doing(d) /\ ~y.denied => k.ran[d.token.act] > 0)
    <3> SUFFICES ASSUME NEW d \in Cmds(a, rq), NEW y \in Table(v), y.id = d.client, y.last = d.seq
                 PROVE  y.denied = Denied(d.token) /\ (Doing(d) /\ ~y.denied => k.ran[d.token.act] > 0)
      OBVIOUS
    <3>1. CASE y = x
      <4>1. d = m BY <1>13, <3>1
      <4>2. Doing(m) /\ ~x.denied => runs BY DEF Doing
      <4> QED BY <1>11, <3>1, <4>1, <4>2
    <3>2. CASE y \in Table(u)
      <4>1. y.denied = Denied(d.token) /\ (Doing(d) /\ ~y.denied => l.ran[d.token.act] > 0)
        BY <3>2 DEF Good, Network, Truthful
      <4> QED BY <1>6, <1>10, <4>1 DEF Doing
    <3> QED BY <3>1, <3>2
  <2>5. \A n \in k.sent : k.ran[n] > 0
    <3>1. \A n \in l.sent : n \in Acts /\ l.ran[n] > 0 BY <1>1 DEF Good, Network, Truthful, Logs
    <3> QED BY <1>3, <1>10, <3>1
  <2>6. \A n \in k.refused : k.ran[n] = 0
    <3> SUFFICES ASSUME NEW n \in l.refused PROVE k.ran[n] = 0 BY <1>3
    <3>1. n \in Acts /\ l.ran[n] = 0 BY <1>1 DEF Good, Network, Truthful, Logs
    <3>2. ~(runs /\ n = t.act) BY <1>1, <1>11 DEF Good, Network, Truthful
    <3> QED BY <1>3, <3>1, <3>2
  <2> QED BY <2>1, <2>2, <2>3, <2>4, <2>5, <2>6 DEF Truthful
<1>22. t.name \in {"P", "R"} => t \in PressTokens /\ t # Status /\ t.button \in Buttons /\ t.act \in Acts
  BY <1>2, BadgeAssumption DEF PressTokens, KeyTokens, Status, Token
<1>23. /\ t.name = "P" => v.hold.act = t.act /\ v.hold.button = t.button
       /\ t.name # "P" => v.hold = Nothing \/ v.hold = u.hold
       /\ t.name = "R" /\ v.hold # Nothing => v.hold = u.hold /\ v.hold.button # t.button
  BY DEF Held
<1>24. u.hold # Nothing => u.hold.act \in Acts /\ u.hold.button \in Buttons
  BY <1>1 DEF Units, Holds
<1>25. Holding(a, v, rq, k)
  <2>1. \A n, d : IsPress(a, v, rq, n, d) => IsPress(a, u, rq, n, d)
    <3> TAKE n, d
    <3>1. t.name = "P" => IsPress(a, u, rq, t.act, t.button) BY <1>1 DEF IsPress
    <3>2. v.hold # Nothing /\ v.hold.act = n /\ v.hold.button = d => IsPress(a, u, rq, n, d)
      BY <1>23, <3>1 DEF IsPress
    <3> QED BY <3>2 DEF IsPress
  <2>2. \A n \in Acts, y \in Buttons : IsPress(a, v, rq, n, y) =>
          n <= a.acts /\ \A d \in Buttons : IsPress(a, v, rq, n, d) => y = d
    BY <2>1 DEF Good, Holding
  <2>3. \A d \in Cmds(a, rq) : d.token.name = "P" /\ d.token.act \in k.stopped => Spent(v, d)
    <3> SUFFICES ASSUME NEW d \in Cmds(a, rq), d.token.name = "P", d.token.act \in k.stopped
                 PROVE  Spent(v, d)
      OBVIOUS
    <3>1. CASE d.token.act \in l.stopped BY <1>7, <3>1 DEF Good, Holding
    <3>2. CASE t.name = "R" /\ d.token.act = t.act
      <4>1. (d.client = m.client /\ d.seq < m.seq) \/ ~Known(u, d.client) BY <1>1, <3>2 DEF Good, Holding
      <4>2. CASE d.client = m.client /\ d.seq < m.seq
        <5>1. d.seq <= m.seq BY <1>2, <1>6, <4>2
        <5> QED BY <4>2, <5>1 DEF Spent
      <4>3. CASE ~Known(u, d.client)
        <5>1. ~Known(v, d.client) BY <4>3
        <5> QED BY <5>1, TableIs DEF Spent
      <4> QED BY <4>1, <4>2, <4>3
    <3> QED BY <1>3, <3>1, <3>2
  <2>4. \A d \in Cmds(a, rq) : d.token.name = "P" =>
          /\ \A i \in 1..Len(a.gestures) : a.gestures[i].act = d.token.act =>
                d.client = a.client \/ ~Known(v, d.client)
          /\ \A y \in Cmds(a, rq) : y.token.name = "R" /\ y.token.act = d.token.act =>
                (d.client = y.client /\ d.seq < y.seq) \/ ~Known(v, d.client)
    BY DEF Good, Holding
  <2>5. v.hold # Nothing => v.hold.act \notin k.stopped /\ ~Unsent(a, v.hold.act)
    <3>1. CASE t.name = "P"
      <4>1. t.act \notin l.stopped BY <1>1, <1>5, <3>1 DEF Good, Holding
      <4>2. ~Unsent(a, t.act) BY <1>1, <1>22, <3>1 DEF Good, Network, Once
      <4> QED BY <1>3, <1>23, <3>1, <4>1, <4>2
    <3>2. CASE t.name = "R"
      <4> SUFFICES ASSUME v.hold # Nothing
                   PROVE  v.hold.act \notin k.stopped /\ ~Unsent(a, v.hold.act)
        OBVIOUS
      <4>1. v.hold = u.hold /\ u.hold.button # t.button BY <1>23, <3>2
      <4>2. IsPress(a, u, rq, u.hold.act, u.hold.button) BY <4>1 DEF IsPress
      <4>3. IsPress(a, u, rq, t.act, t.button) BY <1>1, <3>2 DEF IsPress
      <4>4. u.hold.act # t.act BY <1>22, <1>24, <3>2, <4>1, <4>2, <4>3 DEF Good, Holding
      <4> QED BY <1>3, <4>1, <4>4 DEF Good, Holding
    <3>3. CASE t.name \notin {"P", "R"} BY <1>3, <1>23, <3>3 DEF Good, Holding
    <3> QED BY <3>1, <3>2, <3>3
  <2> QED BY <2>2, <2>3, <2>4, <2>5 DEF Holding
<1>26. Owed(a, k) BY <1>3 DEF Good, Owed
<1>27. Bounded(a, v) BY DEF Good, Bounded
<1> QED BY <1>14, <1>15, <1>16, <1>18, <1>19, <1>20, <1>21, <1>25, <1>26, <1>27 DEF Good, Network, k

-------------------------------------------------------------------------------
Distinct(s) == \A i \in 1..Len(s), j \in 1..Len(s) : s[i].id = s[j].id => i = j

(* The client that was heard becomes the last of the table. *)
LEMMA TouchShape ==
    ASSUME NEW s \in Seq(Clients), NEW at \in 1..Len(s), NEW x \in Clients, x.id = s[at].id, Distinct(s)
    PROVE  LET t == Append(RemoveAt(s, at), x)
           IN  /\ t \in Seq(Clients) /\ Len(t) = Len(s) /\ Distinct(t)
               /\ \E i \in 1..Len(t) : t[i] = x
               /\ \A i \in 1..Len(t) : t[i] = x \/ \E j \in 1..Len(s) : j # at /\ t[i] = s[j]
               /\ \A j \in 1..Len(s) : j # at => \E i \in 1..Len(t) : t[i] = s[j]
<1> DEFINE r == RemoveAt(s, at)
           t == Append(r, x)
           n == Len(r)
<1>1. /\ r \in Seq(Clients) /\ Len(r) = Len(s) - 1
      /\ \A j \in 1..Len(r) : r[j] = s[IF j < at THEN j ELSE j + 1]
  BY RemoveAtKeeps
<1> HIDE DEF r
<1>2. /\ t \in Seq(Clients) /\ Len(r) \in Nat /\ Len(t) = Len(r) + 1 /\ t[Len(t)] = x
      /\ \A i \in 1..Len(r) : i \in 1..Len(t) /\ t[i] = r[i] /\ i # Len(t)
      /\ \A i \in 1..Len(t) : i \in 1..Len(r) \/ i = Len(t)
  BY <1>1, AppendShape
<1> HIDE DEF t
<1>3. n \in Nat /\ Len(s) \in Nat BY <1>2, LenProperties
<1>4. Len(s) = n + 1 /\ at \in 1..n + 1 BY <1>1, <1>3
<1> HIDE DEF n
<1>5. \A i \in 1..n : (i < at /\ i \in 1..Len(s) /\ i # at) \/ (~(i < at) /\ i + 1 \in 1..Len(s) /\ i + 1 # at)
  BY <1>3, <1>4
<1>6. \A i \in 1..n : i \in Int /\ t[i] = s[IF i < at THEN i ELSE i + 1] BY <1>1, <1>2, <1>3 DEF n
<1>7. \A i \in 1..Len(t) : t[i] = x \/ \E j \in 1..Len(s) : j # at /\ t[i] = s[j]
  <2> TAKE i \in 1..Len(t)
  <2>1. CASE i \in 1..n BY <1>5, <1>6, <2>1
  <2>2. CASE i = Len(t) BY <1>2, <2>2
  <2> QED BY <1>2, <2>1, <2>2 DEF n
<1>8. \A j \in 1..Len(s) : j # at => \E i \in 1..Len(t) : t[i] = s[j]
  <2> TAKE j \in 1..Len(s)
  <2> HAVE j # at
  <2>1. CASE j < at
    <3>1. j \in 1..n BY <1>3, <1>4, <2>1
    <3> QED BY <1>2, <1>6, <2>1, <3>1 DEF n
  <2>2. CASE ~(j < at)
    <3>1. j - 1 \in 1..n /\ ~(j - 1 < at) /\ (j - 1) + 1 = j BY <1>3, <1>4, <2>2
    <3>2. t[j - 1] = s[j] BY <1>6, <3>1
    <3> QED BY <1>2, <3>1, <3>2 DEF n
  <2> QED BY <2>1, <2>2
<1>9. Distinct(t)
  <2> SUFFICES ASSUME NEW i \in 1..Len(t), NEW j \in 1..Len(t), t[i].id = t[j].id PROVE i = j BY DEF Distinct
  <2> DEFINE at2(p) == IF p < at THEN p ELSE p + 1
  <2>1. \A p \in 1..n : at2(p) \in 1..Len(s) /\ at2(p) # at /\ t[p] = s[at2(p)] BY <1>5, <1>6
  <2>2. CASE i \in 1..n /\ j \in 1..n
    <3>1. at2(i) = at2(j) BY <2>1, <2>2 DEF Distinct
    <3> QED BY <1>3, <1>4, <2>2, <3>1
  <2>3. CASE i \in 1..n /\ j \notin 1..n
    <3>1. j = Len(t) BY <1>2, <2>3 DEF n
    <3>2. s[at2(i)].id = s[at].id BY <1>2, <2>1, <2>3, <3>1
    <3> QED BY <2>1, <2>3, <3>2 DEF Distinct
  <2>4. CASE i \notin 1..n /\ j \in 1..n
    <3>1. i = Len(t) BY <1>2, <2>4 DEF n
    <3>2. s[at2(j)].id = s[at].id BY <1>2, <2>1, <2>4, <3>1
    <3> QED BY <2>1, <2>4, <3>2 DEF Distinct
  <2>5. CASE i \notin 1..n /\ j \notin 1..n BY <1>2, <2>5 DEF n
  <2> QED BY <2>2, <2>3, <2>4, <2>5
<1>10. Len(t) \in 1..Len(t) BY <1>2
<1> QED BY <1>2, <1>4, <1>7, <1>8, <1>9, <1>10 DEF n, r, t

(* A new client is the last of the table, the first may have gone. *)
LEMMA AdmitShape ==
    ASSUME NEW s \in Seq(Clients), NEW n \in Nat, Distinct(s), Len(s) <= MaxClients,
           \A i \in 1..Len(s) : s[i].id < n,
           NEW e \in Clients, e.id = n
    PROVE  LET t == Append(IF Len(s) >= MaxClients THEN Tail(s) ELSE s, e)
           IN  /\ t \in Seq(Clients) /\ Len(t) <= MaxClients /\ Distinct(t)
               /\ \E i \in 1..Len(t) : t[i] = e
               /\ \A i \in 1..Len(t) : t[i] = e \/ \E j \in 1..Len(s) : t[i] = s[j]
<1> DEFINE kept == IF Len(s) >= MaxClients THEN Tail(s) ELSE s
<1>1. Len(s) \in Nat /\ MaxClients \in Nat /\ MaxClients > 0 BY LenProperties, Numbers
<1>2. /\ kept \in Seq(Clients) /\ Len(kept) \in Nat /\ Len(kept) < MaxClients /\ Distinct(kept)
      /\ \A i \in 1..Len(kept) : \E j \in 1..Len(s) : kept[i] = s[j]
  <2>1. CASE Len(s) >= MaxClients
    <3>1. s # <<>> BY <1>1, <2>1, EmptySeq
    <3> DEFINE r == Tail(s)
    <3>2. /\ r \in Seq(Clients) /\ Len(r) \in Nat /\ Len(s) = Len(r) + 1
          /\ \A i \in 1..Len(r) : i \in Int /\ i + 1 \in 1..Len(s) /\ i + 1 # 1 /\ r[i] = s[i + 1]
      BY <3>1, TailShape
    <3> HIDE DEF r
    <3>3. kept = r BY <2>1 DEF r
    <3>4. Distinct(r)
      <4> SUFFICES ASSUME NEW i \in 1..Len(r), NEW j \in 1..Len(r), r[i].id = r[j].id PROVE i = j BY DEF Distinct
      <4>1. /\ i + 1 \in 1..Len(s) /\ r[i] = s[i + 1] /\ i \in Int
            /\ j + 1 \in 1..Len(s) /\ r[j] = s[j + 1] /\ j \in Int
        BY <3>2
      <4>2. i + 1 = j + 1 BY <4>1 DEF Distinct
      <4> QED BY <4>1, <4>2
    <3>5. Len(r) < MaxClients BY <1>1, <3>2
    <3>6. \A i \in 1..Len(r) : \E j \in 1..Len(s) : r[i] = s[j] BY <3>2
    <3> QED BY <3>2, <3>3, <3>4, <3>5, <3>6
  <2>2. CASE ~(Len(s) >= MaxClients)
    <3>1. kept = s /\ Len(s) < MaxClients BY <1>1, <2>2
    <3> QED BY <1>1, <3>1
  <2> QED BY <2>1, <2>2
<1> HIDE DEF kept
<1> DEFINE t == Append(kept, e)
<1>3. /\ t \in Seq(Clients) /\ Len(t) = Len(kept) + 1 /\ t[Len(t)] = e
      /\ \A i \in 1..Len(kept) : i \in 1..Len(t) /\ t[i] = kept[i] /\ i # Len(t)
      /\ \A i \in 1..Len(t) : i \in 1..Len(kept) \/ i = Len(t)
  BY <1>2, AppendShape
<1> HIDE DEF t
<1>4. \A i \in 1..Len(kept) : t[i].id # n
  <2> TAKE i \in 1..Len(kept)
  <2>1. PICK j \in 1..Len(s) : kept[i] = s[j] BY <1>2
  <2>2. s[j] \in Clients BY ElementOfSeq
  <2>3. s[j].id \in Nat BY <2>2, Numbers DEF Clients
  <2> QED BY <1>3, <2>1, <2>3
<1>5. Distinct(t)
  <2> SUFFICES ASSUME NEW i \in 1..Len(t), NEW j \in 1..Len(t), t[i].id = t[j].id PROVE i = j BY DEF Distinct
  <2>1. CASE i \in 1..Len(kept) /\ j \in 1..Len(kept) BY <1>2, <1>3, <2>1 DEF Distinct
  <2>2. CASE i \in 1..Len(kept) /\ j \notin 1..Len(kept) BY <1>3, <1>4, <2>2
  <2>3. CASE i \notin 1..Len(kept) /\ j \in 1..Len(kept) BY <1>3, <1>4, <2>3
  <2>4. CASE i \notin 1..Len(kept) /\ j \notin 1..Len(kept) BY <1>3, <2>4
  <2> QED BY <2>1, <2>2, <2>3, <2>4
<1>6. Len(t) <= MaxClients /\ Len(t) \in 1..Len(t) BY <1>1, <1>2, <1>3
<1>7. \A i \in 1..Len(t) : t[i] = e \/ \E j \in 1..Len(s) : t[i] = s[j] BY <1>2, <1>3
<1> QED BY <1>3, <1>5, <1>6, <1>7 DEF t, kept

LEMMA ClientAtIs ==
    ASSUME unit \in Units, NEW id
    PROVE  LET at == ClientAt(id)
           IN  \/ at = 0 /\ ~Known(unit, id)
               \/ at \in 1..Len(unit.clients) /\ at > 0 /\ unit.clients[at].id = id /\ Known(unit, id)
<1> DEFINE I == {i \in 1..Len(unit.clients) : unit.clients[i].id = id}
<1>1. Len(unit.clients) \in Nat BY TableIs
<1>2. ClientAt(id) = IF I # {} THEN Min(I) ELSE 0 BY DEF ClientAt, SelectInSeq
<1>3. I \subseteq Nat BY <1>1
<1>4. CASE I = {} BY <1>2, <1>4 DEF Known
<1>5. CASE I # {}
  <2>1. Min(I) \in I
    <3> HIDE DEF I
    <3> QED BY <1>3, <1>5, LeastIsMin
  <2>2. Min(I) > 0 BY <1>1, <2>1
  <2> QED BY <1>2, <1>5, <2>1, <2>2 DEF Known
<1> QED BY <1>4, <1>5

LEMMA NonceAtIs ==
    ASSUME unit \in Units, NEW nonce
    PROVE  LET at == SelectInSeq(unit.clients, LAMBDA c : c.nonce = nonce)
           IN  at = 0 \/ (at \in 1..Len(unit.clients) /\ unit.clients[at].nonce = nonce)
<1> DEFINE I == {i \in 1..Len(unit.clients) : unit.clients[i].nonce = nonce}
<1>1. Len(unit.clients) \in Nat BY TableIs
<1>2. SelectInSeq(unit.clients, LAMBDA c : c.nonce = nonce) = IF I # {} THEN Min(I) ELSE 0
  BY DEF SelectInSeq
<1>3. I \subseteq Nat BY <1>1
<1>4. I # {} => Min(I) \in I
  <2> HIDE DEF I
  <2> QED BY <1>3, LeastIsMin
<1> QED BY <1>2, <1>4

(* The controller sends x, and the network may lose another datagram for it. *)
LEMMA RepliedKeeps ==
    ASSUME IInv, NEW x, NEW v, NEW k,
           Good(app, v, ToSet(requests), ToSet(replies) \cup {x}, k),
           unit' = v, replies' = Put(replies, x), log' = k, app' = app, requests' = requests
    PROVE  IInv'
<1>1. x \in Replies BY DEF Good, Typed, Replies
<1>2. replies' \in Seq(Replies) /\ ToSet(replies') \subseteq ToSet(replies) \cup {x}
  BY <1>1, PutKeeps DEF IInv
<1>3. Good(app, v, ToSet(requests), ToSet(replies'), k) BY <1>2, LossKeeps
<1> QED BY <1>2, <1>3 DEF IInv

LEMMA UnitKeeps ==
    ASSUME IInv, NEW v, NEW k, Good(app, v, ToSet(requests), ToSet(replies), k),
           unit' = v, log' = k, app' = app, requests' = requests, replies' = replies
    PROVE  IInv'
BY DEF IInv

LEMMA UnitRestartKeeps == ASSUME IInv, UnitRestart PROVE IInv'
<1> DEFINE v == [boot |-> unit.boot + 1, clients |-> <<>>, hellos |-> {}, others |-> 0,
                 next |-> unit.next, hold |-> Nothing]
<1>1. unit \in Units BY DEF IInv, Good, Typed
<1>2. v \in Units /\ v.clients = <<>> /\ v.next = unit.next /\ v.hold = Nothing
  BY <1>1, TableIs, EmptySeq DEF Units
<1>3. unit' = v /\ UNCHANGED <<app, requests, replies, log>> BY DEF UnitRestart
<1> HIDE DEF v
<1>4. Good(app, v, ToSet(requests), ToSet(replies), log) BY <1>2, BootKeeps DEF IInv
<1> QED BY <1>3, <1>4, UnitKeeps

(* A client takes the next id; what else the controller records is hellos and others. *)
LEMMA AdmissionKeeps ==
    ASSUME IInv, NEW nonce \in Nat, nonce <= app.hellos, NEW hellos \in SUBSET Ids, NEW others \in Nat
    PROVE  LET v == [Admitted(unit, nonce) EXCEPT !.hellos = hellos, !.others = others]
               e == [id |-> unit.next, last |-> 0, nonce |-> nonce, denied |-> FALSE]
           IN  /\ Good(app, v, ToSet(requests), ToSet(replies), log)
               /\ e \in Table(v) /\ v.boot = unit.boot
<1> DEFINE s == unit.clients
           kept == IF Len(s) >= MaxClients THEN Tail(s) ELSE s
           e == [id |-> unit.next, last |-> 0, nonce |-> nonce, denied |-> FALSE]
           t == Append(kept, e)
           v == [unit EXCEPT !.clients = t, !.next = unit.next + 1, !.hellos = hellos, !.others = others]
<1>1. unit \in Units /\ Good(app, unit, ToSet(requests), ToSet(replies), log) BY DEF IInv, Good, Typed
<1>2. s \in Seq(Clients) /\ Len(s) \in Nat /\ unit.next \in Nat /\ unit.next \in Ids /\ unit.next + 1 \in Ids
  BY <1>1, TableIs DEF Ids
<1>3. e \in Clients /\ e.id = unit.next /\ e.last = 0 /\ e.nonce = nonce BY <1>2, Numbers DEF Clients
<1>4. \A x : x \in Table(unit) <=> \E i \in 1..Len(s) : x = s[i] BY <1>1, TableIs
<1>5. Distinct(s) /\ Len(s) <= MaxClients /\ \A i \in 1..Len(s) : s[i].id < unit.next
  BY <1>1, <1>4 DEF Distinct, Good, Network, Sessions, Bounded
<1>6. Admitted(unit, nonce) = [unit EXCEPT !.clients = t, !.next = unit.next + 1]
  BY <1>1 DEF Admitted, Full, Units
<1>7. [Admitted(unit, nonce) EXCEPT !.hellos = hellos, !.others = others] = v
  BY <1>1, <1>6 DEF Units
<1> HIDE DEF s, e
<1>8. /\ t \in Seq(Clients) /\ Len(t) <= MaxClients /\ Distinct(t)
      /\ \E i \in 1..Len(t) : t[i] = e
      /\ \A i \in 1..Len(t) : t[i] = e \/ \E j \in 1..Len(s) : t[i] = s[j]
  BY <1>2, <1>3, <1>5, AdmitShape
<1> HIDE DEF t
<1>9. /\ v \in Units /\ v.clients = t /\ v.boot = unit.boot /\ v.next = unit.next + 1 /\ v.hold = unit.hold
  BY <1>1, <1>2, <1>8 DEF Units
<1> HIDE DEF v
<1>10. \A x : x \in Table(v) <=> \E i \in 1..Len(t) : x = t[i] BY <1>9, TableIs
<1>11. e \in Table(v) /\ \A x \in Table(v) : x \in Table(unit) \/ x = e BY <1>4, <1>8, <1>10
<1>12. \A i, j \in 1..Len(v.clients) : v.clients[i].id = v.clients[j].id => i = j
  BY <1>8, <1>9 DEF Distinct
<1>13. Good(app, v, ToSet(requests), ToSet(replies), log)
  BY <1>1, <1>3, <1>8, <1>9, <1>11, <1>12, AdmittedKeeps
<1> QED BY <1>7, <1>9, <1>11, <1>13 DEF e

LEMMA OtherHelloKeeps == ASSUME IInv, OtherHello PROVE IInv'
<1> DEFINE v == [Admitted(unit, 0) EXCEPT !.hellos = unit.hellos, !.others = unit.others + 1]
<1>1. unit \in Units /\ app \in Apps BY DEF IInv, Good, Typed
<1>2. unit.hellos \in SUBSET Ids /\ unit.others + 1 \in Nat /\ 0 <= app.hellos /\ 0 \in Nat
  BY <1>1, AppFields DEF Units
<1>3. Good(app, v, ToSet(requests), ToSet(replies), log) BY <1>2, AdmissionKeeps
<1>4. unit' = v /\ UNCHANGED <<app, requests, replies, log>> BY <1>1 DEF OtherHello, Admitted, Units
<1> HIDE DEF v
<1> QED BY <1>3, <1>4, UnitKeeps

LEMMA HandleHelloKeeps == ASSUME IInv, NEW m \in ToSet(requests), HandleHello(m) PROVE IInv'
<1> DEFINE at == SelectInSeq(unit.clients, LAMBDA c : c.nonce = m.nonce)
<1>1. unit \in Units /\ app \in Apps /\ m.type = "hello" /\ UNCHANGED <<app, requests, log>>
  BY DEF IInv, Good, Typed, HandleHello
<1>2. m.nonce \in Ids /\ m.nonce \in Nat /\ m.nonce <= app.hellos
  BY <1>1, Numbers DEF IInv, Good, Typed, HelloMsgs, CommandMsgs, Network, Nonces
<1>3. CASE at > 0 /\ replies' = Put(replies, Welcome(unit.clients[at].id, m.nonce)) /\ unit' = unit
  <2> DEFINE e == unit.clients[at]
             x == [type |-> "welcome", nonce |-> e.nonce, boot |-> unit.boot, client |-> e.id]
  <2>1. e \in Table(unit) /\ e.nonce = m.nonce
    <3>1. at = 0 \/ (at \in 1..Len(unit.clients) /\ unit.clients[at].nonce = m.nonce) BY <1>1, NonceAtIs
    <3> HIDE DEF at
    <3>2. at \in 1..Len(unit.clients) /\ unit.clients[at].nonce = m.nonce BY <1>3, <3>1
    <3> QED BY <1>1, <3>2, TableIs
  <2> HIDE DEF e
  <2>2. Good(app, unit, ToSet(requests), ToSet(replies) \cup {x}, log) BY <1>2, <2>1, WelcomeFits DEF IInv
  <2>3. replies' = Put(replies, x) BY <1>3, <2>1 DEF Welcome, e
  <2> HIDE DEF x
  <2> QED BY <1>1, <1>3, <2>2, <2>3, RepliedKeeps
<1>4. CASE /\ replies' = Put(replies, Welcome(unit.next, m.nonce))
           /\ unit' = [Admitted(unit, m.nonce) EXCEPT !.hellos = @ \cup {m.nonce}]
  <2> DEFINE v == [Admitted(unit, m.nonce) EXCEPT !.hellos = unit.hellos \cup {m.nonce},
                                                  !.others = unit.others]
             e == [id |-> unit.next, last |-> 0, nonce |-> m.nonce, denied |-> FALSE]
             x == [type |-> "welcome", nonce |-> e.nonce, boot |-> v.boot, client |-> e.id]
  <2>1. unit.hellos \cup {m.nonce} \in SUBSET Ids /\ unit.others \in Nat BY <1>1, <1>2 DEF Units
  <2>2. Good(app, v, ToSet(requests), ToSet(replies), log) /\ e \in Table(v) /\ v.boot = unit.boot
    BY <1>2, <2>1, AdmissionKeeps
  <2>3. unit' = v BY <1>1, <1>4 DEF Admitted, Units
  <2>4. replies' = Put(replies, x) BY <1>4, <2>2 DEF Welcome
  <2> HIDE DEF v
  <2>5. Good(app, v, ToSet(requests), ToSet(replies) \cup {x}, log) BY <1>2, <2>2, WelcomeFits
  <2> HIDE DEF x, e
  <2> QED BY <1>1, <2>3, <2>4, <2>5, RepliedKeeps
<1> QED BY <1>3, <1>4 DEF HandleHello

LEMMA HandleStrayKeeps == ASSUME IInv, NEW m \in ToSet(requests), HandleStray(m) PROVE IInv'
<1> DEFINE x == [type |-> "rehello", client |-> m.client, seq |-> m.seq]
<1>1. unit \in Units BY DEF IInv, Good, Typed
<1>2. m.type = "cmd" /\ replies' = Put(replies, x) /\ UNCHANGED <<app, unit, requests, log>>
  BY DEF HandleStray
<1>3. m.boot # unit.boot \/ ~Known(unit, m.client) BY <1>1, ClientAtIs DEF HandleStray, Strange
<1>4. Good(app, unit, ToSet(requests), ToSet(replies) \cup {x}, log) BY <1>2, <1>3, RehelloFits DEF IInv
<1> HIDE DEF x
<1> QED BY <1>2, <1>4, RepliedKeeps

LEMMA HandleCommandKeeps == ASSUME IInv, NEW m \in ToSet(requests), HandleCommand(m) PROVE IInv'
<1> DEFINE rq == ToSet(requests)
           rp == ToSet(replies)
           at == ClientAt(m.client)
           s == unit.clients
           c == s[at]
           new == Newer(c, m.seq)
           touched == IF new THEN [c EXCEPT !.last = m.seq, !.denied = Denied(m.token)] ELSE c
           t == Append(RemoveAt(s, at), touched)
           hold == IF new THEN Held(unit.hold, m.token) ELSE unit.hold
           v == [unit EXCEPT !.clients = t, !.hold = hold]
<1>1. unit \in Units /\ Good(app, unit, rq, rp, log) BY DEF IInv, Good, Typed
<1>2. /\ m.type = "cmd" /\ m.boot = unit.boot /\ at > 0 /\ UNCHANGED <<app, requests>>
      /\ unit' = v
      /\ replies' = IF new THEN Put(replies, State(m, Denied(m.token)))
                    ELSE IF m.seq = c.last THEN Put(replies, State(m, RepeatDenied(c)))
                    ELSE replies
      /\ log' = IF new THEN Ran(m.token) ELSE log
  BY <1>1 DEF HandleCommand, Units
<1>3. at \in 1..Len(s) /\ c.id = m.client BY <1>1, <1>2, ClientAtIs
<1> HIDE DEF at
<1>4. s \in Seq(Clients) /\ c \in Clients /\ c \in Table(unit) /\ unit.boot \in Nat
      /\ unit.hold \in {Nothing} \cup Holds
  BY <1>1, <1>3, TableIs
<1>5. \A x : x \in Table(unit) <=> \E i \in 1..Len(s) : x = s[i] BY <1>1, TableIs
<1>6. Distinct(s) /\ m \in Cmds(app, rq)
  BY <1>1, <1>2, CommandShape DEF Distinct, Good, Network, Sessions
<1>7. m.seq \in Lasts /\ m.seq \in Nat /\ c.last \in Nat /\ m.token \in PressTokens \cup KeyTokens
      /\ Denied(m.token) \in BOOLEAN
  <2>1. m \in CommandMsgs /\ c.last \in Lasts BY <1>1, <1>4, <1>6, CommandShape DEF Good
  <2>2. m.seq \in Seqs /\ m.token \in PressTokens \cup KeyTokens BY <2>1 DEF CommandMsgs
  <2> QED BY <2>1, <2>2, Numbers DEF Denied
<1> HIDE DEF s
<1>8. touched \in Clients /\ touched.id = c.id /\ touched.nonce = c.nonce
      /\ (new => touched.last = m.seq /\ touched.denied = Denied(m.token))
  BY <1>4, <1>7 DEF Clients
<1>9. ~new => touched = c OBVIOUS
<1>10. (new <=> m.seq > c.last) BY DEF Newer
<1> HIDE DEF touched, new
<1>11. /\ t \in Seq(Clients) /\ Len(t) = Len(s) /\ Distinct(t)
       /\ \E i \in 1..Len(t) : t[i] = touched
       /\ \A i \in 1..Len(t) : t[i] = touched \/ \E j \in 1..Len(s) : j # at /\ t[i] = s[j]
       /\ \A j \in 1..Len(s) : j # at => \E i \in 1..Len(t) : t[i] = s[j]
  <2> HIDE DEF c
  <2>1. s \in Seq(Clients) /\ at \in 1..Len(s) /\ touched \in Clients /\ touched.id = s[at].id /\ Distinct(s)
    BY <1>3, <1>4, <1>6, <1>8 DEF c
  <2> QED BY <2>1, TouchShape
<1> HIDE DEF t
<1>12. hold \in {Nothing} \cup Holds
  <2>1. m.token.name = "P" => m.token \in PressTokens
    BY <1>7, BadgeAssumption DEF PressTokens, KeyTokens, Status, Token
  <2> QED BY <1>4, <2>1 DEF Held, Holds, PressTokens
<1> HIDE DEF hold
<1>13. /\ v \in Units /\ v.clients = t /\ v.boot = unit.boot /\ v.next = unit.next /\ v.hold = hold
  BY <1>1, <1>11, <1>12 DEF Units
<1> HIDE DEF v
<1>14. \A x : x \in Table(v) <=> \E i \in 1..Len(t) : x = t[i] BY <1>13, TableIs
<1>15. touched \in Table(v) /\ Len(v.clients) = Len(unit.clients)
       /\ \A i, j \in 1..Len(v.clients) : v.clients[i].id = v.clients[j].id => i = j
  BY <1>11, <1>13, <1>14 DEF Distinct, s
<1>16. \A y \in Table(v) : y = touched \/ (y \in Table(unit) /\ y.id # c.id)
  BY <1>3, <1>5, <1>6, <1>11, <1>14 DEF Distinct
<1>17. \A y \in Table(unit) : y = c \/ y \in Table(v)
  BY <1>5, <1>11, <1>14
<1>18. \A id : Known(v, id) <=> Known(unit, id)
  <2> TAKE id
  <2>1. Known(v, id) <=> \E y \in Table(v) : y.id = id BY <1>13, TableIs
  <2>2. Known(unit, id) <=> \E y \in Table(unit) : y.id = id BY <1>1, TableIs
  <2> QED BY <1>4, <1>8, <1>15, <1>16, <1>17, <2>1, <2>2
<1>19. CASE new
  <2> DEFINE k == After(log, m.token)
             x == [type |-> "state", boot |-> v.boot, client |-> m.client, seq |-> m.seq,
                   denied |-> touched.denied]
  <2>1. touched.id = c.id /\ touched.last = m.seq /\ touched.nonce = c.nonce
        /\ touched.denied = Denied(m.token) /\ m.seq > c.last /\ v.hold = Held(unit.hold, m.token)
    BY <1>8, <1>10, <1>13, <1>19 DEF hold
  <2>2. Good(app, v, rq, rp, k)
    <3> HIDE DEF c
    <3> QED BY <1>1, <1>2, <1>3, <1>4, <1>13, <1>15, <1>16, <1>18, <2>1, RanKeeps DEF c
  <2>3. log' = k BY <1>2, <1>19 DEF Ran, After
  <2>4. replies' = Put(replies, x) BY <1>2, <1>13, <1>19, <2>1 DEF State
  <2> HIDE DEF k, c
  <2>5. Good(app, v, rq, rp \cup {x}, k) BY <1>2, <1>3, <1>15, <2>1, <2>2, StateFits DEF c
  <2> HIDE DEF x
  <2> QED BY <1>2, <2>3, <2>4, <2>5, RepliedKeeps
<1>20. CASE ~new
  <2>1. touched = c /\ v.hold = unit.hold BY <1>9, <1>13, <1>20 DEF hold
  <2>2. Table(v) = Table(unit)
    <3> HIDE DEF c
    <3>1. \A y \in Table(v) : y \in Table(unit) BY <1>4, <1>16, <2>1
    <3>2. \A y \in Table(unit) : y \in Table(v) BY <1>15, <1>17, <2>1
    <3> QED BY <3>1, <3>2
  <2>3. Good(app, v, rq, rp, log) BY <1>1, <1>13, <1>15, <2>1, <2>2, TouchedKeeps
  <2>4. log' = log BY <1>2, <1>20
  <2>5. CASE m.seq = c.last
    <3> DEFINE x == [type |-> "state", boot |-> v.boot, client |-> m.client, seq |-> m.seq,
                     denied |-> c.denied]
    <3>1. replies' = Put(replies, x) BY <1>2, <1>13, <1>20, <2>5 DEF State, RepeatDenied
    <3>2. c \in Table(v) /\ m.client = c.id /\ m.seq = c.last BY <1>3, <1>15, <2>1, <2>5
    <3> HIDE DEF c
    <3>3. Good(app, v, rq, rp \cup {x}, log) BY <1>2, <2>3, <3>2, StateFits
    <3> HIDE DEF x
    <3> QED BY <1>2, <2>4, <3>1, <3>3, RepliedKeeps
  <2>6. CASE m.seq # c.last
    <3>1. replies' = replies BY <1>2, <1>20, <2>6
    <3> QED BY <1>2, <2>3, <2>4, <3>1, UnitKeeps
  <2> QED BY <2>5, <2>6
<1> QED BY <1>19, <1>20

LEMMA InitIsGood == ASSUME Init PROVE IInv
<1>1. requests = <<>> /\ replies = <<>> /\ app = InitApp(0, 0)
      /\ unit = [boot |-> 1, clients |-> <<>>, hellos |-> {}, others |-> 0, next |-> 1, hold |-> Nothing]
      /\ log = [ran |-> [n \in Acts |-> 0], stopped |-> {}, sent |-> {}, refused |-> {}, owed |-> {}]
  BY DEF Init
<1>2. ToSet(requests) = {} /\ ToSet(replies) = {} /\ requests \in Seq(Requests) /\ replies \in Seq(Replies)
  <2>1. DOMAIN requests = {} /\ DOMAIN replies = {} BY <1>1
  <2> QED BY <1>1, <2>1, EmptySeq DEF ToSet
<1>3. /\ app \in Apps /\ app.client = 0 /\ app.seq = 0 /\ app.acts = 0 /\ app.pending = Nothing
      /\ app.queue = <<>> /\ app.gestures = <<>> /\ app.held = None /\ app.stalled = FALSE
      /\ app.rehellos = 0 /\ app.hellos = 0
  BY <1>1, Numbers, EmptySeq DEF InitApp, Apps
<1>4. unit \in Units /\ unit.clients = <<>> /\ unit.next = 1 /\ unit.hold = Nothing
  BY <1>1, EmptySeq DEF Units, Ids
<1>5. log \in Logs /\ log.stopped = {} /\ log.sent = {} /\ log.refused = {} /\ log.owed = {}
      /\ \A n \in Acts : log.ran[n] = 0
  BY <1>1 DEF Logs
<1>6. Len(app.queue) = 0 /\ Len(app.gestures) = 0 /\ Len(unit.clients) = 0 BY <1>3, <1>4, EmptySeq
<1>7. Cmds(app, {}) = {} BY <1>3 DEF Cmds, Nothing, None
<1>8. Table(unit) = {} /\ \A id : ~Known(unit, id) BY <1>6 DEF Table, Known
<1>9. ~Releasing(app) /\ ~Repeated(app) /\ Keys(app) = {} /\ Queued(app) = 0
  BY <1>3, <1>6 DEF Releasing, Repeated, Keys, Queued, Nothing, None
<1>10. Typed(app, unit, {}, {}, log) BY <1>3, <1>4, <1>5, Numbers DEF Typed
<1>11. Sessions(app, unit, {}, {}) BY <1>3, <1>4, <1>6, <1>7, <1>8 DEF Sessions
<1>12. Nonces(app, unit, {}, {}) BY <1>8 DEF Nonces
<1>13. Opening(app, unit, {}, {}) BY <1>3 DEF Opening, Nothing, None
<1>14. Numbered(app, unit, {}, {}) BY <1>3, <1>7, <1>8 DEF Numbered, Nothing, None
<1>15. Once(app, unit, {}, log) BY <1>5, <1>7 DEF Once
<1>16. Truthful(app, unit, {}, {}, log) BY <1>5, <1>7 DEF Truthful
<1>17. Queues(app) BY <1>6, <1>9 DEF Queues
<1>18. Holding(app, unit, {}, log)
  <2>1. \A n, b : ~IsPress(app, unit, {}, n, b) BY <1>4, <1>6, <1>7 DEF IsPress
  <2> QED BY <1>4, <1>7, <2>1 DEF Holding
<1>19. Owed(app, log)
  <2>1. ToSet(app.gestures) = {} BY <1>3 DEF ToSet
  <2>2. Owing(app) = {} BY <1>9, <2>1 DEF Owing
  <2> QED BY <1>3, <1>5, <1>6, <2>2 DEF Owed
<1>20. Bounded(app, unit) BY <1>3, <1>6, <1>9, Numbers DEF Bounded
<1> QED BY <1>2, <1>10, <1>11, <1>12, <1>13, <1>14, <1>15, <1>16, <1>17, <1>18, <1>19, <1>20
    DEF IInv, Good, Network

LEMMA NextKeeps == ASSUME IInv, [Next]_vars PROVE IInv'
<1>1. CASE UNCHANGED vars BY <1>1 DEF vars, IInv
<1>2. ASSUME NEW b \in Buttons, Volume(b) PROVE IInv' BY <1>2, VolumeKeeps
<1>3. ASSUME NEW name \in Taps, Tap(name) PROVE IInv' BY <1>3, TapKeeps
<1>4. CASE Release BY <1>4, ReleaseKeeps
<1>5. CASE Close BY <1>5, CloseKeeps
<1>6. CASE AppRestart BY <1>6, AppRestartKeeps
<1>7. CASE HelloExpires BY <1>7, HelloExpiresKeeps
<1>8. ASSUME NEW m \in ToSet(replies) \cup {Nothing}, Step(TRUE, m) PROVE IInv' BY <1>8, StepKeeps
<1>9. CASE Step(FALSE, Nothing) BY <1>9, StepKeeps
<1>10. ASSUME NEW m \in ToSet(requests), Handle(m) PROVE IInv'
  BY <1>10, HandleHelloKeeps, HandleStrayKeeps, HandleCommandKeeps DEF Handle
<1>11. CASE OtherHello BY <1>11, OtherHelloKeeps
<1>12. CASE UnitRestart BY <1>12, UnitRestartKeeps
<1> QED BY <1>1, <1>2, <1>3, <1>4, <1>5, <1>6, <1>7, <1>8, <1>9, <1>10, <1>11, <1>12 DEF Next

(* At every state the invariant holds: sessions, numbers, queues, answers   *)
(* and gestures of the badge and the controller agree (transport.py:146,    *)
(* badge_remote.py:437).                                                    *)
THEOREM BadgeInvariant == Spec => []IInv
<1>1. Init => IInv BY InitIsGood
<1>2. IInv /\ [Next]_vars => IInv' BY NextKeeps
<1> QED BY <1>1, <1>2, PTL DEF Spec

(* The invariant bounds what the type invariant bounds. *)
LEMMA GoodTypes == ASSUME IInv PROVE TypeOK
<1>1. app \in Apps /\ unit \in Units /\ log \in Logs BY DEF IInv, Good, Typed
<1>2. Queued(app) <= Room + 1
  <2>1. Queued(app) \in Nat BY <1>1, QueuedStep
  <2> QED BY <2>1, Numbers DEF IInv, Good, Bounded
<1>3. app.rehellos \in 0..MaxRehellos BY <1>1, AppFields, Numbers DEF IInv, Good, Bounded
<1>4. app.seq \in 0..MaxSeq /\ app.held \in Buttons \cup {None} BY <1>1 DEF Apps, Lasts
<1>5. \A i \in 1..Len(unit.clients) : unit.clients[i].last \in 0..MaxSeq
  BY <1>1, TableIs DEF Clients, Lasts
<1> QED BY <1>1, <1>2, <1>3, <1>4, <1>5 DEF TypeOK, IInv, Good, Bounded, Logs

(* At every state the queues exceed their room by at most the one command a *)
(* rehello put back, only a release is stalled, sequence numbers and the    *)
(* table stay within their limits, and no rehello is survived beyond the    *)
(* last allowed (transport.py:56, 181, 189, 291, badge_remote.py:428).      *)
THEOREM BadgeTypes == Spec => []TypeOK
BY BadgeInvariant, GoodTypes, PTL

(* At every state each press or key has run at most once, and the           *)
(* controller holds no volume button whose release it has run, however      *)
(* datagrams are repeated, delayed or replayed and whichever side restarts  *)
(* (badge_remote.py:475, 489, transport.py:276).                            *)
THEOREM CommandsRunOnce == Spec => []RunsOnce
<1>1. IInv => RunsOnce BY DEF IInv, Good, Network, Once, Holding, RunsOnce
<1> QED BY <1>1, BadgeInvariant, PTL

(* At every state a command of which the badge was told that it was done    *)
(* has run, and one of which it was told that it was refused has not, also  *)
(* when the answer is the answer to a repeat (badge_remote.py:485,          *)
(* transport.py:205).                                                       *)
THEOREM UserIsTold == Spec => []AnswersAreTrue
<1>1. IInv => AnswersAreTrue BY DEF IInv, Good, Network, Truthful, AnswersAreTrue
<1> QED BY <1>1, BadgeInvariant, PTL

(* At every state the releases the badge will still send are those of the   *)
(* presses it sent, over drops, give-ups, rehellos and HOME                 *)
(* (transport.py:98, 291, 326).                                             *)
THEOREM ReleasesAreOwed == Spec => []ReleaseIsOwed
<1>1. IInv => ReleaseIsOwed BY DEF IInv, Good, Owed, ReleaseIsOwed
<1> QED BY <1>1, BadgeInvariant, PTL
=============================================================================

------------------------------ MODULE EspNowProofs ------------------------------
(***************************************************************************)
(* The two ESP-NOW links between the remote and the controller.            *)
(*                                                                         *)
(* Tokens, for any number of presses, boots and retries, any ring, any     *)
(* order in which copies land and any time limits that meet the            *)
(* assumption.  The place of a token's entry does the work: it is as far   *)
(* from the end as tokens were executed since, and while copies can still  *)
(* come, its age is known from the sender's, the driver's and the          *)
(* receiver's own times.                                                   *)
(*                                                                         *)
(* Now Playing, for any contents, timing, sequence space, capacity and     *)
(* number of boots that meet the assumptions.  The invariant is PathOK: a  *)
(* function of the publisher t, the frames w on the air, the decoder r,    *)
(* the age b of what is shown, the slots k and the calm c.  Its hardest    *)
(* part is Unwrapped: two snapshots whose sequences the wire cannot tell   *)
(* apart are never in use together (NumbersMeet), which makes an assembly  *)
(* the pieces of one snapshot.                                             *)
(***************************************************************************)
EXTENDS TokenLink, NowPlayingLink, SequenceTheorems, FiniteSetTheorems, WellFoundedInduction, TLAPS

-------------------------------------------------------------------------------
(* Tokens *)

Seqs == 1..MaxSeq
Ages == 0..Window
Entry == [seq : Seqs, age : Ages]
Places == 1..Len(ring)
Entries == 1..Len(unit.recent)

Remotes ==
    [boot : 1..MaxBoots, seq : 0..MaxSeq, attempt : 0..Tries, sending : BOOLEAN,
     wait_ack : BOOLEAN, late : 0..1, rest : 0..Reboot]
Units == [recent : Seq(Entry), paused : 0..Backoff, poisoned : BOOLEAN, unread : 0..Stall]
Flights == [token : Tokens, try : 1..Tries, age : 0..Flight]
Histories == [dropped : SUBSET Tokens, paused : SUBSET Tokens, held : SUBSET Tokens,
              since : [Tokens -> 0..MaxRecent]]

Typed ==
    /\ remote \in Remotes /\ flying \subseteq Flights
    /\ ring \in Seq(Tokens) /\ Len(ring) <= Ring
    /\ unit \in Units /\ Len(unit.recent) <= MaxRecent
    /\ fired \in [Tokens -> 0..2] /\ history \in Histories

(* Boots follow one another everywhere; tokens come in any order.           *)
NotAfter(a, b) == a[1] < b[1] \/ (a[1] = b[1] /\ a[2] <= b[2])
Sequenced ==
    /\ \A i, j \in Places : i <= j => ring[i][1] <= ring[j][1]
    /\ \A i \in Places : NotAfter(ring[i], Current)
    /\ \A f \in flying : f.token[1] = remote.boot /\ f.token[2] <= remote.seq
    /\ \A t \in Tokens : fired[t] > 0 =>
          NotAfter(t, Current) /\ \A i \in Places : t[1] <= ring[i][1]
    /\ remote.attempt > 0 => remote.seq > 0
    /\ remote.sending => remote.attempt > 0
    /\ remote.rest > 0 => remote.seq = 0 /\ remote.attempt = 0

(* An executed token of which copies may still come is remembered, where the *)
(* tokens executed since leave its entry; the entry's age is bounded by the  *)
(* time the token has been under way, in the air and in the ring.            *)
UnderWay(t) == t = Current /\ remote.attempt > 0
InRing(t) == \E i \in Places : ring[i] = t
Remembers(t, bound) ==
    LET i == Len(unit.recent) - history.since[t]
    IN  i > 0 /\ unit.recent[i].seq = t[2] /\ unit.recent[i].age <= bound
Known ==
    \A t \in Tokens : fired[t] > 0 /\ t \notin history.paused /\ ~Overrun(t) =>
       /\ ~Resting
       /\ UnderWay(t) => Remembers(t, remote.late)
       /\ \A f \in flying : f.token = t => Remembers(t, 1 + f.age)
       /\ InRing(t) => Remembers(t, 1 + Flight + unit.unread)
Sorted(recent) == \A i, j \in 1..Len(recent) : i <= j => recent[i].age >= recent[j].age

(* A frame in the ring outlasts its boot only shortly, or over a pause.     *)
NoneAfter(boot) == \A i \in Places : ring[i][1] <= boot
Recently(age) == remote.rest + age >= Reboot
Lasting ==
    \A i \in Places : ring[i] \notin history.held =>
       /\ ~Resting
       /\ ring[i][1] = remote.boot \/ (Recently(unit.unread) /\ NoneAfter(ring[i][1]))

(* So does an entry: it names a token of this boot, one that was held, or   *)
(* one of a boot that ended so recently that no token came after it.        *)
Traced(e, t) ==
    /\ fired[t] > 0 /\ t[2] = e.seq
    /\ \/ t[1] = remote.boot \/ t \in history.held
       \/ Recently(e.age + Stall) /\ NoneAfter(t[1])
Traceable ==
    \A i \in Entries : unit.recent[i].age < Window => \E t \in Tokens : Traced(unit.recent[i], t)

TokenInv ==
    /\ Typed /\ Sequenced /\ Known /\ Sorted(unit.recent) /\ Lasting /\ Traceable
    /\ ExecutedOnce /\ DropsOnlyRepeats

-------------------------------------------------------------------------------
(* The receiver's memory *)

LEMMA Limits ==
    /\ MaxSeq \in Nat \ {0} /\ MaxBoots \in Nat \ {0} /\ Tries \in Nat \ {0} /\ Ring \in Nat \ {0}
    /\ Window \in Nat \ {0} /\ Backoff \in Nat \ {0} /\ MaxRecent \in Nat \ {0}
    /\ Reboot \in Nat \ {0} /\ Stall \in Nat /\ Flight \in Nat
    /\ 1 + Flight + Stall < Window /\ Window + Stall < Reboot
BY TokenAssumption

LEMMA LeastIsMin ==
    ASSUME NEW T, T \subseteq Nat, T # {}
    PROVE  Min(T) \in T /\ \A y \in T : Min(T) <= y
<1> DEFINE Less == {p \in Nat \X Nat : p[1] < p[2]}
<1>1. IsWellFoundedOn(Less, Nat) BY NatLessThanWellFounded DEF OpToRel
<1> HIDE DEF Less
<1>2. PICK x \in T : \A y \in T : <<y, x>> \notin Less BY <1>1, WFMin
<1>3. \A y \in T : y < x => <<y, x>> \in Less BY DEF Less
<1>4. x \in Nat /\ \A y \in T : y \in Nat /\ ~(y < x) BY <1>2, <1>3
<1>5. \A y \in T : x <= y BY <1>4, SMT
<1> QED BY <1>5 DEF Min

LEMMA RememberedKeeps ==
    ASSUME NEW recent \in Seq(Entry), Sorted(recent)
    PROVE  LET r == Remembered(recent)
           IN  /\ r \in Seq(Entry) /\ Len(r) <= Len(recent) /\ Sorted(r)
               /\ \A i \in 1..Len(r) : r[i].age < Window /\ \E j \in 1..Len(recent) : r[i] = recent[j]
               /\ \A d \in Nat : Len(recent) - d > 0 /\ recent[Len(recent) - d].age < Window
                     => Len(r) - d > 0 /\ r[Len(r) - d] = recent[Len(recent) - d]
<1> DEFINE fresh == {i \in 1..Len(recent) : recent[i].age < Window}
           k == Min(fresh)
           n == Len(recent)
<1>1. n \in Nat /\ \A i \in 1..n : recent[i] \in Entry BY LenProperties, ElementOfSeq
<1>2. CASE fresh = {}
  <2>1. Remembered(recent) = <<>> BY <1>2 DEF Remembered
  <2>2. <<>> \in Seq(Entry) /\ Len(<<>>) = 0 BY EmptySeq
  <2>3. \A d \in Nat : n - d > 0 => ~(recent[n - d].age < Window)
    <3> TAKE d \in Nat
    <3>1. n - d > 0 => n - d \in 1..n BY <1>1
    <3> QED BY <1>2, <3>1
  <2> QED BY <1>1, <2>1, <2>2, <2>3 DEF Sorted
<1>3. CASE fresh # {}
  <2> DEFINE r == SubSeq(recent, k, n)
  <2>1. k \in fresh /\ \A j \in fresh : k <= j
    <3>1. fresh \subseteq Nat BY <1>1
    <3> HIDE DEF fresh
    <3> QED BY <1>3, <3>1, LeastIsMin
  <2>1a. \A j \in 1..n : recent[j].age < Window => k <= j BY <2>1
  <2>2. k \in 1..n /\ recent[k].age < Window BY <2>1
  <2>3. Remembered(recent) = r BY <1>3 DEF Remembered
  <2> HIDE DEF k, fresh
  <2>4. \A i \in k..n : recent[i] \in Entry BY <1>1, <2>2
  <2>5. /\ r \in Seq(Entry) /\ Len(r) = n - k + 1
        /\ \A i \in 1..n - k + 1 : r[i] = recent[k + i - 1]
    <3>1. k \in Int /\ n \in Int /\ k <= n BY <1>1, <2>2
    <3> HIDE DEF n
    <3>2. r \in Seq(Entry) /\ Len(r) = (IF k <= n THEN n - k + 1 ELSE 0)
          /\ \A i \in 1..n - k + 1 : r[i] = recent[k + i - 1]
      BY <2>4, <3>1, SubSeqProperties
    <3> QED BY <3>1, <3>2
  <2> HIDE DEF r
  <2>6. \A i \in 1..Len(r) : k + i - 1 \in k..n /\ r[i] = recent[k + i - 1] BY <1>1, <2>2, <2>5
  <2>7. \A i \in k..n : recent[i].age < Window
    <3> TAKE i \in k..n
    <3>1. recent[k].age >= recent[i].age BY <1>1, <2>2 DEF Sorted
    <3>2. recent[k] \in Entry /\ recent[i] \in Entry BY <1>1, <2>2
    <3> QED BY <2>2, <3>1, <3>2, Limits DEF Entry, Ages
  <2>8. Sorted(r)
    <3> SUFFICES ASSUME NEW i \in 1..Len(r), NEW j \in 1..Len(r), i <= j
                 PROVE  r[i].age >= r[j].age
      BY DEF Sorted
    <3>1. k + i - 1 \in 1..n /\ k + j - 1 \in 1..n /\ k + i - 1 <= k + j - 1 BY <1>1, <2>2, <2>5
    <3>2. recent[k + i - 1].age >= recent[k + j - 1].age BY <3>1 DEF Sorted
    <3> QED BY <2>6, <3>2
  <2>9. ASSUME NEW d \in Nat, n - d > 0, recent[n - d].age < Window
        PROVE  Len(r) - d > 0 /\ r[Len(r) - d] = recent[n - d]
    <3>1. n - d \in 1..n BY <1>1, <2>9
    <3>2. k <= n - d BY <2>1a, <2>9, <3>1
    <3>3. Len(r) - d \in 1..n - k + 1 /\ k + (Len(r) - d) - 1 = n - d
      BY <1>1, <2>2, <2>5, <3>1, <3>2
    <3> QED BY <2>5, <3>3
  <2>10. \A i \in 1..Len(r) : r[i].age < Window /\ \E j \in 1..n : r[i] = recent[j]
    <3> TAKE i \in 1..Len(r)
    <3>1. k + i - 1 \in k..n /\ r[i] = recent[k + i - 1] BY <2>6
    <3>2. r[i].age < Window BY <2>7, <3>1
    <3>3. k + i - 1 \in 1..n BY <1>1, <2>2, <3>1
    <3> QED BY <3>1, <3>2, <3>3
  <2> QED BY <1>1, <2>2, <2>3, <2>5, <2>8, <2>9, <2>10
<1> QED BY <1>2, <1>3

LEMMA NotedKeeps ==
    ASSUME NEW recent \in Seq(Entry), Sorted(recent), Len(recent) <= MaxRecent, NEW seq \in Seqs
    PROVE  LET q == Noted(recent, seq)
               e == [seq |-> seq, age |-> 0]
           IN  /\ q \in Seq(Entry) /\ Len(q) <= MaxRecent /\ Sorted(q)
               /\ Len(q) > 0 /\ q[Len(q)] = e
               /\ \A d \in Nat : Len(recent) - d > 0 /\ d + 1 < MaxRecent
                     => Len(q) - (d + 1) > 0 /\ q[Len(q) - (d + 1)] = recent[Len(recent) - d]
               /\ \A i \in 1..Len(q) : q[i] = e \/ \E j \in 1..Len(recent) : q[i] = recent[j]
<1> DEFINE e == [seq |-> seq, age |-> 0]
           all == Append(recent, e)
           n == Len(recent)
<1>1. n \in Nat /\ \A i \in 1..n : recent[i] \in Entry BY LenProperties, ElementOfSeq
<1>2. e \in Entry BY Limits DEF Entry, Ages
<1>3. /\ all \in Seq(Entry) /\ all # <<>> /\ Len(all) = n + 1
      /\ (\A i \in 1..n : all[i] = recent[i]) /\ all[n + 1] = e
  BY <1>2, AppendProperties
<1>4. e.age = 0 OBVIOUS
<1>5. Noted(recent, seq) = IF Len(all) > MaxRecent THEN Tail(all) ELSE all BY DEF Noted
<1> HIDE DEF e, all
<1>6. Sorted(all)
  <2> SUFFICES ASSUME NEW i \in 1..Len(all), NEW j \in 1..Len(all), i <= j
               PROVE  all[i].age >= all[j].age
    BY DEF Sorted
  <2>1. CASE j = n + 1
    <3>1. all[i] \in Entry BY <1>3, ElementOfSeq
    <3> QED BY <1>3, <1>4, <2>1, <3>1, Limits DEF Entry, Ages
  <2>2. CASE j # n + 1
    <3>1. i \in 1..n /\ j \in 1..n BY <1>1, <1>3, <2>2
    <3> QED BY <1>3, <3>1 DEF Sorted
  <2> QED BY <2>1, <2>2
<1>7. \A i \in 1..Len(all) : all[i] = e \/ \E j \in 1..n : all[i] = recent[j]
  <2> TAKE i \in 1..Len(all)
  <2>1. i = n + 1 \/ i \in 1..n BY <1>1, <1>3
  <2> QED BY <1>3, <2>1
<1>8. CASE Len(all) > MaxRecent
  <2> DEFINE q == Tail(all)
  <2>1. q \in Seq(Entry) /\ Len(q) = n /\ \A i \in 1..Len(q) : q[i] = all[i + 1]
    <3>1. q \in Seq(Entry) /\ Len(q) = Len(all) - 1 /\ \A i \in 1..Len(q) : q[i] = all[i + 1]
      BY <1>3, HeadTailProperties
    <3> QED BY <1>1, <1>3, <3>1
  <2>2. n > 0 BY <1>1, <1>3, <1>8, Limits
  <2> HIDE DEF q
  <2>3. Sorted(q)
    <3> SUFFICES ASSUME NEW i \in 1..Len(q), NEW j \in 1..Len(q), i <= j
                 PROVE  q[i].age >= q[j].age
      BY DEF Sorted
    <3>1. i + 1 \in 1..Len(all) /\ j + 1 \in 1..Len(all) /\ i + 1 <= j + 1 BY <1>1, <1>3, <2>1
    <3> QED BY <1>6, <2>1, <3>1 DEF Sorted
  <2>4. q[Len(q)] = e BY <1>1, <1>3, <2>1, <2>2
  <2>5. \A i \in 1..Len(q) : q[i] = e \/ \E j \in 1..n : q[i] = recent[j]
    <3> TAKE i \in 1..Len(q)
    <3>1. i + 1 \in 1..Len(all) BY <1>1, <1>3, <2>1
    <3> QED BY <1>7, <2>1, <3>1
  <2>6. Noted(recent, seq) = q BY <1>5, <1>8 DEF q
  <2>7. n = MaxRecent BY <1>1, <1>3, <1>8, Limits
  <2>8. ASSUME NEW d \in Nat, n - d > 0, d + 1 < MaxRecent
        PROVE  n - (d + 1) > 0 /\ q[n - (d + 1)] = recent[n - d]
    <3>1. n - (d + 1) \in 1..n /\ n - (d + 1) + 1 = n - d /\ n - d \in 1..n
      BY <1>1, <2>7, <2>8, Limits
    <3>2. q[n - (d + 1)] = all[n - d] BY <2>1, <3>1
    <3> QED BY <1>3, <3>1, <3>2
  <2> QED BY <1>1, <2>1, <2>2, <2>3, <2>4, <2>5, <2>6, <2>8 DEF e
<1>9. CASE ~(Len(all) > MaxRecent)
  <2>1. Noted(recent, seq) = all BY <1>5, <1>9
  <2>2. Len(all) <= MaxRecent BY <1>1, <1>3, <1>9, Limits
  <2>3. ASSUME NEW d \in Nat, n - d > 0, d + 1 < MaxRecent
        PROVE  Len(all) - (d + 1) > 0 /\ all[Len(all) - (d + 1)] = recent[n - d]
    <3>1. Len(all) - (d + 1) = n - d /\ n - d \in 1..n BY <1>1, <1>3, <2>3
    <3> QED BY <1>3, <2>3, <3>1
  <2> QED BY <1>1, <1>3, <1>6, <1>7, <2>1, <2>2, <2>3 DEF e
<1> QED BY <1>8, <1>9

-------------------------------------------------------------------------------
(* The sender's steps *)

LEMMA InitGood == TokenInit => TokenInv
<1> SUFFICES ASSUME TokenInit PROVE TokenInv
  OBVIOUS
<1>1. <<>> \in Seq(Tokens) /\ <<>> \in Seq(Entry) /\ Len(<<>>) = 0 BY EmptySeq
<1>2. Typed
  <2>1. remote \in Remotes BY Limits DEF TokenInit, Remotes
  <2>2. unit \in Units /\ Len(unit.recent) <= MaxRecent BY <1>1, Limits DEF TokenInit, Units
  <2>3. history \in Histories BY Limits DEF TokenInit, Histories
  <2> QED BY <1>1, <2>1, <2>2, <2>3, Limits DEF TokenInit, Typed
<1>3. \A t \in Tokens : fired[t] = 0 BY DEF TokenInit
<1>4. Places = {} /\ Entries = {} BY <1>1 DEF TokenInit, Places, Entries
<1>5. Sequenced BY <1>3, <1>4 DEF TokenInit, Sequenced
<1>6. Known BY <1>3 DEF Known
<1>7. Sorted(unit.recent) BY <1>4 DEF Sorted, Entries
<1>8. Lasting /\ Traceable BY <1>4 DEF Lasting, Traceable
<1>9. ExecutedOnce BY <1>3 DEF ExecutedOnce
<1>10. DropsOnlyRepeats BY DEF TokenInit, DropsOnlyRepeats
<1> QED BY <1>2, <1>5, <1>6, <1>7, <1>8, <1>9, <1>10 DEF TokenInv

LEMMA TokenParts ==
    ASSUME Typed
    PROVE  /\ \A i \in Places : ring[i] \in Tokens /\ ring[i][1] \in Nat /\ ring[i][2] \in Nat \ {0}
           /\ \A t \in Tokens : t[1] \in Nat /\ t[2] \in Nat \ {0} /\ fired[t] \in Nat
           /\ \A i \in Entries : unit.recent[i] \in Entry /\ unit.recent[i].age \in Nat
           /\ remote.boot \in Nat /\ remote.seq \in Nat /\ remote.attempt \in Nat
           /\ remote.rest \in Nat /\ remote.late \in 0..1
           /\ unit.unread \in Nat /\ unit.unread <= Stall
           /\ Len(ring) \in Nat /\ Len(unit.recent) \in Nat
           /\ Current[1] = remote.boot /\ Current[2] = remote.seq
           /\ \A f \in flying : f.token \in Tokens /\ f.age \in Nat /\ f.age <= Flight
           /\ \A t \in Tokens : history.since[t] \in Nat /\ history.since[t] <= MaxRecent
<1>1. \A t \in Tokens : t[1] \in Nat /\ t[2] \in Nat \ {0} BY Limits DEF Tokens
<1>2. \A i \in Places : ring[i] \in Tokens BY ElementOfSeq DEF Typed, Places
<1>3. unit.recent \in Seq(Entry) BY DEF Typed, Units
<1>4. \A i \in Entries : unit.recent[i] \in Entry BY <1>3, ElementOfSeq DEF Entries
<1>5. \A e \in Entry : e.age \in Nat BY Limits DEF Entry, Ages
<1>6. Len(ring) \in Nat /\ Len(unit.recent) \in Nat BY <1>3, LenProperties DEF Typed
<1>7. /\ remote.boot \in Nat /\ remote.seq \in Nat /\ remote.attempt \in Nat
      /\ remote.rest \in Nat /\ remote.late \in 0..1
      /\ unit.unread \in Nat /\ unit.unread <= Stall
  BY Limits DEF Typed, Remotes, Units
<1>8. \A t \in Tokens : fired[t] \in Nat
  <2>1. \A t \in Tokens : fired[t] \in 0..2 BY DEF Typed
  <2> QED BY <2>1
<1>9. \A f \in flying : f.token \in Tokens /\ f.age \in Nat /\ f.age <= Flight
  <2>1. \A f \in flying : f \in Flights BY DEF Typed
  <2> QED BY <2>1, Limits DEF Flights
<1>10. \A t \in Tokens : history.since[t] \in Nat /\ history.since[t] <= MaxRecent
  <2>1. \A t \in Tokens : history.since[t] \in 0..MaxRecent BY DEF Typed, Histories
  <2> QED BY <2>1, Limits
<1> QED BY <1>1, <1>2, <1>4, <1>5, <1>6, <1>7, <1>8, <1>9, <1>10 DEF Current

(* What is remembered with one bound is remembered with a larger one, and   *)
(* until the window closes.                                                 *)
LEMMA RemembersMore ==
    ASSUME Typed, NEW t \in Tokens, NEW b \in Nat, NEW c \in Nat, b <= c, Remembers(t, b)
    PROVE  Remembers(t, c)
<1> DEFINE i == Len(unit.recent) - history.since[t]
<1>1. i > 0 /\ unit.recent[i].seq = t[2] /\ unit.recent[i].age <= b BY DEF Remembers
<1>2. i \in Entries BY <1>1, TokenParts DEF Entries
<1>3. unit.recent[i].age \in Nat BY <1>2, TokenParts
<1> HIDE DEF i
<1>4. unit.recent[i].age <= c BY <1>1, <1>3
<1> QED BY <1>1, <1>4 DEF Remembers, i

(* A new press comes after every token that was sent. *)
LEMMA PressGood == ASSUME TokenInv, Press PROVE TokenInv'
<1> USE DEF TokenInv
<1>1. Typed'
  <2>1. remote \in Remotes /\ remote.seq + 1 \in 0..MaxSeq /\ 1 \in 0..Tries /\ 0 \in 0..1
    BY Limits DEF Press, Typed, Remotes
  <2>2. remote' \in Remotes BY <2>1 DEF Press, Remotes
  <2> QED BY <2>2 DEF Press, Typed
<1>2. /\ remote'.boot = remote.boot /\ remote'.seq = remote.seq + 1 /\ remote'.attempt = 1
      /\ remote'.rest = 0 /\ remote.rest = 0 /\ remote'.late = 0 /\ remote'.sending = remote.sending
      /\ Current'[1] = remote.boot /\ Current'[2] = remote.seq + 1 /\ remote.attempt = 0
  BY DEF Press, Typed, Remotes, Current
<1>3. Places' = Places /\ Entries' = Entries /\ ring' = ring /\ unit' = unit /\ fired' = fired
      /\ history' = history /\ flying' = flying
  BY DEF Press, Places, Entries
<1>4. \A t : NotAfter(t, Current) /\ t[1] \in Nat /\ t[2] \in Nat => NotAfter(t, Current')
             /\ t # Current'
  BY <1>2, TokenParts DEF NotAfter
<1>5. Sequenced'
  <2>1. \A f \in flying : f.token[1] = remote.boot /\ f.token[2] <= remote.seq + 1
    BY TokenParts DEF Sequenced
  <2>2. /\ \A i \in Places : NotAfter(ring[i], Current')
        /\ \A t \in Tokens : fired[t] > 0 => NotAfter(t, Current')
    BY <1>4, TokenParts DEF Sequenced
  <2> QED BY <1>2, <1>3, <2>1, <2>2, TokenParts DEF Sequenced, NotAfter
<1>6. Known'
  <2> SUFFICES ASSUME NEW t \in Tokens, fired[t] > 0, t \notin history.paused, ~Overrun(t)
               PROVE  /\ ~Resting
                      /\ ~UnderWay(t)'
                      /\ \A f \in flying : f.token = t => Remembers(t, 1 + f.age)
                      /\ InRing(t) => Remembers(t, 1 + Flight + unit.unread)
    BY <1>3 DEF Known, Resting, Remembers, InRing, Overrun
  <2>1. t # Current' BY <1>4, TokenParts DEF Sequenced
  <2> QED BY <2>1 DEF Known, UnderWay
<1>7. Lasting' BY <1>2, <1>3 DEF Lasting, NoneAfter, Recently, Resting
<1>8. Traceable' BY <1>2, <1>3 DEF Traceable, Traced, NoneAfter, Recently
<1> QED BY <1>1, <1>3, <1>5, <1>6, <1>7, <1>8 DEF ExecutedOnce, DropsOnlyRepeats, Overrun

(* A step that moves the attempt on or ends a send changes no more than that. *)
LEMMA AttemptGood ==
    ASSUME TokenInv, remote' \in Remotes, flying' \subseteq flying,
           UNCHANGED <<ring, unit, fired, history>>,
           remote'.boot = remote.boot, remote'.seq = remote.seq, remote'.rest = remote.rest,
           remote'.attempt > 0 => remote.attempt > 0 /\ remote'.late = remote.late,
           remote'.sending => remote'.attempt > 0
    PROVE  TokenInv'
<1> USE DEF TokenInv
<1>1. Typed' BY DEF Typed
<1>2. Current' = Current BY DEF Current
<1>3. Places' = Places /\ Entries' = Entries BY DEF Places, Entries
<1>4. remote.attempt \in Nat /\ remote'.attempt \in Nat BY <1>1, Limits DEF Typed, Remotes
<1>5. Sequenced' BY <1>2, <1>3, <1>4 DEF Sequenced, NotAfter
<1>6. Known'
  <2> SUFFICES ASSUME NEW t \in Tokens, fired[t] > 0, t \notin history.paused, ~Overrun(t)
               PROVE  /\ ~Resting
                      /\ UnderWay(t)' => Remembers(t, remote'.late)
                      /\ \A f \in flying' : f.token = t => Remembers(t, 1 + f.age)
                      /\ InRing(t) => Remembers(t, 1 + Flight + unit.unread)
    BY <1>3 DEF Known, Resting, Remembers, InRing, Overrun
  <2>1. UnderWay(t)' => UnderWay(t) /\ remote'.late = remote.late BY <1>2 DEF UnderWay
  <2> QED BY <2>1 DEF Known
<1>7. Lasting' BY <1>3 DEF Lasting, NoneAfter, Recently, Resting
<1>8. Traceable' BY <1>3 DEF Traceable, Traced, NoneAfter, Recently
<1> QED BY <1>1, <1>3, <1>5, <1>6, <1>7, <1>8 DEF ExecutedOnce, DropsOnlyRepeats, Overrun

LEMMA GoOnGood ==
    ASSUME TokenInv, remote.attempt > 0, NEW next \in 0..Tries, remote' = GoOn(next),
           UNCHANGED <<flying, ring, unit, fired, history>>
    PROVE  TokenInv'
<1>1. remote \in Remotes /\ 0 \in 0..1 BY DEF TokenInv, Typed
<1> DEFINE late == IF next = 0 THEN 0 ELSE remote.late
<1>2. late \in 0..1 BY <1>1 DEF Remotes
<1>3. next > 0 => late = remote.late BY Limits
<1> HIDE DEF late
<1>4. remote' = [remote EXCEPT !.sending = FALSE, !.wait_ack = FALSE, !.attempt = next, !.late = late]
  BY DEF GoOn, late
<1>5. remote' \in Remotes BY <1>1, <1>2, <1>4 DEF Remotes
<1>6. /\ remote'.boot = remote.boot /\ remote'.seq = remote.seq /\ remote'.rest = remote.rest
      /\ remote'.attempt = next /\ remote'.late = late /\ ~remote'.sending
  BY <1>1, <1>4 DEF Remotes
<1> QED BY <1>3, <1>5, <1>6, AttemptGood

LEMMA RetryGood == ASSUME TokenInv, SendRefused \/ AttemptOver PROVE TokenInv'
<1>1. remote \in Remotes BY DEF TokenInv, Typed
<1>2. NextAttempt \in 0..Tries /\ 0 \in 0..Tries BY <1>1, Limits DEF NextAttempt, Remotes
<1>3. CASE SendRefused
  <2>1. remote.attempt > 0 /\ remote' = GoOn(NextAttempt)
        /\ UNCHANGED <<flying, ring, unit, fired, history>>
    BY <1>3 DEF SendRefused
  <2> QED BY <1>2, <2>1, GoOnGood
<1>4. CASE AttemptOver
  <2> DEFINE next == IF remote.wait_ack THEN 0 ELSE NextAttempt
  <2>1. next \in 0..Tries BY <1>2
  <2>2. remote.attempt > 0 BY <1>4 DEF AttemptOver, TokenInv, Sequenced
  <2>3. remote' = GoOn(next) /\ UNCHANGED <<flying, ring, unit, fired, history>>
    BY <1>4 DEF AttemptOver
  <2> HIDE DEF next
  <2> QED BY <2>1, <2>2, <2>3, GoOnGood
<1> QED BY <1>3, <1>4

LEMMA SentGood ==
    ASSUME TokenInv, NEW frame \in flying, NEW ack \in BOOLEAN, OnSent(frame, ack)
    PROVE  TokenInv'
<1>1. remote \in Remotes BY DEF TokenInv, Typed
<1> DEFINE counts == ack /\ remote.sending
<1>2. counts \in BOOLEAN BY <1>1 DEF Remotes
<1>3. /\ remote' = [remote EXCEPT !.wait_ack = counts] /\ flying' = flying \ {frame}
      /\ UNCHANGED <<ring, unit, fired, history>>
  BY DEF OnSent
<1> HIDE DEF counts
<1>4. remote' \in Remotes BY <1>1, <1>2, <1>3 DEF Remotes
<1>5. /\ remote'.boot = remote.boot /\ remote'.seq = remote.seq /\ remote'.rest = remote.rest
      /\ remote'.late = remote.late /\ remote'.sending = remote.sending
      /\ remote'.attempt = remote.attempt
  BY <1>1, <1>3 DEF Remotes
<1>6. remote.sending => remote.attempt > 0 BY DEF TokenInv, Sequenced
<1>7. flying' \subseteq flying BY <1>3
<1> QED BY <1>3, <1>4, <1>5, <1>6, <1>7, AttemptGood

(* A frame is handed over while its token is under way: what was executed   *)
(* of the token was executed no longer ago than its attempts have lasted.   *)
LEMMA SendGood == ASSUME TokenInv, SendAttempt PROVE TokenInv'
<1> DEFINE new == [token |-> Current, try |-> remote.attempt, age |-> 0]
<1> USE DEF TokenInv
<1>1. /\ remote \in Remotes /\ remote.attempt > 0
      /\ remote' = [remote EXCEPT !.sending = TRUE, !.wait_ack = FALSE]
      /\ flying' = flying \cup {new} /\ UNCHANGED <<ring, unit, fired, history>>
  BY DEF SendAttempt, Typed
<1>2. /\ remote' \in Remotes /\ remote'.boot = remote.boot /\ remote'.seq = remote.seq
      /\ remote'.attempt = remote.attempt /\ remote'.rest = remote.rest /\ remote'.late = remote.late
  BY <1>1 DEF Remotes
<1>3. Current \in Tokens
  <2>1. remote.seq > 0 BY <1>1 DEF Sequenced
  <2> QED BY <1>1, <2>1, Limits DEF Tokens, Current, Remotes
<1>4. new \in Flights /\ new.token = Current /\ new.age = 0
  <2>1. remote.attempt \in 1..Tries BY <1>1, Limits DEF Remotes
  <2> QED BY <1>3, <2>1, Limits DEF Flights
<1> HIDE DEF new
<1>5. Typed' BY <1>1, <1>2, <1>4 DEF Typed
<1>6. Current' = Current /\ Places' = Places /\ Entries' = Entries
  BY <1>1, <1>2 DEF Current, Places, Entries
<1>7. Sequenced'
  <2>1. \A f \in flying' : f.token[1] = remote.boot /\ f.token[2] <= remote.seq
    <3> TAKE f \in flying'
    <3>1. CASE f = new BY <1>4, <3>1, TokenParts
    <3>2. CASE f # new BY <1>1, <3>2 DEF Sequenced
    <3> QED BY <3>1, <3>2
  <2>2. remote.seq > 0 BY <1>1 DEF Sequenced
  <2> QED BY <1>1, <1>2, <1>6, <2>1, <2>2 DEF Sequenced
<1>8. Known'
  <2> SUFFICES ASSUME NEW t \in Tokens, fired[t] > 0, t \notin history.paused, ~Overrun(t)
               PROVE  /\ ~Resting
                      /\ UnderWay(t) => Remembers(t, remote.late)
                      /\ \A f \in flying' : f.token = t => Remembers(t, 1 + f.age)
                      /\ InRing(t) => Remembers(t, 1 + Flight + unit.unread)
    BY <1>1, <1>2, <1>6 DEF Known, Resting, Remembers, InRing, Overrun, UnderWay
  <2>1. ASSUME NEW f \in flying', f.token = t PROVE Remembers(t, 1 + f.age)
    <3>1. CASE f \in flying BY <2>1, <3>1 DEF Known
    <3>2. CASE f = new
      <4>1. UnderWay(t) BY <1>1, <1>4, <2>1, <3>2 DEF UnderWay
      <4>2. Remembers(t, remote.late) BY <4>1 DEF Known
      <4>3. remote.late \in Nat /\ remote.late <= 1 /\ 1 + f.age = 1 BY <1>4, <3>2, TokenParts
      <4> QED BY <4>2, <4>3, RemembersMore
    <3> QED BY <1>1, <3>1, <3>2
  <2> QED BY <2>1 DEF Known
<1>9. Lasting' BY <1>1, <1>2, <1>6 DEF Lasting, NoneAfter, Recently, Resting
<1>10. Traceable' BY <1>1, <1>2, <1>6 DEF Traceable, Traced, NoneAfter, Recently
<1>11. ExecutedOnce' /\ DropsOnlyRepeats' BY <1>1 DEF ExecutedOnce, DropsOnlyRepeats, Overrun
<1> QED BY <1>1, <1>5, <1>7, <1>8, <1>9, <1>10, <1>11

(* A boot is long: what the ring still holds of the old one is not met by a *)
(* token of the new one.                                                    *)
LEMMA RestartGood == ASSUME TokenInv, RemoteRestart PROVE TokenInv'
<1> USE DEF TokenInv
<1>1. /\ remote.boot < MaxBoots /\ remote \in Remotes
      /\ remote' = [boot |-> remote.boot + 1, seq |-> 0, attempt |-> 0, sending |-> FALSE,
                    wait_ack |-> FALSE, late |-> 0, rest |-> Reboot]
      /\ flying' = {} /\ UNCHANGED <<ring, unit, fired, history>>
  BY DEF RemoteRestart, Typed
<1>2. Typed'
  <2>1. remote' \in Remotes BY <1>1, Limits DEF Remotes
  <2> QED BY <1>1, <2>1 DEF Typed
<1>3. Places' = Places /\ Entries' = Entries /\ Resting' = Resting
  BY <1>1 DEF Places, Entries, Resting
<1>4. Current'[1] = remote.boot + 1 /\ Current'[2] = 0 BY <1>1 DEF Current
<1>5. \A t : NotAfter(t, Current) /\ t[1] \in Nat => t[1] <= remote.boot /\ NotAfter(t, Current')
  BY <1>4, TokenParts DEF NotAfter
<1>6. Sequenced'
  <2>1. /\ \A i \in Places : NotAfter(ring[i], Current')
        /\ \A t \in Tokens : fired[t] > 0 => NotAfter(t, Current')
    BY <1>5, TokenParts DEF Sequenced
  <2> QED BY <1>1, <1>3, <2>1 DEF Sequenced
<1>7. Known' BY <1>1, <1>3 DEF Known, Resting, Remembers, InRing, Overrun, UnderWay
<1>8. \A t \in Tokens : t[1] = remote.boot => NoneAfter(t[1]) BY <1>5, TokenParts DEF Sequenced, NoneAfter
<1>9. \A age \in Nat : remote'.rest + age >= Reboot BY <1>1, Limits
<1>10. \A n : NoneAfter(n)' = NoneAfter(n) BY <1>1, <1>3 DEF NoneAfter
<1>11. Lasting'
  <2> SUFFICES ASSUME NEW i \in Places, ring[i] \notin history.held
               PROVE  ~Resting /\ NoneAfter(ring[i][1])
    BY <1>1, <1>3, <1>9, <1>10, TokenParts DEF Lasting, Recently
  <2>1. ~Resting /\ (ring[i][1] = remote.boot \/ NoneAfter(ring[i][1])) BY DEF Lasting
  <2>2. ring[i] \in Tokens BY TokenParts
  <2> QED BY <1>8, <2>1, <2>2
<1>12. Traceable'
  <2> SUFFICES ASSUME NEW i \in Entries, unit.recent[i].age < Window
               PROVE  \E t \in Tokens : Traced(unit.recent[i], t)'
    BY <1>1, <1>3 DEF Traceable
  <2>1. PICK t \in Tokens : Traced(unit.recent[i], t) BY DEF Traceable
  <2>2. unit.recent[i].age + Stall \in Nat
    <3>1. unit.recent[i].age \in Nat BY TokenParts
    <3> QED BY <3>1, Limits
  <2>3. remote'.rest + (unit.recent[i].age + Stall) >= Reboot BY <1>9, <2>2
  <2>4. t \in history.held \/ NoneAfter(t[1]) BY <1>8, <2>1 DEF Traced
  <2>5. Traced(unit.recent[i], t)' BY <1>1, <1>10, <2>1, <2>3, <2>4 DEF Traced, Recently
  <2> QED BY <2>5
<1>13. ExecutedOnce' /\ DropsOnlyRepeats' BY <1>1 DEF ExecutedOnce, DropsOnlyRepeats, Overrun
<1> QED BY <1>1, <1>2, <1>6, <1>7, <1>11, <1>12, <1>13

(* A frame lands behind all others, in its boot; what was executed of its   *)
(* token is as old as the frame and the attempts before it at most.         *)
LEMMA LandGood == ASSUME TokenInv, NEW frame \in flying, Land(frame) PROVE TokenInv'
<1> DEFINE h == frame.token
<1> USE DEF TokenInv
<1>1. /\ ring' = IF Len(ring) < Ring THEN Append(ring, h) ELSE ring
      /\ history' = [history EXCEPT !.held = IF Resting THEN history.held \cup {h} ELSE history.held]
      /\ UNCHANGED <<remote, flying, unit, fired>>
  BY DEF Land
<1>2. /\ h \in Tokens /\ h[1] = remote.boot /\ h[2] <= remote.seq /\ NotAfter(h, Current)
      /\ frame.age \in Nat /\ frame.age <= Flight
  BY TokenParts DEF Sequenced, NotAfter
<1>3. remote.rest = 0
  <2>1. remote.seq > 0 BY <1>2, TokenParts
  <2> QED BY <2>1, TokenParts DEF Sequenced
<1> HIDE DEF h
<1>4. /\ ring' \in Seq(Tokens) /\ Len(ring') \in Nat /\ Len(ring') <= Ring
      /\ \A i \in Places' : (i \in Places /\ ring'[i] = ring[i])
                            \/ (i > Len(ring) /\ ring'[i] = h)
  <2>1. ring \in Seq(Tokens) /\ Len(ring) \in Nat /\ Len(ring) <= Ring BY TokenParts DEF Typed
  <2>2. CASE Len(ring) < Ring
    <3>1. /\ Append(ring, h) \in Seq(Tokens) /\ Len(Append(ring, h)) = Len(ring) + 1
          /\ (\A i \in 1..Len(ring) : Append(ring, h)[i] = ring[i])
          /\ Append(ring, h)[Len(ring) + 1] = h
      BY <1>2, <2>1, AppendProperties
    <3>2. ring' = Append(ring, h) BY <1>1, <2>2
    <3> QED BY <2>1, <2>2, <3>1, <3>2, Limits DEF Places
  <2>3. CASE ~(Len(ring) < Ring) BY <1>1, <2>1, <2>3 DEF Places
  <2> QED BY <2>2, <2>3
<1>5. /\ history'.paused = history.paused /\ history'.dropped = history.dropped
      /\ history'.since = history.since /\ history.held \subseteq history'.held
      /\ history' \in Histories /\ (Resting => h \in history'.held)
  <2>1. history \in Histories BY DEF Typed
  <2> QED BY <1>1, <1>2, <2>1 DEF Histories
<1>6. Typed'
  <2>1. remote' = remote /\ flying' = flying /\ unit' = unit /\ fired' = fired BY <1>1
  <2> QED BY <1>4, <1>5, <2>1 DEF Typed
<1>7. Current' = Current /\ Entries' = Entries /\ Resting' = Resting
  BY <1>1 DEF Current, Entries, Resting
<1>8. \A t \in Tokens : NotAfter(t, Current) => t[1] <= remote.boot
  BY TokenParts DEF NotAfter
<1>9. Sequenced'
  <2>1. \A i \in Places' : NotAfter(ring'[i], Current) BY <1>2, <1>4 DEF Sequenced
  <2>2. \A i, j \in Places' : i <= j => ring'[i][1] <= ring'[j][1]
    <3> SUFFICES ASSUME NEW i \in Places', NEW j \in Places', i <= j
                 PROVE  ring'[i][1] <= ring'[j][1]
      OBVIOUS
    <3>1. CASE j > Len(ring)
      <4>1. ring'[j][1] = remote.boot BY <1>2, <1>4, <3>1, TokenParts DEF Places
      <4>2. ring'[i] \in Tokens BY <1>2, <1>4, TokenParts
      <4> QED BY <1>8, <2>1, <4>1, <4>2
    <3>2. CASE ~(j > Len(ring))
      <4>1. i \in Places /\ j \in Places /\ ring'[i] = ring[i] /\ ring'[j] = ring[j]
        <5>1. Len(ring) \in Nat /\ i \in Nat /\ j \in Nat BY TokenParts DEF Places
        <5>2. ~(i > Len(ring)) BY <3>2, <5>1
        <5> QED BY <1>4, <3>2, <5>2
      <4> QED BY <4>1 DEF Sequenced
    <3> QED BY <3>1, <3>2
  <2>3. \A t \in Tokens : fired[t] > 0 =>
           NotAfter(t, Current) /\ \A i \in Places' : t[1] <= ring'[i][1]
    <3> SUFFICES ASSUME NEW t \in Tokens, fired[t] > 0, NEW i \in Places'
                 PROVE  NotAfter(t, Current) /\ t[1] <= ring'[i][1]
      BY DEF Sequenced
    <3>1. NotAfter(t, Current) /\ \A m \in Places : t[1] <= ring[m][1] BY DEF Sequenced
    <3>2. CASE i \in Places /\ ring'[i] = ring[i] BY <3>1, <3>2
    <3>3. CASE ring'[i] = h BY <1>2, <1>8, <3>1, <3>3
    <3> QED BY <1>4, <3>2, <3>3
  <2> QED BY <1>1, <1>7, <2>1, <2>2, <2>3 DEF Sequenced
<1>10. Known'
  <2> SUFFICES ASSUME NEW t \in Tokens, fired[t] > 0, t \notin history.paused, ~Overrun(t)
               PROVE  /\ ~Resting
                      /\ UnderWay(t) => Remembers(t, remote.late)
                      /\ \A f \in flying : f.token = t => Remembers(t, 1 + f.age)
                      /\ InRing(t)' => Remembers(t, 1 + Flight + unit.unread)
    BY <1>1, <1>5, <1>7 DEF Known, Resting, Remembers, Overrun, UnderWay
  <2>1. ASSUME InRing(t)' PROVE Remembers(t, 1 + Flight + unit.unread)
    <3>1. InRing(t) \/ t = h BY <1>4, <2>1 DEF InRing
    <3>2. CASE InRing(t) BY <3>2 DEF Known
    <3>3. CASE t = h
      <4>1. Remembers(t, 1 + frame.age) BY <3>3 DEF Known, h
      <4>2. /\ 1 + frame.age \in Nat /\ 1 + Flight + unit.unread \in Nat
            /\ 1 + frame.age <= 1 + Flight + unit.unread
        BY <1>2, TokenParts, Limits
      <4> QED BY <4>1, <4>2, RemembersMore
    <3> QED BY <3>1, <3>2, <3>3
  <2> QED BY <2>1 DEF Known
<1>11. Lasting'
  <2> SUFFICES ASSUME NEW i \in Places', ring'[i] \notin history'.held
               PROVE  ~Resting /\ ring'[i][1] = remote.boot
    BY <1>1, <1>7 DEF Lasting
  <2>1. CASE ring'[i] = h BY <1>2, <1>5, <2>1
  <2>2. CASE ring'[i] # h
    <3>1. i \in Places /\ ring'[i] = ring[i] /\ ring[i] \notin history.held BY <1>4, <1>5, <2>2
    <3>2. ~Recently(unit.unread) BY <1>3, Limits, TokenParts DEF Recently
    <3> QED BY <3>1, <3>2 DEF Lasting
  <2> QED BY <2>1, <2>2
<1>12. Traceable'
  <2> SUFFICES ASSUME NEW i \in Entries, unit.recent[i].age < Window
               PROVE  \E t \in Tokens : Traced(unit.recent[i], t)'
    BY <1>1, <1>7 DEF Traceable
  <2>1. PICK t \in Tokens : Traced(unit.recent[i], t) BY DEF Traceable
  <2>2. unit.recent[i].age \in Nat BY TokenParts
  <2>3. ~Recently(unit.recent[i].age + Stall) BY <1>3, <2>2, Limits DEF Recently
  <2>4. Traced(unit.recent[i], t)' BY <1>1, <1>5, <2>1, <2>3 DEF Traced
  <2> QED BY <2>4
<1>13. ExecutedOnce' /\ DropsOnlyRepeats' BY <1>1, <1>5 DEF ExecutedOnce, DropsOnlyRepeats, Overrun
<1> QED BY <1>1, <1>6, <1>9, <1>10, <1>11, <1>12, <1>13

-------------------------------------------------------------------------------
(* The receiver's steps *)

(* A step that takes frames out of the ring keeps their order. *)
LEMMA RingShrinks ==
    ASSUME TokenInv, Typed', NEW k \in 0..1, \A i \in Places' : i + k \in Places /\ ring'[i] = ring[i + k],
           UNCHANGED <<remote, flying, fired>>
    PROVE  Sequenced' /\ (\A n \in Nat : NoneAfter(n) => NoneAfter(n)')
<1>1. Current' = Current BY DEF Current
<1>2. \A i \in Places' : i \in Nat BY DEF Places
<1>3. \A i, j \in Places' : i <= j => ring'[i][1] <= ring'[j][1] BY <1>2 DEF TokenInv, Sequenced
<1>4. \A i \in Places' : NotAfter(ring'[i], Current) BY DEF TokenInv, Sequenced
<1>5. \A t \in Tokens : fired[t] > 0 =>
          NotAfter(t, Current) /\ \A i \in Places' : t[1] <= ring'[i][1]
  BY DEF TokenInv, Sequenced
<1>6. Sequenced' BY <1>1, <1>3, <1>4, <1>5 DEF TokenInv, Sequenced
<1>7. \A n \in Nat : NoneAfter(n) => NoneAfter(n)' BY DEF NoneAfter
<1> QED BY <1>6, <1>7

(* Its tail is the ring without its head. *)
LEMMA TailOfRing ==
    ASSUME Typed, ring # <<>>, ring' = Tail(ring)
    PROVE  /\ ring' \in Seq(Tokens) /\ Len(ring') = Len(ring) - 1 /\ Len(ring') \in Nat
           /\ 1 \in Places /\ Head(ring) = ring[1]
           /\ \A i \in Places' : i + 1 \in Places /\ ring'[i] = ring[i + 1]
<1>1. ring \in Seq(Tokens) /\ Len(ring) \in Nat \ {0} BY EmptySeq DEF Typed
<1>2. /\ ring' \in Seq(Tokens) /\ Len(ring') = Len(ring) - 1
      /\ \A i \in 1..Len(ring') : ring'[i] = ring[i + 1]
  BY <1>1, HeadTailProperties
<1>3. Head(ring) = ring[1] BY <1>1
<1> QED BY <1>1, <1>2, <1>3 DEF Places

LEMMA PauseGood ==
    ASSUME TokenInv, ring' \in Seq(Tokens), Len(ring') <= Ring,
           NEW k \in 0..1, \A i \in Places' : i + k \in Places /\ ring'[i] = ring[i + k],
           unit' \in Units, unit'.recent = unit.recent, UNCHANGED <<remote, flying, fired>>,
           \/ history' = Pausing
           \/ history' = history /\ Places' = {} /\ ~Resting'
    PROVE  TokenInv'
<1> USE DEF TokenInv
<1>1. /\ history' \in Histories /\ history'.dropped = history.dropped
      /\ history'.since = history.since
      /\ history.paused \subseteq history'.paused /\ history.held \subseteq history'.held
  <2>1. \A i \in Places : ring[i] \in Tokens BY TokenParts
  <2>2. ToSet(ring) \subseteq Tokens BY <2>1 DEF ToSet, Typed, Places
  <2> QED BY <2>2 DEF Pausing, Fired, Typed, Histories
<1>2. Typed' BY <1>1 DEF Typed
<1>3. Sequenced' /\ (\A n \in Nat : NoneAfter(n) => NoneAfter(n)') BY <1>2, RingShrinks
<1>4. Entries' = Entries BY DEF Entries
<1>5. Traceable'
  <2> SUFFICES ASSUME NEW i \in Entries, unit.recent[i].age < Window
               PROVE  \E t \in Tokens : Traced(unit.recent[i], t)'
    BY <1>4 DEF Traceable
  <2>1. PICK t \in Tokens : Traced(unit.recent[i], t) BY DEF Traceable
  <2>2. t[1] \in Nat BY TokenParts
  <2>3. Traced(unit.recent[i], t)' BY <1>1, <1>3, <2>1, <2>2 DEF Traced, Recently
  <2> QED BY <2>3
<1>6. ExecutedOnce' /\ DropsOnlyRepeats' BY <1>1 DEF ExecutedOnce, DropsOnlyRepeats, Overrun
<1>7. CASE history' = Pausing
  <2>1. /\ \A t \in Tokens : fired[t] > 0 => t \in history'.paused
        /\ ToSet(ring) \subseteq history'.held
    BY <1>7 DEF Pausing, Fired, Typed, Histories
  <2>2. Known' BY <2>1 DEF Known
  <2>3. \A i \in Places : ring[i] \in ToSet(ring) BY DEF ToSet, Typed, Places
  <2>4. \A i \in Places' : ring'[i] \in history'.held BY <2>1, <2>3
  <2>5. Lasting' BY <2>4 DEF Lasting
  <2> QED BY <1>2, <1>3, <1>5, <1>6, <2>2, <2>5
<1>8. CASE history' = history /\ Places' = {} /\ ~Resting'
  <2>1. Lasting' BY <1>8 DEF Lasting
  <2>2. Known'
    <3> SUFFICES ASSUME NEW t \in Tokens, fired[t] > 0, t \notin history.paused, ~Overrun(t)
                 PROVE  /\ UnderWay(t) => Remembers(t, remote.late)
                        /\ \A f \in flying : f.token = t => Remembers(t, 1 + f.age)
                        /\ ~InRing(t)'
      BY <1>8 DEF Known, Remembers, Overrun, UnderWay, Current
    <3>1. ~InRing(t)' BY <1>8 DEF InRing
    <3> QED BY <3>1 DEF Known
  <2> QED BY <1>2, <1>3, <1>5, <1>6, <2>1, <2>2
<1> QED BY <1>7, <1>8

LEMMA UnitPauses ==
    ASSUME Typed, NEW pause \in 0..Backoff, NEW bad \in BOOLEAN,
           unit' = [unit EXCEPT !.poisoned = bad, !.paused = pause, !.unread = 0]
    PROVE  unit' \in Units /\ unit'.recent = unit.recent /\ unit'.paused = pause /\ unit'.poisoned = bad
<1>1. unit \in Units /\ 0 \in 0..Stall BY Limits DEF Typed
<1> QED BY <1>1 DEF Units

LEMMA ErrorGood ==
    ASSUME TokenInv, NEW consumed \in BOOLEAN, ReadError(consumed)
    PROVE  TokenInv'
<1>1. /\ Typed /\ ring # <<>> /\ ring' = (IF consumed THEN Tail(ring) ELSE ring)
      /\ unit' = [unit EXCEPT !.paused = Backoff, !.unread = 0]
  BY DEF ReadError, Reading, TokenInv
<1>2. history' = Pausing /\ UNCHANGED <<remote, flying, fired>> BY DEF ReadError
<1>3. unit' \in Units /\ unit'.recent = unit.recent
  <2>1. unit \in Units /\ Backoff \in 0..Backoff BY <1>1, Limits DEF Typed
  <2>2. unit.poisoned \in BOOLEAN BY <2>1 DEF Units
  <2>3. unit' = [unit EXCEPT !.poisoned = unit.poisoned, !.paused = Backoff, !.unread = 0]
    BY <1>1, <2>1 DEF Units
  <2> QED BY <1>1, <2>1, <2>2, <2>3, UnitPauses
<1>4. CASE consumed
  <2>1. /\ ring' \in Seq(Tokens) /\ Len(ring') = Len(ring) - 1 /\ Len(ring') \in Nat
        /\ \A i \in Places' : i + 1 \in Places /\ ring'[i] = ring[i + 1]
    BY <1>1, <1>4, TailOfRing
  <2>2. Len(ring') <= Ring BY <1>1, <2>1, Limits, TokenParts DEF Typed
  <2> QED BY <1>2, <1>3, <2>1, <2>2, PauseGood
<1>5. CASE ~consumed
  <2>1. ring' = ring BY <1>1, <1>5
  <2>2. ring' \in Seq(Tokens) /\ Len(ring') <= Ring BY <1>1, <2>1 DEF Typed
  <2>3. \A i \in Places' : i + 0 \in Places /\ ring'[i] = ring[i + 0] BY <2>1 DEF Places
  <2> QED BY <1>2, <1>3, <2>2, <2>3, PauseGood
<1> QED BY <1>4, <1>5

LEMMA RebuildGood ==
    ASSUME TokenInv, NEW pause \in 0..Backoff, InvalidBuffer(pause)
    PROVE  TokenInv'
<1>1. /\ Typed /\ ring' = (IF pause = 0 THEN <<>> ELSE ring)
      /\ history' = (IF pause = 0 THEN history ELSE Pausing)
      /\ UNCHANGED <<remote, flying, fired>>
  BY DEF InvalidBuffer, TokenInv
<1>2. /\ unit' \in Units /\ unit'.recent = unit.recent
      /\ unit'.paused = pause /\ (unit'.poisoned <=> pause > 0)
  <2> DEFINE bad == pause > 0
  <2>1. bad \in BOOLEAN OBVIOUS
  <2>2. unit' = [unit EXCEPT !.poisoned = bad, !.paused = pause, !.unread = 0] BY DEF InvalidBuffer
  <2> HIDE DEF bad
  <2>3. unit' \in Units /\ unit'.recent = unit.recent /\ unit'.paused = pause /\ unit'.poisoned = bad
    BY <1>1, <2>1, <2>2, UnitPauses
  <2> QED BY <2>3 DEF bad
<1>3. CASE pause = 0
  <2>1. ring' \in Seq(Tokens) /\ Len(ring') = 0 /\ Places' = {} BY <1>1, <1>3, EmptySeq DEF Places
  <2>2. ~Resting' BY <1>2, <1>3 DEF Resting
  <2>3. \A i \in Places' : i + 0 \in Places /\ ring'[i] = ring[i + 0] BY <2>1
  <2> QED BY <1>1, <1>2, <1>3, <2>1, <2>2, <2>3, PauseGood, Limits
<1>4. CASE pause # 0
  <2>1. ring' = ring /\ history' = Pausing BY <1>1, <1>4
  <2>2. ring' \in Seq(Tokens) /\ Len(ring') <= Ring BY <1>1, <2>1 DEF Typed
  <2>3. \A i \in Places' : i + 0 \in Places /\ ring'[i] = ring[i + 0] BY <2>1 DEF Places
  <2> QED BY <1>1, <1>2, <2>1, <2>2, <2>3, PauseGood
<1> QED BY <1>3, <1>4

LEMMA AgedEntries ==
    ASSUME NEW recent \in Seq(Entry)
    PROVE  LET q == [i \in 1..Len(recent) |-> Aged(recent[i])]
           IN  /\ q \in Seq(Entry) /\ Len(q) = Len(recent)
               /\ \A i \in 1..Len(recent) :
                     /\ q[i].seq = recent[i].seq
                     /\ q[i].age = IF recent[i].age < Window THEN recent[i].age + 1 ELSE recent[i].age
<1> DEFINE n == Len(recent)
           q == [i \in 1..n |-> Aged(recent[i])]
<1>1. n \in Nat /\ \A i \in 1..n : recent[i] \in Entry BY LenProperties, ElementOfSeq
<1>2. \A e \in Entry : /\ Aged(e) \in Entry /\ Aged(e).seq = e.seq
                       /\ Aged(e).age = IF e.age < Window THEN e.age + 1 ELSE e.age
  <2> SUFFICES ASSUME NEW e \in Entry
               PROVE  /\ Aged(e) \in Entry /\ Aged(e).seq = e.seq
                      /\ Aged(e).age = IF e.age < Window THEN e.age + 1 ELSE e.age
    OBVIOUS
  <2> DEFINE a == IF e.age < Window THEN e.age + 1 ELSE e.age
  <2>1. e.age \in Ages BY DEF Entry
  <2>2. a \in Ages BY <2>1, Limits DEF Ages
  <2>3. Aged(e) = [e EXCEPT !.age = a] BY DEF Aged
  <2> HIDE DEF a
  <2>4. Aged(e) \in Entry /\ Aged(e).seq = e.seq /\ Aged(e).age = a BY <2>2, <2>3 DEF Entry
  <2> QED BY <2>4 DEF a
<1>3. \A i \in 1..n : Aged(recent[i]) \in Entry BY <1>1, <1>2
<1> HIDE DEF n
<1>4. q \in Seq(Entry) /\ Len(q) = n BY <1>1, <1>3
<1> QED BY <1>1, <1>2, <1>4 DEF n

(* Time: what the sender and the receiver count keeps pace with the ages.   *)
LEMMA ElapseGood == ASSUME TokenInv, TokenElapse PROVE TokenInv'
<1> USE DEF TokenInv
<1> DEFINE aged == [i \in 1..Len(unit.recent) |-> Aged(unit.recent[i])]
           unread == IF Reading THEN unit.unread + 1 ELSE 0
           paused == IF unit.paused > 0 THEN unit.paused - 1 ELSE 0
           late == IF remote.attempt > 0 THEN 1 ELSE 0
           rest == IF remote.rest > 0 THEN remote.rest - 1 ELSE 0
<1>1. /\ remote \in Remotes /\ unit \in Units /\ UNCHANGED <<ring, fired, history>>
      /\ remote.attempt > 0 => remote.late = 0
      /\ \A f \in flying : f.age < Flight
      /\ flying' = {[f EXCEPT !.age = f.age + 1] : f \in flying}
      /\ Reading => unit.unread < Stall
      /\ remote' = [remote EXCEPT !.late = late, !.rest = rest]
      /\ unit' = [unit EXCEPT !.recent = aged, !.unread = unread, !.paused = paused]
  BY DEF TokenElapse, Typed
<1>2. /\ late \in 0..1 /\ rest \in 0..Reboot
      /\ unread \in 0..Stall /\ paused \in 0..Backoff
  <2>1. remote.rest \in 0..Reboot /\ unit.paused \in 0..Backoff /\ unit.unread \in 0..Stall
    BY <1>1 DEF Remotes, Units
  <2> QED BY <1>1, <2>1, Limits
<1>3. /\ aged \in Seq(Entry) /\ Len(aged) = Len(unit.recent)
      /\ \A i \in Entries :
            /\ aged[i].seq = unit.recent[i].seq
            /\ aged[i].age = IF unit.recent[i].age < Window THEN unit.recent[i].age + 1
                                                           ELSE unit.recent[i].age
  <2>1. unit.recent \in Seq(Entry) BY <1>1 DEF Units
  <2> QED BY <2>1, AgedEntries DEF Entries
<1> HIDE DEF aged, unread, paused, late, rest
<1>4. /\ remote' \in Remotes /\ remote'.boot = remote.boot /\ remote'.seq = remote.seq
      /\ remote'.attempt = remote.attempt /\ remote'.sending = remote.sending
      /\ remote'.late = late /\ remote'.rest = rest
  BY <1>1, <1>2 DEF Remotes
<1>5. /\ unit' \in Units /\ unit'.recent = aged /\ unit'.unread = unread
      /\ unit'.paused = paused /\ unit'.poisoned = unit.poisoned
  BY <1>1, <1>2, <1>3 DEF Units
<1>5a. \A g \in flying' : g \in Flights /\ \E f \in flying : g.token = f.token /\ g.age = f.age + 1
  <2> TAKE g \in flying'
  <2>1. PICK f \in flying : g = [f EXCEPT !.age = f.age + 1] BY <1>1
  <2>2. f \in Flights /\ f.age + 1 \in 0..Flight
    <3>1. f.age \in Nat /\ f.age < Flight BY <1>1, TokenParts
    <3> QED BY <3>1, Limits DEF Typed
  <2>3. g \in Flights /\ g.token = f.token /\ g.age = f.age + 1 BY <2>1, <2>2 DEF Flights
  <2> QED BY <2>3
<1>6. Typed'
  <2>1. flying' \subseteq Flights BY <1>5a
  <2> QED BY <1>1, <1>3, <1>4, <1>5, <2>1 DEF Typed
<1>7. /\ Current' = Current /\ Places' = Places /\ Entries' = Entries
      /\ \A t : UnderWay(t)' = UnderWay(t) /\ InRing(t)' = InRing(t)
      /\ \A m : NoneAfter(m)' = NoneAfter(m)
  BY <1>1, <1>3, <1>4, <1>5 DEF Current, Places, Entries, UnderWay, InRing, NoneAfter
<1>8. /\ remote.rest > 0 => rest = remote.rest - 1
      /\ remote.rest = 0 => rest = 0
      /\ rest > 0 => remote.rest > 0
  BY <1>2, TokenParts DEF rest
<1>9. ~Resting => ~Resting'
  <2>1. unit.paused \in 0..Backoff BY <1>1 DEF Units
  <2> QED BY <1>5, <2>1, Limits DEF Resting, paused
<1>10. Sequenced'
  <2>1. \A g \in flying' : g.token[1] = remote.boot /\ g.token[2] <= remote.seq
    BY <1>5a DEF Sequenced
  <2> QED BY <1>1, <1>4, <1>7, <1>8, <2>1 DEF Sequenced
<1>11. Sorted(unit.recent)'
  <2> SUFFICES ASSUME NEW i \in Entries, NEW j \in Entries, i <= j
               PROVE  aged[i].age >= aged[j].age
    BY <1>3, <1>5 DEF Sorted, Entries
  <2>1. unit.recent[i].age >= unit.recent[j].age BY DEF Sorted, Entries
  <2>2. unit.recent[i].age \in Ages /\ unit.recent[j].age \in Ages BY TokenParts DEF Entry
  <2> QED BY <1>3, <2>1, <2>2, Limits DEF Ages
<1>12. \A i \in Places : ~Resting => unread = unit.unread + 1
  <2> SUFFICES ASSUME NEW i \in Places, ~Resting PROVE ring # <<>>
    BY DEF unread, Reading
  <2> QED BY EmptySeq DEF Places
(* What is remembered grows older by one. *)
<1>12a. ASSUME NEW t \in Tokens, NEW b \in Nat, Remembers(t, b)
        PROVE  Remembers(t, b + 1)'
  <2> DEFINE i == Len(unit.recent) - history.since[t]
  <2>1. i > 0 /\ unit.recent[i].seq = t[2] /\ unit.recent[i].age <= b BY <1>12a DEF Remembers
  <2>2. i \in Entries BY <2>1, TokenParts DEF Entries
  <2>3. unit.recent[i].age \in Nat BY <2>2, TokenParts
  <2>4. i = Len(unit'.recent) - history'.since[t] BY <1>1, <1>3, <1>5
  <2> HIDE DEF i
  <2>5. aged[i].seq = t[2] /\ aged[i].age <= b + 1 BY <1>3, <2>1, <2>2, <2>3
  <2> QED BY <1>5, <2>1, <2>4, <2>5 DEF Remembers
<1>13. Known'
  <2> SUFFICES ASSUME NEW t \in Tokens, fired[t] > 0, t \notin history.paused, ~Overrun(t)
               PROVE  /\ ~Resting'
                      /\ UnderWay(t) => Remembers(t, remote.late)'
                      /\ \A g \in flying' : g.token = t => Remembers(t, 1 + g.age)'
                      /\ InRing(t) => Remembers(t, 1 + Flight + unit.unread)'
    BY <1>1, <1>4, <1>7 DEF Known, Overrun, Remembers
  <2>1. /\ ~Resting
        /\ UnderWay(t) => Remembers(t, remote.late)
        /\ \A f \in flying : f.token = t => Remembers(t, 1 + f.age)
        /\ InRing(t) => Remembers(t, 1 + Flight + unit.unread)
    BY DEF Known
  <2>2. ASSUME UnderWay(t) PROVE Remembers(t, remote.late)'
    <3>1. remote.late = 0 /\ late = 0 + 1 BY <1>1, <2>2 DEF UnderWay, late
    <3>2. Remembers(t, 0) BY <2>1, <2>2, <3>1
    <3>3. Remembers(t, 0 + 1)' BY <1>12a, <3>2
    <3> QED BY <1>4, <3>1, <3>3 DEF Remembers
  <2>3. ASSUME NEW g \in flying', g.token = t PROVE Remembers(t, 1 + g.age)'
    <3>1. PICK f \in flying : g.token = f.token /\ g.age = f.age + 1 BY <1>5a
    <3>2. f.age \in Nat /\ 1 + f.age \in Nat /\ 1 + g.age = (1 + f.age) + 1 BY <3>1, TokenParts
    <3>3. Remembers(t, 1 + f.age) BY <2>1, <2>3, <3>1
    <3>4. Remembers(t, (1 + f.age) + 1)' BY <1>12a, <3>2, <3>3
    <3> QED BY <3>2, <3>4 DEF Remembers
  <2>4. ASSUME InRing(t) PROVE Remembers(t, 1 + Flight + unit.unread)'
    <3>1. unread = unit.unread + 1 BY <1>12, <2>1, <2>4 DEF InRing
    <3>2. unit.unread \in Nat BY TokenParts
    <3>3. PICK b \in Nat : b = 1 + Flight + unit.unread BY <3>2, Limits
    <3>4. Remembers(t, b) BY <2>1, <2>4, <3>3
    <3>5. Remembers(t, b + 1)' BY <1>12a, <3>4
    <3>6. 1 + Flight + unit'.unread = b + 1 BY <1>5, <3>1, <3>2, <3>3, Limits
    <3> QED BY <3>5, <3>6 DEF Remembers
  <2> QED BY <1>9, <2>1, <2>2, <2>3, <2>4
<1>14. Lasting'
  <2> SUFFICES ASSUME NEW i \in Places, ring[i] \notin history.held
               PROVE  ~Resting' /\ (ring[i][1] = remote.boot
                                     \/ (rest + unread >= Reboot /\ NoneAfter(ring[i][1])))
    BY <1>1, <1>4, <1>5, <1>7 DEF Lasting, Recently
  <2>1. ~Resting /\ (ring[i][1] = remote.boot
                        \/ (remote.rest + unit.unread >= Reboot /\ NoneAfter(ring[i][1])))
    BY DEF Lasting, Recently
  <2>2. remote.rest + unit.unread >= Reboot => rest + unread >= Reboot
    BY <1>8, <1>12, <2>1, TokenParts, Limits
  <2> QED BY <1>9, <2>1, <2>2
<1>15. Traceable'
  <2> SUFFICES ASSUME NEW i \in Entries, unit'.recent[i].age < Window
               PROVE  \E t \in Tokens : Traced(unit.recent[i], t)'
    BY <1>7 DEF Traceable
  <2>1. unit.recent[i].age \in Nat /\ remote.rest \in Nat BY TokenParts
  <2>2. /\ unit.recent[i].age < Window /\ unit'.recent[i].age = unit.recent[i].age + 1
        /\ unit'.recent[i].seq = unit.recent[i].seq
    BY <1>3, <1>5, <2>1, Limits
  <2>3. PICK t \in Tokens : Traced(unit.recent[i], t) BY <2>2 DEF Traceable
  <2>4. ASSUME remote.rest + (unit.recent[i].age + Stall) >= Reboot
        PROVE  rest + (unit'.recent[i].age + Stall) >= Reboot
    <3>1. remote.rest > 0 BY <2>1, <2>2, <2>4, Limits
    <3>2. rest = remote.rest - 1 BY <1>8, <3>1
    <3> QED BY <2>1, <2>2, <2>4, <3>2, Limits
  <2>5. t[2] = unit'.recent[i].seq BY <2>2, <2>3 DEF Traced
  <2>6. /\ fired[t] > 0
        /\ t[1] = remote.boot \/ t \in history.held
           \/ (rest + (unit'.recent[i].age + Stall) >= Reboot /\ NoneAfter(t[1]))
    BY <2>3, <2>4 DEF Traced, Recently
  <2>7. Traced(unit.recent[i], t)' BY <1>1, <1>4, <1>7, <2>5, <2>6 DEF Traced, Recently
  <2> QED BY <2>7
<1>16. ExecutedOnce' /\ DropsOnlyRepeats' BY <1>1 DEF ExecutedOnce, DropsOnlyRepeats, Overrun
<1> QED BY <1>6, <1>10, <1>11, <1>13, <1>14, <1>15, <1>16

(* What is read is remembered; a repeat is a repeat of something executed.  *)
LEMMA AcceptGood == ASSUME TokenInv, AcceptFrame PROVE TokenInv'
<1> USE DEF TokenInv
<1> DEFINE h == Head(ring)
           kept == Remembered(unit.recent)
           repeat == SeenRecently(kept, h[2])
           noted == Noted(kept, h[2])
           unread == IF Len(ring) = 1 THEN 0 ELSE unit.unread
           count == IF fired[h] = 0 THEN 1 ELSE 2
<1>1. /\ ~Resting /\ ring # <<>> /\ ring' = Tail(ring)
      /\ unit' = [unit EXCEPT !.recent = IF repeat THEN kept ELSE noted, !.unread = unread]
      /\ fired' = IF repeat THEN fired ELSE [fired EXCEPT ![h] = count]
      /\ history' = IF repeat THEN [history EXCEPT !.dropped = history.dropped \cup ({h} \ Fired)]
                              ELSE [history EXCEPT !.since = Following(h)]
      /\ UNCHANGED <<remote, flying>>
  BY DEF AcceptFrame, Reading
<1>2. /\ ring' \in Seq(Tokens) /\ Len(ring') = Len(ring) - 1 /\ Len(ring') \in Nat
      /\ 1 \in Places /\ h = ring[1]
      /\ \A i \in Places' : i + 1 \in Places /\ ring'[i] = ring[i + 1]
  BY <1>1, TailOfRing
<1>3. h \in Tokens /\ h[2] \in Seqs /\ InRing(h)
  <2>1. h \in Tokens BY <1>2, TokenParts
  <2> QED BY <1>2, <2>1 DEF Tokens, Seqs, InRing
<1>4. unit.recent \in Seq(Entry) /\ Len(unit.recent) <= MaxRecent /\ Len(unit.recent) \in Nat
  BY TokenParts DEF Typed, Units
<1>5. /\ kept \in Seq(Entry) /\ Len(kept) <= MaxRecent /\ Len(kept) \in Nat /\ Sorted(kept)
      /\ \A i \in 1..Len(kept) : kept[i].age < Window /\ \E j \in Entries : kept[i] = unit.recent[j]
      /\ \A d \in Nat : Len(unit.recent) - d > 0 /\ unit.recent[Len(unit.recent) - d].age < Window
            => Len(kept) - d > 0 /\ kept[Len(kept) - d] = unit.recent[Len(unit.recent) - d]
  <2>1. /\ kept \in Seq(Entry) /\ Len(kept) <= Len(unit.recent) /\ Sorted(kept)
        /\ \A i \in 1..Len(kept) : kept[i].age < Window /\ \E j \in Entries : kept[i] = unit.recent[j]
        /\ \A d \in Nat : Len(unit.recent) - d > 0 /\ unit.recent[Len(unit.recent) - d].age < Window
            => Len(kept) - d > 0 /\ kept[Len(kept) - d] = unit.recent[Len(unit.recent) - d]
    BY <1>4, RememberedKeeps DEF Entries
  <2>2. Len(kept) \in Nat BY <2>1, LenProperties
  <2> QED BY <1>4, <2>1, <2>2, Limits
<1> HIDE DEF kept
<1>6. /\ noted \in Seq(Entry) /\ Len(noted) <= MaxRecent /\ Sorted(noted)
      /\ Len(noted) > 0 /\ noted[Len(noted)] = [seq |-> h[2], age |-> 0]
      /\ \A d \in Nat : Len(kept) - d > 0 /\ d + 1 < MaxRecent
            => Len(noted) - (d + 1) > 0 /\ noted[Len(noted) - (d + 1)] = kept[Len(kept) - d]
      /\ \A i \in 1..Len(noted) : noted[i] = [seq |-> h[2], age |-> 0]
                                 \/ \E j \in 1..Len(kept) : noted[i] = kept[j]
  BY <1>3, <1>5, NotedKeeps
<1>7. repeat \in BOOLEAN /\ (repeat <=> \E i \in 1..Len(kept) : kept[i].seq = h[2])
  BY DEF SeenRecently
<1> HIDE DEF noted, repeat, h
<1>8. unread \in 0..Stall /\ count \in 1..2 BY Limits, TokenParts DEF Typed
<1> HIDE DEF unread
<1>9. /\ unit' \in Units /\ unit'.recent = (IF repeat THEN kept ELSE noted) /\ unit'.unread = unread
      /\ unit'.paused = unit.paused /\ unit'.poisoned = unit.poisoned
  <2> DEFINE recent == IF repeat THEN kept ELSE noted
  <2>1. recent \in Seq(Entry) BY <1>5, <1>6
  <2> HIDE DEF recent
  <2>2. unit' = [unit EXCEPT !.recent = recent, !.unread = unread] BY <1>1 DEF recent
  <2>3. unit \in Units BY DEF Typed
  <2>4. /\ unit' \in Units /\ unit'.recent = recent /\ unit'.unread = unread
        /\ unit'.paused = unit.paused /\ unit'.poisoned = unit.poisoned
    BY <1>8, <2>1, <2>2, <2>3 DEF Units
  <2> QED BY <2>4 DEF recent
<1>10. /\ history' \in Histories /\ history'.paused = history.paused /\ history'.held = history.held
       /\ history'.dropped = IF repeat THEN history.dropped \cup ({h} \ Fired) ELSE history.dropped
       /\ history'.since = IF repeat THEN history.since ELSE Following(h)
  <2>1. history \in Histories BY DEF Typed
  <2>2. Following(h) \in [Tokens -> 0..MaxRecent]
    <3>1. ASSUME NEW t \in Tokens, ~Overrun(t) PROVE history.since[t] + 1 \in 0..MaxRecent
      <4>1. history.since[t] \in Nat /\ history.since[t] <= MaxRecent BY TokenParts
      <4> QED BY <3>1, <4>1, Limits DEF Overrun
    <3> QED BY <3>1, Limits DEF Following
  <2> HIDE DEF Following
  <2>3. CASE repeat BY <1>1, <1>3, <2>1, <2>3 DEF Histories
  <2>4. CASE ~repeat BY <1>1, <2>1, <2>2, <2>4 DEF Histories
  <2> QED BY <1>7, <2>3, <2>4
<1>11. /\ fired' \in [Tokens -> 0..2]
       /\ \A t \in Tokens : fired'[t] = IF t = h /\ ~repeat THEN count ELSE fired[t]
  BY <1>1, <1>3, <1>7, <1>8 DEF Typed
<1>12. Typed'
  <2>1. Len(unit'.recent) <= MaxRecent BY <1>5, <1>6, <1>9
  <2>2. Len(ring') <= Ring BY <1>2, Limits, TokenParts DEF Typed
  <2> QED BY <1>1, <1>2, <1>9, <1>10, <1>11, <2>1, <2>2 DEF Typed
<1>13. /\ Current' = Current /\ ~Resting' /\ \A t : UnderWay(t)' = UnderWay(t)
       /\ remote' = remote /\ flying' = flying
  BY <1>1, <1>9 DEF Current, Resting, UnderWay
<1>14. (\A i \in Places' : h[1] <= ring'[i][1]) /\ NotAfter(h, Current)
  <2>1. \A i \in Places : 1 <= i BY DEF Places
  <2> QED BY <1>2, <2>1 DEF Sequenced
<1>15. Sequenced'
  <2>1. \A i \in Places' : i \in Nat BY DEF Places
  <2>2. \A i, j \in Places' : i <= j => ring'[i][1] <= ring'[j][1]
    <3> SUFFICES ASSUME NEW i \in Places', NEW j \in Places', i <= j
                 PROVE  ring'[i][1] <= ring'[j][1]
      OBVIOUS
    <3>1. i + 1 <= j + 1 /\ i + 1 \in Places /\ j + 1 \in Places BY <1>2, <2>1
    <3> QED BY <1>2, <3>1 DEF Sequenced
  <2>3. \A i \in Places' : NotAfter(ring'[i], Current) BY <1>2 DEF Sequenced
  <2>4. \A t \in Tokens : fired'[t] > 0 =>
            NotAfter(t, Current) /\ \A i \in Places' : t[1] <= ring'[i][1]
    <3> SUFFICES ASSUME NEW t \in Tokens, fired'[t] > 0
                 PROVE  NotAfter(t, Current) /\ \A i \in Places' : t[1] <= ring'[i][1]
      OBVIOUS
    <3>1. CASE t = h BY <1>14, <3>1
    <3>2. CASE t # h
      <4>1. fired[t] > 0 BY <1>11, <3>2
      <4> QED BY <1>2, <4>1 DEF Sequenced
    <3> QED BY <3>1, <3>2
  <2> QED BY <1>13, <2>2, <2>3, <2>4 DEF Sequenced
<1>16. \A n : NoneAfter(n) => NoneAfter(n)' BY <1>2 DEF NoneAfter
<1>17. Places' # {} => unread = unit.unread
  <2>1. Len(ring) = 1 => Len(ring') = 0 BY <1>2
  <2> QED BY <2>1 DEF Places, unread
(* What is remembered and not expired is kept, and known when it is read.   *)
<1>18. ASSUME NEW t \in Tokens, NEW b \in Nat, b < Window, Remembers(t, b)
       PROVE  /\ Len(kept) - history.since[t] > 0
              /\ kept[Len(kept) - history.since[t]].seq = t[2]
              /\ kept[Len(kept) - history.since[t]].age <= b
              /\ t = h => repeat
  <2> DEFINE d == history.since[t]
             i == Len(unit.recent) - d
  <2>1. i > 0 /\ unit.recent[i].seq = t[2] /\ unit.recent[i].age <= b BY <1>18 DEF Remembers
  <2>2. d \in Nat /\ i \in Entries BY <2>1, TokenParts DEF Entries
  <2>3. unit.recent[i].age < Window
    <3>1. unit.recent[i].age \in Nat BY <2>2, TokenParts
    <3> QED BY <1>18, <2>1, <3>1, Limits
  <2>4. Len(kept) - d > 0 /\ kept[Len(kept) - d] = unit.recent[i] BY <1>5, <2>1, <2>2, <2>3
  <2> HIDE DEF d, i
  <2>5. Len(kept) - d \in 1..Len(kept) BY <1>5, <2>2, <2>4
  <2>6. t = h => repeat BY <1>7, <2>1, <2>4, <2>5
  <2> QED BY <2>1, <2>4, <2>6 DEF d
<1>19. ASSUME NEW t \in Tokens, fired[t] > 0, t \notin history.paused, ~Overrun(t)
       PROVE  t = h => repeat
  <2>1. PICK b \in Nat : b = 1 + Flight + unit.unread /\ b < Window BY TokenParts, Limits
  <2>2. t = h => Remembers(t, b) BY <1>3, <1>19, <2>1 DEF Known
  <2> QED BY <1>18, <2>1, <2>2
<1>20. ASSUME NEW t \in Tokens, fired[t] > 0, t = h => repeat, ~Overrun(t)',
              NEW b \in Nat, b < Window, Remembers(t, b)
       PROVE  Remembers(t, b)'
  <2> DEFINE d == history.since[t]
  <2>1. /\ Len(kept) - d > 0 /\ kept[Len(kept) - d].seq = t[2] /\ kept[Len(kept) - d].age <= b
    BY <1>18, <1>20
  <2>2. d \in Nat BY TokenParts
  <2>3. CASE repeat BY <1>9, <1>10, <2>1, <2>3 DEF Remembers
  <2>4. CASE ~repeat
    <3>1. history'.since[t] = (IF Overrun(t) THEN MaxRecent ELSE d + 1)
      BY <1>10, <1>20, <2>4 DEF Following
    <3>2. history'.since[t] # MaxRecent BY <1>20 DEF Overrun
    <3>3. history'.since[t] = d + 1 /\ d + 1 < MaxRecent
      BY <2>2, <3>1, <3>2, TokenParts, Limits DEF Overrun
    <3> HIDE DEF d
    <3>4. Len(noted) - (d + 1) > 0 /\ noted[Len(noted) - (d + 1)] = kept[Len(kept) - d]
      BY <1>6, <2>1, <2>2, <3>3
    <3>5. unit'.recent = noted BY <1>9, <2>4
    <3> QED BY <2>1, <3>3, <3>4, <3>5 DEF Remembers
  <2> QED BY <1>7, <2>3, <2>4
<1>21. ASSUME NEW t \in Tokens, ~Overrun(t)' PROVE ~Overrun(t)
  <2>1. CASE repeat BY <1>10, <1>21, <2>1 DEF Overrun
  <2>2. CASE ~repeat
    <3>1. history'.since[t] = MaxRecent \/ ~Overrun(t) BY <1>10, <2>2 DEF Following
    <3> QED BY <1>21, <3>1 DEF Overrun
  <2> QED BY <1>7, <2>1, <2>2
<1>22. Known'
  <2> SUFFICES ASSUME NEW t \in Tokens, fired'[t] > 0, t \notin history.paused, ~Overrun(t)'
               PROVE  /\ UnderWay(t) => Remembers(t, remote.late)'
                      /\ \A f \in flying : f.token = t => Remembers(t, 1 + f.age)'
                      /\ InRing(t)' => Remembers(t, 1 + Flight + unit.unread)'
    BY <1>10, <1>13 DEF Known
  <2>1. ~Overrun(t) BY <1>21
  <2>2. InRing(t)' => InRing(t) /\ unread = unit.unread BY <1>2, <1>17 DEF InRing
  <2>3. CASE fired[t] > 0
    <3>1. t = h => repeat BY <1>19, <2>1, <2>3
    <3>2. /\ UnderWay(t) => Remembers(t, remote.late)
          /\ \A f \in flying : f.token = t => Remembers(t, 1 + f.age)
          /\ InRing(t) => Remembers(t, 1 + Flight + unit.unread)
      BY <2>1, <2>3 DEF Known
    <3>3. ASSUME NEW b \in Nat, b < Window, Remembers(t, b) PROVE Remembers(t, b)'
      BY <1>20, <2>3, <3>1, <3>3
    <3>4. ASSUME UnderWay(t) PROVE Remembers(t, remote.late)'
      <4>1. PICK b \in Nat : b = remote.late /\ b < Window BY TokenParts, Limits
      <4>2. Remembers(t, b) BY <3>2, <3>4, <4>1
      <4>3. Remembers(t, b)' BY <3>3, <4>1, <4>2
      <4> QED BY <1>13, <4>1, <4>3 DEF Remembers
    <3>5. ASSUME NEW f \in flying, f.token = t PROVE Remembers(t, 1 + f.age)'
      <4>1. 1 + f.age \in Nat /\ 1 + f.age < Window BY TokenParts, Limits
      <4>2. Remembers(t, 1 + f.age) BY <3>2, <3>5
      <4> QED BY <3>3, <4>1, <4>2 DEF Remembers
    <3>6. ASSUME InRing(t)' PROVE Remembers(t, 1 + Flight + unit.unread)'
      <4>1. PICK b \in Nat : b = 1 + Flight + unit.unread /\ b < Window BY TokenParts, Limits
      <4>2. Remembers(t, b) BY <2>2, <3>2, <3>6, <4>1
      <4>3. Remembers(t, b)' BY <3>3, <4>1, <4>2
      <4>4. 1 + Flight + unit'.unread = b BY <1>9, <2>2, <3>6, <4>1
      <4> QED BY <4>3, <4>4 DEF Remembers
    <3> QED BY <3>4, <3>5, <3>6
  <2>4. CASE ~(fired[t] > 0)
    <3>1. t = h /\ ~repeat /\ fired[t] = 0 BY <1>11, <2>4, TokenParts
    <3>2. unit'.recent = noted /\ history'.since[t] = 0
      BY <1>9, <1>10, <2>1, <3>1 DEF Following
    <3>3. Len(noted) \in Nat /\ Len(noted) - 0 = Len(noted) BY <1>6, LenProperties
    <3>4. \A b \in Nat : Len(noted) > 0 /\ noted[Len(noted)].seq = t[2] /\ noted[Len(noted)].age <= b
      BY <1>6, <3>1
    <3>5. /\ remote'.late \in Nat /\ 1 + Flight + unit'.unread \in Nat
          /\ \A f \in flying : 1 + f.age \in Nat
      BY <1>8, <1>9, <1>13, TokenParts, Limits
    <3> QED BY <3>2, <3>3, <3>4, <3>5 DEF Remembers
  <2> QED BY <2>3, <2>4
<1>22a. Sorted(unit.recent)' BY <1>5, <1>6, <1>9
<1>23. Lasting'
  <2> SUFFICES ASSUME NEW i \in Places', ring'[i] \notin history.held
               PROVE  ring'[i][1] = remote.boot
                        \/ (remote.rest + unread >= Reboot /\ NoneAfter(ring[i][1])')
    BY <1>9, <1>10, <1>13 DEF Lasting, Recently
  <2>1. i + 1 \in Places /\ ring'[i] = ring[i + 1] BY <1>2
  <2>2. unread = unit.unread BY <1>17
  <2>3. ring[i + 1][1] = remote.boot
           \/ (remote.rest + unit.unread >= Reboot /\ NoneAfter(ring[i + 1][1]))
    BY <2>1 DEF Lasting, Recently
  <2>4. NoneAfter(ring[i + 1][1]) => NoneAfter(ring[i][1])' BY <1>16, <2>1 DEF NoneAfter
  <2> QED BY <2>1, <2>2, <2>3, <2>4
(* An entry that was kept names what it named before. *)
<1>24. ASSUME NEW i \in 1..Len(kept)
       PROVE  \E t \in Tokens : Traced(kept[i], t) /\ kept[i].age < Window /\ kept[i].age \in Nat
  <2>1. PICK j \in Entries : kept[i] = unit.recent[j] BY <1>5
  <2>2. kept[i].age < Window BY <1>5
  <2> QED BY <2>1, <2>2, TokenParts DEF Traceable
<1>25. ASSUME NEW e, NEW t \in Tokens, Traced(e, t)
       PROVE  /\ fired'[t] > 0 /\ t[2] = e.seq
              /\ t[1] = remote.boot \/ t \in history.held
                 \/ (Recently(e.age + Stall) /\ \A i \in Places' : ring'[i][1] <= t[1])
  <2>1. fired'[t] > 0 BY <1>11, <1>25, TokenParts DEF Traced
  <2>2. NoneAfter(t[1]) => \A i \in Places' : ring'[i][1] <= t[1] BY <1>2 DEF NoneAfter
  <2> QED BY <1>25, <2>1, <2>2 DEF Traced
<1>26. ~repeat => /\ fired'[h] > 0
                  /\ h[1] = remote.boot \/ h \in history.held
                     \/ (Recently(0 + Stall) /\ \A i \in Places' : ring'[i][1] <= h[1])
  <2> SUFFICES ASSUME ~repeat
               PROVE  /\ fired'[h] > 0
                      /\ h[1] = remote.boot \/ h \in history.held
                         \/ (Recently(0 + Stall) /\ \A i \in Places' : ring'[i][1] <= h[1])
    OBVIOUS
  <2>1. fired'[h] > 0 BY <1>3, <1>11, TokenParts
  <2>2. h[1] = remote.boot \/ h \in history.held \/ (Recently(unit.unread) /\ NoneAfter(h[1]))
    BY <1>2 DEF Lasting
  <2>3. Recently(unit.unread) => Recently(0 + Stall) BY TokenParts, Limits DEF Recently
  <2>4. NoneAfter(h[1]) => \A i \in Places' : ring'[i][1] <= h[1] BY <1>2 DEF NoneAfter
  <2> QED BY <2>1, <2>2, <2>3, <2>4
<1>27. Traceable'
  <2> SUFFICES ASSUME NEW i \in Entries', unit'.recent[i].age < Window
               PROVE  \E t \in Tokens : Traced(unit.recent[i], t)'
    BY DEF Traceable
  <2>1. \/ unit'.recent[i] = [seq |-> h[2], age |-> 0] /\ ~repeat
        \/ \E j \in 1..Len(kept) : unit'.recent[i] = kept[j]
    BY <1>6, <1>9 DEF Entries
  <2>2. CASE unit'.recent[i] = [seq |-> h[2], age |-> 0] /\ ~repeat
    <3>1. unit'.recent[i].seq = h[2] /\ unit'.recent[i].age = 0 BY <2>2
    <3>2. PICK t \in Tokens : t = h BY <1>3
    <3>3. Traced(unit.recent[i], t)'
      BY <1>10, <1>13, <1>26, <2>2, <3>1, <3>2 DEF Traced, Recently, NoneAfter
    <3> QED BY <3>3
  <2>3. CASE \E j \in 1..Len(kept) : unit'.recent[i] = kept[j]
    <3>1. PICK j \in 1..Len(kept) : unit'.recent[i] = kept[j] BY <2>3
    <3>2. PICK t \in Tokens : Traced(kept[j], t) BY <1>24
    <3>3. /\ fired'[t] > 0 /\ t[2] = kept[j].seq
          /\ t[1] = remote.boot \/ t \in history.held
             \/ (Recently(kept[j].age + Stall) /\ \A l \in Places' : ring'[l][1] <= t[1])
      BY <1>25, <3>2
    <3>4. Traced(unit.recent[i], t)' BY <1>10, <1>13, <3>1, <3>3 DEF Traced, Recently, NoneAfter
    <3> QED BY <3>4
  <2> QED BY <2>1, <2>2, <2>3
<1>28. ExecutedOnce'
  <2> SUFFICES ASSUME NEW t \in Tokens, fired'[t] > 1, t \notin history.paused, ~Overrun(t)'
               PROVE  fired[t] > 1
    BY <1>10, <1>21 DEF ExecutedOnce
  <2>1. ~Overrun(t) BY <1>21
  <2>2. CASE t = h /\ ~repeat
    <3>1. ~(fired[t] > 0) BY <1>19, <2>1, <2>2
    <3>2. fired[h] = 0 BY <2>2, <3>1, TokenParts
    <3>3. fired'[t] = 1 BY <1>11, <2>2, <3>2
    <3> QED BY <3>3
  <2>3. CASE ~(t = h /\ ~repeat) BY <1>11, <2>3
  <2> QED BY <2>2, <2>3
<1>29. DropsOnlyRepeats'
  <2> SUFFICES ASSUME NEW t \in history'.dropped
               PROVE  \E old \in history.held : old[1] < t[1] /\ old[2] = t[2]
    BY <1>10 DEF DropsOnlyRepeats
  <2>1. CASE t \in history.dropped BY <2>1 DEF DropsOnlyRepeats
  <2>2. CASE t \notin history.dropped
    <3>1. t = h /\ repeat /\ h \notin Fired BY <1>10, <2>2
    <3>2. PICK i \in 1..Len(kept) : kept[i].seq = h[2] BY <1>7, <3>1
    <3>3. PICK o \in Tokens : Traced(kept[i], o) BY <1>24
    <3>4. fired[o] > 0 /\ o[2] = h[2] /\ o # h BY <3>1, <3>2, <3>3 DEF Traced, Fired
    <3>5. o[1] <= h[1] BY <1>2, <3>4 DEF Sequenced
    <3>6. o[1] < h[1]
      <4>1. o[1] # h[1] BY <1>3, <3>4 DEF Tokens
      <4> QED BY <1>3, <3>5, <4>1, TokenParts
    <3>7. h[1] <= remote.boot BY <1>14, <1>3, TokenParts DEF NotAfter
    <3>8. ~NoneAfter(o[1]) BY <1>2, <1>3, <3>6, TokenParts DEF NoneAfter
    <3>9. o[1] # remote.boot BY <1>3, <3>6, <3>7, TokenParts
    <3>10. o \in history.held BY <3>3, <3>8, <3>9 DEF Traced
    <3> QED BY <3>1, <3>4, <3>6, <3>10
  <2> QED BY <2>1, <2>2
<1> QED BY <1>12, <1>15, <1>22, <1>22a, <1>23, <1>27, <1>28, <1>29

-------------------------------------------------------------------------------
(* What holds of every token *)

(* Whatever the radio repeats, delays or lets land behind a newer token, an *)
(* executed token of which a copy may still come is in the receiver's       *)
(* memory, as far from its end as tokens were executed since, and its entry *)
(* is younger than the window: until a pause or an overrun of the memory.   *)
THEOREM TokensRemembered == TokenSpec => []TokenInv
<1>1. TokenInv /\ [TokenNext]_tokenVars => TokenInv'
  <2> SUFFICES ASSUME TokenInv, [TokenNext]_tokenVars PROVE TokenInv'
    OBVIOUS
  <2>1. CASE Press BY <2>1, PressGood
  <2>2. CASE SendAttempt BY <2>2, SendGood
  <2>3. CASE SendRefused \/ AttemptOver BY <2>3, RetryGood
  <2>4. CASE RemoteRestart BY <2>4, RestartGood
  <2>5. CASE \E frame \in flying : Land(frame) \/ \E ack \in BOOLEAN : OnSent(frame, ack)
    BY <2>5, LandGood, SentGood
  <2>6. CASE AcceptFrame BY <2>6, AcceptGood
  <2>7. CASE \E consumed \in BOOLEAN : ReadError(consumed) BY <2>7, ErrorGood
  <2>8. CASE \E pause \in 0..Backoff : InvalidBuffer(pause) BY <2>8, RebuildGood
  <2>9. CASE TokenElapse BY <2>9, ElapseGood
  <2>10. CASE UNCHANGED tokenVars
    <3> USE <2>10 DEF tokenVars, TokenInv
    <3>0. Typed' BY DEF Typed
    <3>1. Sequenced' BY DEF Sequenced, NotAfter, Current, Places
    <3>2. Known'
      BY DEF Known, Resting, Remembers, Overrun, UnderWay, InRing, Places, Current
    <3>3. Lasting' /\ Traceable'
      BY DEF Lasting, Traceable, Traced, Recently, NoneAfter, Resting, Entries, Places
    <3>4. ExecutedOnce' /\ DropsOnlyRepeats' BY DEF ExecutedOnce, DropsOnlyRepeats, Overrun
    <3> QED BY <3>0, <3>1, <3>2, <3>3, <3>4
  <2> QED BY <2>1, <2>2, <2>3, <2>4, <2>5, <2>6, <2>7, <2>8, <2>9, <2>10 DEF TokenNext
<1> QED BY <1>1, InitGood, PTL DEF TokenSpec

(* The ring, the memory, the frames in the air and the counters of both     *)
(* devices have their types.                                                *)
THEOREM TokensTyped == TokenSpec => []TokenTypeOK
<1>1. TokenInv => TokenTypeOK
  <2> SUFFICES ASSUME Typed PROVE TokenTypeOK
    BY DEF TokenInv
  <2>1. /\ remote.boot \in 1..MaxBoots /\ remote.seq \in 0..MaxSeq /\ remote.attempt \in 0..Tries
        /\ unit.paused \in 0..Backoff /\ unit.unread \in 0..Stall
    BY DEF Typed, Remotes, Units
  <2>2. \A i \in 1..Len(ring) : ring[i] \in Tokens BY TokenParts DEF Places
  <2>3. \A f \in flying : f.token \in Tokens /\ f.try \in 1..Tries /\ f.age \in 0..Flight
    <3>1. \A f \in flying : f \in Flights BY DEF Typed
    <3> QED BY <3>1 DEF Flights
  <2> QED BY <2>1, <2>2, <2>3 DEF TokenTypeOK, Typed
<1> QED BY <1>1, TokensRemembered, PTL

(* A press is executed once, in whatever order its copies and those of newer *)
(* tokens land, unless reception was paused or the memory was overrun        *)
(* between two of its copies.                                                *)
THEOREM OncePerPress == TokenSpec => []ExecutedOnce
<1>1. TokenInv => ExecutedOnce BY DEF TokenInv
<1> QED BY <1>1, TokensRemembered, PTL

(* What is dropped as a repeat was executed, or is taken for a token that a *)
(* pause held back.                                                         *)
THEOREM RepeatsAreRepeats == TokenSpec => []DropsOnlyRepeats
<1>1. TokenInv => DropsOnlyRepeats BY DEF TokenInv
<1> QED BY <1>1, TokensRemembered, PTL


-------------------------------------------------------------------------------
(* Now Playing *)

Pieces == [index : Nat, content : Contents, session : Nat, number : Nat]
Frames == [session : Nat, number : Nat, content : Contents, index : Nat, delay : Nat, born : Nat]
Publishers ==
    [session : 1..MaxSessions, number : 0..MaxNumber, source : Contents, content : Contents,
     index : Nat, started : 0..Deadline, wait : 0..Period, aux : 0..MaxAux]
Assemblies ==
    [active : BOOLEAN, resync : BOOLEAN, session : Nat, number : Nat, content : Contents,
     age : 0..Fresh, pieces : SUBSET Pieces]
Models ==
    [have : BOOLEAN, session : Nat, number : Nat, content : Contents, age : 0..Fresh,
     pieces : SUBSET Pieces, assembly : Assemblies, retired : Nat]

(* A snapshot n of session s that the publisher t has encoded; while the    *)
(* link is disturbed the numbers of a session only grow.                    *)
Named(s, n, t, c) ==
    /\ s \in 1..t.session /\ n \in 1..MaxNumber
    /\ ~c \/ s < t.session => n <= CalmBy
    /\ ~c /\ s = t.session => n <= t.number

PublisherOK(t, c) ==
    /\ t \in Publishers /\ t.index < Count[t.content]
    /\ t.index > 0 => t.number > 0
    /\ ~c => t.number <= CalmBy

FrameOK(f, t, c) ==
    /\ f \in Frames /\ f.index < Count[f.content]
    /\ f.delay <= Transit /\ f.born < f.delay + Deadline
    /\ Named(f.session, f.number, t, c)

InBootOrder(w) == \A i \in 1..Len(w), j \in 1..Len(w) : i < j => w[i].session <= w[j].session

AirOK(w, t, c) ==
    /\ w \in Seq(Frames) /\ Len(w) <= Capacity /\ InBootOrder(w)
    /\ \A i \in 1..Len(w) : FrameOK(w[i], t, c)

(* The pieces of an assembly are cut from its snapshot, none twice. *)
Collected(a) ==
    /\ IsFiniteSet(a.pieces)
    /\ \A p \in a.pieces : /\ p.session = a.session /\ p.number = a.number /\ p.content = a.content
                           /\ p.index < Count[a.content]
    /\ \A p \in a.pieces, q \in a.pieces : p.index = q.index => p = q

AssemblyOK(a, t, c) ==
    /\ a \in Assemblies /\ Collected(a)
    /\ a.active => Named(a.session, a.number, t, c)

Whole(r) ==
    r.have => /\ {p.index : p \in r.pieces} = 0..Count[r.content] - 1
              /\ \A p \in r.pieces : p.session = r.session /\ p.number = r.number /\ p.content = r.content

ModelOK(r, t, c) ==
    /\ r \in Models /\ Whole(r) /\ AssemblyOK(r.assembly, t, c)
    /\ r.have => Named(r.session, r.number, t, c)
    /\ ~r.have => r.session = NoSession /\ r.retired = NoSession

(* What is still to come is not older than what is shown, unless it is of   *)
(* the session retired last, and a frame sent since the last commit is of   *)
(* no earlier snapshot.                                                     *)
Ahead(r, w) ==
    r.have =>
        /\ \A i \in 1..Len(w) : w[i].session >= r.session \/ w[i].session = r.retired
        /\ \A i \in 1..Len(w) : w[i].session = r.session /\ w[i].delay < r.age => w[i].number >= r.number
        /\ r.assembly.active =>
              \/ r.assembly.session > r.session
              \/ r.assembly.session = r.session /\ r.assembly.number > r.number

Recent(r, b) == r.have /\ r.age < Fresh => b < r.age + Deadline + Transit

(* A number of the present session the panel may still meet: the one in     *)
(* use, those under way and that of the assembly, with their greatest age.  *)
Live(n, age, t, w, r) ==
    \/ n = t.number /\ age = 1
    \/ \E i \in 1..Len(w) : w[i].session = t.session /\ n = w[i].number /\ age = w[i].born + 1
    \/ /\ r.assembly.active /\ r.assembly.age < Fresh /\ r.assembly.session = t.session
       /\ n = r.assembly.number /\ age = r.assembly.age + Deadline + Transit

(* While a number lives that comes round again, the sequence has not gone   *)
(* round, and it will not before that number is forgotten.                  *)
Lasts(n, age, t, w, r, k) ==
    /\ t.number + k <= n + CalmBy + Budget * age
    /\ \A m, b \in Nat : Live(m, b, t, w, r) => m <= t.number
Unwrapped(t, w, r, k) ==
    MaxNumber # Modulus =>
        \A n, age \in Nat : Live(n, age, t, w, r) /\ n + Modulus <= MaxNumber => Lasts(n, age, t, w, r, k)

PathOK(t, w, r, b, k, c) ==
    /\ c \in BOOLEAN /\ k \in 0..Budget /\ b \in 0..Horizon
    /\ PublisherOK(t, c) /\ AirOK(w, t, c) /\ ModelOK(r, t, c)
    /\ Recent(r, b) /\ (~c => Ahead(r, w))
    /\ Unwrapped(t, w, r, k)

PathInv == PathOK(tx, air, rx, born, slots, calm)

-------------------------------------------------------------------------------
(* Sequence numbers *)

LEMMA SmallResidue ==
    ASSUME NEW n \in Nat, NEW m \in Nat, n < m
    PROVE  n % m = n
OBVIOUS

LEMMA SameResidue ==
    ASSUME NEW a \in Nat, NEW b \in Nat, NEW m \in Nat \ {0}, a % m = b % m, a < b
    PROVE  a + m <= b
<1> DEFINE p == a \div m
           q == b \div m
<1>1. p \in Int /\ q \in Int /\ a = m * p + (a % m) /\ b = m * q + (b % m) OBVIOUS
<1>2. b - a = m * (q - p) BY <1>1
<1> HIDE DEF p, q
<1>3. q - p >= 1
  <2>1. ASSUME q - p <= 0 PROVE FALSE
    <3>1. m * (q - p) <= 0 BY <1>1, <2>1
    <3> QED BY <1>2, <3>1
  <2> QED BY <1>1, <2>1
<1>4. m * (q - p) >= m BY <1>1, <1>3
<1> QED BY <1>2, <1>4

LEMMA NewerIsLater ==
    ASSUME NEW p \in 1..CalmBy, NEW c \in 1..CalmBy, Newer(c, p)
    PROVE  c > p
<1>1. CalmBy \in Nat /\ Modulus \in Nat \ {0} /\ CalmBy < Modulus /\ 2 * CalmBy <= Modulus + 2
  BY LinkAssumption, SequenceAssumption, ModulusAssumption
<1>2. WireSeq(c) = c /\ WireSeq(p) = p BY <1>1, SmallResidue DEF WireSeq
<1>3. (c + Modulus - p) % Modulus # 0 /\ (c + Modulus - p) % Modulus < Modulus \div 2
  BY <1>2 DEF Newer
<1> SUFFICES ASSUME c <= p PROVE FALSE
  BY <1>1
<1>4. CASE c = p
  <2>1. Modulus % Modulus = 0 BY <1>1
  <2>2. c + Modulus - p = Modulus BY <1>1, <1>4
  <2> QED BY <1>3, <2>1, <2>2
<1>5. CASE c < p
  <2>1. c + Modulus - p \in Nat /\ c + Modulus - p < Modulus BY <1>1, <1>5
  <2>2. (c + Modulus - p) % Modulus = c + Modulus - p BY <1>1, <2>1, SmallResidue
  <2>3. 2 * (p - c) <= Modulus BY <1>1, <1>5
  <2>4. 2 * (Modulus \div 2) <= Modulus BY <1>1
  <2> QED BY <1>1, <1>3, <2>2, <2>3, <2>4
<1> QED BY <1>1, <1>4, <1>5

-------------------------------------------------------------------------------
(* The publisher *)

(* The publisher goes on, or it is restarted in the midst of a disturbance. *)
Later(t, c, u, d) ==
    /\ ~d => ~c
    /\ \/ u.session = t.session /\ (~d => u.number >= t.number)
       \/ u.session > t.session /\ ~c

LEMMA NamedLater ==
    ASSUME NEW s, NEW n, NEW t, NEW c, NEW u, NEW d, Named(s, n, t, c), Later(t, c, u, d),
           t.session \in Nat, u.session \in Nat, t.number \in Nat, u.number \in Nat
    PROVE  Named(s, n, u, d)
BY DEF Named, Later

LEMMA Constants ==
    /\ Modulus \in Nat \ {0} /\ MaxNumber \in Nat /\ MaxNumber >= Modulus
    /\ Period \in Nat \ {0} /\ Deadline \in Nat \ {0} /\ MaxAux \in Nat
    /\ MaxSessions \in Nat \ {0} /\ Budget \in Nat \ {0} /\ Capacity \in Nat \ {0}
    /\ Transit \in Nat /\ Fresh \in Nat \ {0} /\ CalmBy \in Nat
    /\ Transit < Fresh /\ CalmBy <= MaxNumber /\ CalmBy < Modulus
    /\ AnyContent \in Contents
    /\ \A c \in Contents : Count[c] \in Nat \ {0}
BY ModulusAssumption, NumberAssumption, TimingAssumption, FreshAssumption, LinkAssumption,
   SequenceAssumption, ContentAssumption DEF AnyContent

LEMMA FirstKeeps ==
    ASSUME NEW s \in 1..MaxSessions, NEW c
    PROVE  LET u == InitPublisher(s)
           IN  PublisherOK(u, c) /\ u.session = s
<1> DEFINE u == InitPublisher(s)
<1>1. u \in Publishers BY Constants DEF InitPublisher, Publishers
<1>2. u.session = s /\ u.index = 0 /\ u.number = 0 /\ u.content = AnyContent BY DEF InitPublisher
<1> HIDE DEF u
<1> QED BY <1>1, <1>2, Constants DEF PublisherOK, u

(* What leaves the snapshot and its number alone. *)
LEMMA StirsKeep ==
    ASSUME NEW t, NEW c, PublisherOK(t, c)
    PROVE  /\ \A x \in Contents, restart \in BOOLEAN :
                 LET u == Observed(t, x, restart)
                 IN  PublisherOK(u, c) /\ u.session = t.session /\ u.number = t.number
           /\ LET u == Lapsed(t)
              IN  /\ PublisherOK(u, c) /\ u.session = t.session /\ u.number = t.number
                  /\ u.index > 0 => u.started < Deadline
           /\ LET u == AgedPublisher(t)
              IN  PublisherOK(u, c) /\ u.session = t.session /\ u.number = t.number
           /\ t.aux < MaxAux =>
                 LET u == [t EXCEPT !.aux = @ + 1]
                 IN  PublisherOK(u, c) /\ u.session = t.session /\ u.number = t.number
<1>1. t \in Publishers /\ t.index < Count[t.content] /\ t.index \in Nat /\ t.started \in 0..Deadline
      /\ t.wait \in 0..Period /\ t.content \in Contents /\ t.aux \in 0..MaxAux
  BY DEF PublisherOK, Publishers
<1>2. 0 < Count[t.content] /\ 0 \in 0..Period /\ Deadline \in Nat \ {0} /\ MaxAux \in Nat
      /\ ~(0 > 0) /\ Count[t.content] \in Nat /\ Period \in Nat
  BY <1>1, Constants
<1>3. ASSUME NEW x \in Contents, NEW restart \in BOOLEAN
      PROVE  LET u == Observed(t, x, restart)
             IN  PublisherOK(u, c) /\ u.session = t.session /\ u.number = t.number
  <2> DEFINE i == IF restart THEN 0 ELSE t.index
             u == [t EXCEPT !.source = x, !.index = i, !.wait = 0]
  <2>1. Observed(t, x, restart) = u BY DEF Observed
  <2>2. i \in Nat /\ i < Count[t.content] /\ (i > 0 => t.index > 0) BY <1>1, <1>2
  <2> HIDE DEF i
  <2>3. u \in Publishers BY <1>1, <1>2, <2>2 DEF Publishers
  <2>4. u.session = t.session /\ u.number = t.number /\ u.index = i /\ u.content = t.content
    BY <1>1 DEF Publishers
  <2> HIDE DEF u
  <2> QED BY <2>1, <2>2, <2>3, <2>4 DEF PublisherOK
<1>4. LET u == Lapsed(t)
      IN  /\ PublisherOK(u, c) /\ u.session = t.session /\ u.number = t.number
          /\ u.index > 0 => u.started < Deadline
  <2> DEFINE u == [t EXCEPT !.index = 0, !.wait = 0]
  <2>1. u \in Publishers BY <1>1, <1>2 DEF Publishers
  <2>2. u.session = t.session /\ u.number = t.number /\ u.index = 0 /\ u.content = t.content
    BY <1>1 DEF Publishers
  <2> HIDE DEF u
  <2>3. PublisherOK(u, c) BY <1>2, <2>1, <2>2 DEF PublisherOK
  <2>4. CASE t.index > 0 /\ t.started >= Deadline
    <3>1. Lapsed(t) = u BY <2>4 DEF Lapsed, u
    <3> QED BY <1>2, <2>2, <2>3, <3>1
  <2>5. CASE ~(t.index > 0 /\ t.started >= Deadline)
    <3>1. Lapsed(t) = t BY <2>5 DEF Lapsed
    <3> QED BY <1>1, <1>2, <2>5, <3>1
  <2> QED BY <2>4, <2>5
<1>5. LET u == AgedPublisher(t)
      IN  PublisherOK(u, c) /\ u.session = t.session /\ u.number = t.number
  <2> DEFINE a == IF t.index > 0 /\ t.started < Deadline THEN t.started + 1 ELSE t.started
             b == IF t.wait > 0 THEN t.wait - 1 ELSE 0
             u == [t EXCEPT !.started = a, !.wait = b]
  <2>1. AgedPublisher(t) = u BY DEF AgedPublisher
  <2>2. a \in 0..Deadline /\ b \in 0..Period BY <1>1, <1>2
  <2> HIDE DEF a, b
  <2>3. u \in Publishers BY <1>1, <2>2 DEF Publishers
  <2>4. u.session = t.session /\ u.number = t.number /\ u.index = t.index /\ u.content = t.content
    BY <1>1 DEF Publishers
  <2> HIDE DEF u
  <2> QED BY <2>1, <2>3, <2>4 DEF PublisherOK
<1>6. ASSUME t.aux < MaxAux
      PROVE  LET u == [t EXCEPT !.aux = @ + 1]
             IN  PublisherOK(u, c) /\ u.session = t.session /\ u.number = t.number
  <2> DEFINE a == t.aux + 1
             u == [t EXCEPT !.aux = a]
  <2>1. a \in 0..MaxAux BY <1>1, <1>2, <1>6
  <2> HIDE DEF a
  <2>3. u \in Publishers BY <1>1, <2>1 DEF Publishers
  <2>4. u.session = t.session /\ u.number = t.number /\ u.index = t.index /\ u.content = t.content
    BY <1>1 DEF Publishers
  <2> HIDE DEF u
  <2>5. PublisherOK(u, c) BY <2>3, <2>4 DEF PublisherOK
  <2> QED BY <2>4, <2>5 DEF u, a
<1> QED BY <1>3, <1>4, <1>5, <1>6

(* A number is spent: the next one, which is a new one while disturbed. *)
LEMMA NextNumberKeeps ==
    ASSUME NEW t, NEW c, PublisherOK(t, c), c \/ t.number < CalmBy
    PROVE  LET n == NextNumber(t)
           IN  /\ n \in 1..MaxNumber
               /\ t.number < MaxNumber => n = t.number + 1
               /\ t.number = MaxNumber => n + Modulus = MaxNumber + 1
               /\ ~c => n <= CalmBy /\ n = t.number + 1
<1>1. t.number \in 0..MaxNumber BY DEF PublisherOK, Publishers
<1> QED BY <1>1, Constants DEF NextNumber

(* The snapshot of a frame that is handed to the radio is in its time. *)
LEMMA EncodedKeeps ==
    ASSUME NEW t, NEW c, PublisherOK(t, c), t.index > 0 => t.started < Deadline,
           t.index = 0 => c \/ t.number < CalmBy
    PROVE  LET e == Encoded(t)
           IN  /\ PublisherOK(e, c) /\ e.session = t.session
               /\ e.number \in 1..MaxNumber /\ e.started < Deadline
               /\ t.index > 0 => e.number = t.number
               /\ t.index = 0 => e.number = NextNumber(t)
<1>1. t \in Publishers /\ t.index \in Nat /\ t.source \in Contents BY DEF PublisherOK, Publishers
<1>2. 0 \in 0..Deadline /\ 0 < Deadline /\ 0 < Count[t.source] /\ MaxNumber \in Nat BY <1>1, Constants
<1>3. CASE t.index > 0
  <2>1. Encoded(t) = t BY <1>3 DEF Encoded
  <2>2. t.number \in 1..MaxNumber BY <1>3 DEF PublisherOK, Publishers
  <2> QED BY <1>1, <1>3, <2>1, <2>2
<1>4. CASE t.index = 0
  <2> DEFINE n == NextNumber(t)
             e == [t EXCEPT !.number = n, !.content = t.source, !.started = 0]
  <2>1. Encoded(t) = e BY <1>4 DEF Encoded
  <2>2. n \in 1..MaxNumber /\ (~c => n <= CalmBy) BY <1>4, NextNumberKeeps
  <2>3. n \in 0..MaxNumber BY <1>2, <2>2
  <2> HIDE DEF n
  <2>4. e \in Publishers BY <1>1, <1>2, <2>3 DEF Publishers
  <2>5. e.session = t.session /\ e.number = n /\ e.index = 0 /\ e.content = t.source /\ e.started = 0
    BY <1>1, <1>4 DEF Publishers
  <2> HIDE DEF e
  <2>6. PublisherOK(e, c) BY <1>2, <2>2, <2>4, <2>5 DEF PublisherOK
  <2> QED BY <1>2, <1>4, <2>1, <2>2, <2>5, <2>6 DEF n
<1> QED BY <1>1, <1>3, <1>4

LEMMA QueuedKeeps ==
    ASSUME NEW e, NEW c, PublisherOK(e, c), e.number \in 1..MaxNumber
    PROVE  \A u \in {Queued(e), Refused(e)} :
              PublisherOK(u, c) /\ u.session = e.session /\ u.number = e.number
<1> DEFINE To(i, a, w) == [e EXCEPT !.index = i, !.aux = a, !.wait = w]
<1>1. e \in Publishers /\ e.index \in Nat /\ e.content \in Contents /\ e.index < Count[e.content]
  BY DEF PublisherOK, Publishers
<1>2. 0 \in 0..MaxAux /\ Period \in 0..Period /\ 0 < Count[e.content] /\ Count[e.content] \in Nat
      /\ 0 \in Nat
  BY <1>1, Constants
<1>3. ASSUME NEW i \in Nat, i < Count[e.content], NEW a \in 0..MaxAux, NEW w \in 0..Period
      PROVE  PublisherOK(To(i, a, w), c) /\ To(i, a, w).session = e.session
             /\ To(i, a, w).number = e.number
  <2> DEFINE u == To(i, a, w)
  <2>1. u \in Publishers BY <1>1, <1>3 DEF Publishers
  <2>2. u.session = e.session /\ u.number = e.number /\ u.index = i /\ u.content = e.content
    BY <1>1 DEF Publishers
  <2> HIDE DEF u, To
  <2>3. PublisherOK(u, c) BY <1>3, <2>1, <2>2, Constants DEF PublisherOK
  <2> QED BY <2>2, <2>3 DEF u
<1>4. e.aux \in 0..MaxAux /\ e.wait \in 0..Period BY <1>1 DEF Publishers
<1>5. Refused(e) = To(0, e.aux, Period) BY <1>1 DEF Refused, Publishers
<1>6. \/ Queued(e) = To(0, 0, Period)
      \/ e.index + 1 < Count[e.content] /\ Queued(e) = To(e.index + 1, e.aux, e.wait)
  <2>1. CASE e.index + 1 = Count[e.content] BY <2>1 DEF Queued
  <2>2. CASE e.index + 1 # Count[e.content]
    <3> DEFINE i == e.index + 1
    <3>1. i < Count[e.content] BY <1>1, <1>2, <2>2
    <3>2. Queued(e) = [e EXCEPT !.index = i] BY <2>2 DEF Queued
    <3> HIDE DEF i
    <3>3. [e EXCEPT !.index = i] = To(i, e.aux, e.wait) BY <1>1 DEF Publishers
    <3> HIDE DEF To
    <3> QED BY <3>1, <3>2, <3>3 DEF i
  <2> QED BY <2>1, <2>2
<1> HIDE DEF To
<1>7. e.index + 1 \in Nat BY <1>1
<1> QED BY <1>2, <1>3, <1>4, <1>5, <1>6, <1>7

LEMMA UnencodableKeeps ==
    ASSUME NEW t, NEW c, PublisherOK(t, c), c \/ t.number < CalmBy
    PROVE  LET u == Unencodable(t)
           IN  PublisherOK(u, c) /\ u.session = t.session /\ u.number = NextNumber(t)
<1> DEFINE n == NextNumber(t)
           u == [t EXCEPT !.number = n, !.wait = Period]
<1>1. t \in Publishers /\ n \in 1..MaxNumber /\ (~c => n <= CalmBy) BY NextNumberKeeps DEF PublisherOK
<1>2. Unencodable(t) = u BY DEF Unencodable
<1>3. n \in 0..MaxNumber /\ n > 0 /\ Period \in 0..Period BY <1>1, Constants
<1> HIDE DEF n
<1>4. u \in Publishers BY <1>1, <1>3 DEF Publishers
<1>5. u.session = t.session /\ u.number = n /\ u.index = t.index /\ u.content = t.content
  BY <1>1 DEF Publishers
<1> HIDE DEF u
<1> QED BY <1>1, <1>2, <1>3, <1>4, <1>5 DEF PublisherOK, n

-------------------------------------------------------------------------------
(* The frames on the air *)

(* v is w with some of its frames left out. *)
Sub(v, w) ==
    /\ v \in Seq(Frames) /\ Len(v) <= Len(w)
    /\ \E h \in [1..Len(v) -> 1..Len(w)] :
          /\ \A i \in 1..Len(v) : v[i] = w[h[i]]
          /\ \A i \in 1..Len(v), j \in 1..Len(v) : i < j => h[i] < h[j]

LEMMA RemoveAtKeeps ==
    ASSUME NEW S, NEW s \in Seq(S), NEW i \in 1..Len(s)
    PROVE  LET r == RemoveAt(s, i)
           IN  /\ r \in Seq(S) /\ Len(r) = Len(s) - 1
               /\ \A j \in 1..Len(r) : r[j] = s[IF j < i THEN j ELSE j + 1]
<1> DEFINE n == Len(s)
           p == SubSeq(s, 1, i - 1)
           q == SubSeq(s, i + 1, n)
<1>1. n \in Nat /\ i \in 1..n /\ \A j \in 1..n : s[j] \in S BY LenProperties, ElementOfSeq
<1> HIDE DEF n
<1>2. p \in Seq(S) /\ Len(p) = i - 1 /\ \A j \in 1..i - 1 : p[j] = s[j]
  <2>1. 1 \in Int /\ i - 1 \in Int /\ \A j \in 1..i - 1 : s[j] \in S BY <1>1
  <2>2. /\ p \in Seq(S)
        /\ Len(p) = IF 1 <= i - 1 THEN (i - 1) - 1 + 1 ELSE 0
        /\ \A j \in 1..(i - 1) - 1 + 1 : p[j] = s[1 + j - 1]
    BY <2>1, SubSeqProperties
  <2>3. \A j \in 1..i - 1 : j \in 1..(i - 1) - 1 + 1 /\ 1 + j - 1 = j BY <1>1
  <2> QED BY <1>1, <2>2, <2>3
<1>3. q \in Seq(S) /\ Len(q) = n - i /\ \A j \in 1..n - i : q[j] = s[i + j]
  <2>1. i + 1 \in Int /\ n \in Int /\ \A j \in i + 1..n : s[j] \in S BY <1>1
  <2>2. /\ q \in Seq(S)
        /\ Len(q) = IF i + 1 <= n THEN n - (i + 1) + 1 ELSE 0
        /\ \A j \in 1..n - (i + 1) + 1 : q[j] = s[i + 1 + j - 1]
    BY <2>1, SubSeqProperties
  <2>3. \A j \in 1..n - i : j \in 1..n - (i + 1) + 1 /\ i + 1 + j - 1 = i + j BY <1>1
  <2> QED BY <1>1, <2>2, <2>3
<1>4. RemoveAt(s, i) = p \o q BY DEF RemoveAt, n
<1> HIDE DEF p, q
<1> DEFINE r == p \o q
<1>5. r \in Seq(S) /\ Len(r) = Len(p) + Len(q)
      /\ \A j \in 1..Len(p) + Len(q) : r[j] = IF j <= Len(p) THEN p[j] ELSE q[j - Len(p)]
  BY <1>2, <1>3, ConcatProperties
<1> HIDE DEF r
<1>6. Len(r) = n - 1 BY <1>1, <1>2, <1>3, <1>5
<1>7. \A j \in 1..Len(r) : r[j] = s[IF j < i THEN j ELSE j + 1]
  <2> TAKE j \in 1..Len(r)
  <2>1. CASE j < i BY <1>1, <1>2, <1>5, <1>6, <2>1
  <2>2. CASE ~(j < i)
    <3>1. j - (i - 1) \in 1..n - i /\ i + (j - (i - 1)) = j + 1 BY <1>1, <1>6, <2>2
    <3>2. r[j] = q[j - (i - 1)] BY <1>1, <1>2, <1>3, <1>5, <1>6, <2>2
    <3> QED BY <1>3, <2>2, <3>1, <3>2
  <2> QED BY <2>1, <2>2
<1> QED BY <1>4, <1>5, <1>6, <1>7 DEF n, r

LEMMA RemovedIsSub ==
    ASSUME NEW w \in Seq(Frames), NEW i \in 1..Len(w)
    PROVE  Sub(RemoveAt(w, i), w)
<1> DEFINE r == RemoveAt(w, i)
           h == [j \in 1..Len(r) |-> IF j < i THEN j ELSE j + 1]
<1>1. /\ r \in Seq(Frames) /\ Len(r) = Len(w) - 1
      /\ \A j \in 1..Len(r) : r[j] = w[IF j < i THEN j ELSE j + 1]
  BY RemoveAtKeeps
<1>2. Len(w) \in Nat /\ Len(r) \in Nat BY <1>1, LenProperties
<1> HIDE DEF r
<1>3. h \in [1..Len(r) -> 1..Len(w)] BY <1>1, <1>2
<1>4. \A j \in 1..Len(r) : r[j] = w[h[j]] BY <1>1
<1>5. \A j \in 1..Len(r), k \in 1..Len(r) : j < k => h[j] < h[k] BY <1>1, <1>2
<1> HIDE DEF h
<1>6. Len(r) <= Len(w) BY <1>1, <1>2
<1> QED BY <1>1, <1>3, <1>4, <1>5, <1>6 DEF Sub, r

LEMMA TailIsSub ==
    ASSUME NEW w \in Seq(Frames), w # <<>>
    PROVE  Sub(Tail(w), w) /\ Len(Tail(w)) = Len(w) - 1
<1> DEFINE r == Tail(w)
           h == [j \in 1..Len(r) |-> j + 1]
<1>1. r \in Seq(Frames) /\ Len(r) = Len(w) - 1 /\ \A j \in 1..Len(r) : r[j] = w[j + 1]
  BY HeadTailProperties
<1>2. Len(w) \in Nat /\ Len(r) \in Nat BY <1>1, LenProperties
<1> HIDE DEF r
<1>3. h \in [1..Len(r) -> 1..Len(w)] BY <1>1, <1>2
<1>4. \A j \in 1..Len(r) : r[j] = w[h[j]] BY <1>1
<1>5. \A j \in 1..Len(r), k \in 1..Len(r) : j < k => h[j] < h[k] BY <1>1, <1>2
<1> HIDE DEF h
<1>6. Len(r) <= Len(w) BY <1>1, <1>2
<1> QED BY <1>1, <1>3, <1>4, <1>5, <1>6 DEF Sub, r

LEMMA SameIsSub ==
    ASSUME NEW w \in Seq(Frames)
    PROVE  Sub(w, w)
<1> DEFINE h == [j \in 1..Len(w) |-> j]
<1>1. Len(w) \in Nat BY LenProperties
<1>2. h \in [1..Len(w) -> 1..Len(w)] OBVIOUS
<1>3. \A j \in 1..Len(w) : w[j] = w[h[j]] OBVIOUS
<1>4. \A j \in 1..Len(w), k \in 1..Len(w) : j < k => h[j] < h[k] OBVIOUS
<1> HIDE DEF h
<1> QED BY <1>1, <1>2, <1>3, <1>4 DEF Sub

LEMMA SubKeeps ==
    ASSUME NEW v, NEW w, NEW t, NEW c, NEW r, Sub(v, w), AirOK(w, t, c)
    PROVE  AirOK(v, t, c) /\ (Ahead(r, w) => Ahead(r, v))
<1>1. PICK h \in [1..Len(v) -> 1..Len(w)] :
          /\ \A i \in 1..Len(v) : v[i] = w[h[i]]
          /\ \A i \in 1..Len(v), j \in 1..Len(v) : i < j => h[i] < h[j]
  BY DEF Sub
<1>2. v \in Seq(Frames) /\ Len(v) <= Capacity
  <2>1. Len(v) \in Nat /\ Len(w) \in Nat BY LenProperties DEF Sub, AirOK
  <2> QED BY <2>1, Constants DEF Sub, AirOK
<1>3. \A i \in 1..Len(v) : h[i] \in 1..Len(w) OBVIOUS
<1>4. InBootOrder(v)
  <2> SUFFICES ASSUME NEW i \in 1..Len(v), NEW j \in 1..Len(v), i < j
               PROVE  v[i].session <= v[j].session
    BY DEF InBootOrder
  <2> QED BY <1>1, <1>3 DEF AirOK, InBootOrder
<1>5. \A i \in 1..Len(v) : FrameOK(v[i], t, c) BY <1>1, <1>3 DEF AirOK
<1>6. Ahead(r, w) => Ahead(r, v) BY <1>1, <1>3 DEF Ahead
<1> QED BY <1>2, <1>4, <1>5, <1>6 DEF AirOK

From(o, w, f) == \A i \in 1..Len(o) : o[i] = f \/ \E j \in 1..Len(w) : o[i] = w[j]

(* A frame of the present session goes to the end of the air. *)
LEMMA OntoKeeps ==
    ASSUME NEW w, NEW f, NEW t, NEW c, t \in Publishers, AirOK(w, t, c), FrameOK(f, t, c),
           f.session = t.session
    PROVE  AirOK(Onto(w, f), t, c) /\ From(Onto(w, f), w, f)
<1> DEFINE v == IF Len(w) = Capacity THEN Tail(w) ELSE w
           o == Append(v, f)
<1>1. w \in Seq(Frames) /\ Len(w) \in Nat /\ Len(w) <= Capacity /\ Capacity \in Nat \ {0} /\ f \in Frames
  BY LenProperties, Constants DEF AirOK, FrameOK
<1>2. Sub(v, w) /\ v \in Seq(Frames) /\ Len(v) \in Nat /\ Len(v) < Capacity
  <2>1. CASE Len(w) = Capacity
    <3>1. w # <<>> BY <1>1, <2>1
    <3>2. Sub(v, w) /\ Len(v) = Len(w) - 1 BY <1>1, <2>1, <3>1, TailIsSub
    <3> QED BY <1>1, <2>1, <3>2 DEF Sub
  <2>2. CASE Len(w) # Capacity
    <3>1. v = w BY <2>2
    <3> HIDE DEF v
    <3> QED BY <1>1, <2>2, <3>1, SameIsSub
  <2> QED BY <2>1, <2>2
<1>3. Onto(w, f) = o BY DEF Onto
<1>4. AirOK(v, t, c) BY <1>2, SubKeeps
<1>5. \A i \in 1..Len(v) : \E j \in 1..Len(w) : v[i] = w[j] BY <1>2 DEF Sub
<1> HIDE DEF v
<1>6. o \in Seq(Frames) /\ Len(o) = Len(v) + 1 /\ (\A i \in 1..Len(v) : o[i] = v[i]) /\ o[Len(v) + 1] = f
  BY <1>1, <1>2, AppendProperties
<1> HIDE DEF o
<1>7. \A i \in 1..Len(o) : i = Len(v) + 1 \/ i \in 1..Len(v) BY <1>2, <1>6
<1>8. \A i \in 1..Len(v) : v[i].session <= f.session BY <1>4 DEF AirOK, FrameOK, Named
<1>9. f.session \in Nat BY <1>1 DEF Frames
<1>10. InBootOrder(o)
  <2> SUFFICES ASSUME NEW i \in 1..Len(o), NEW j \in 1..Len(o), i < j
               PROVE  o[i].session <= o[j].session
    BY DEF InBootOrder
  <2>1. i \in 1..Len(v) BY <1>2, <1>6
  <2> QED BY <1>4, <1>6, <1>7, <1>8, <2>1 DEF AirOK, InBootOrder
<1>11. \A i \in 1..Len(o) : FrameOK(o[i], t, c) BY <1>4, <1>6, <1>7 DEF AirOK
<1>12. Len(o) <= Capacity BY <1>1, <1>2, <1>6
<1>13. AirOK(o, t, c) BY <1>6, <1>10, <1>11, <1>12 DEF AirOK
<1>14. From(o, w, f) BY <1>5, <1>6, <1>7 DEF From
<1> QED BY <1>3, <1>13, <1>14

(* Time and the publisher go on: what was named stays named. *)
LEMMA LaterKeeps ==
    ASSUME NEW t, NEW c, NEW u, NEW d, PublisherOK(t, c), PublisherOK(u, d), Later(t, c, u, d)
    PROVE  /\ \A w : AirOK(w, t, c) => AirOK(w, u, d)
           /\ \A r : ModelOK(r, t, c) => ModelOK(r, u, d)
<1>1. t.session \in Nat /\ u.session \in Nat /\ t.number \in Nat /\ u.number \in Nat
  BY Constants DEF PublisherOK, Publishers
<1>2. \A s, n : Named(s, n, t, c) => Named(s, n, u, d) BY <1>1, NamedLater
<1> QED BY <1>2 DEF AirOK, FrameOK, ModelOK, AssemblyOK

-------------------------------------------------------------------------------
(* The decoder *)

(* A frame that joins the assembly by its sequence is of its snapshot. *)
LEMMA NumbersMeet ==
    ASSUME NEW t, NEW c \in BOOLEAN, NEW w, NEW r, NEW k \in Nat, PublisherOK(t, c), AirOK(w, t, c),
           ModelOK(r, t, c), Unwrapped(t, w, r, k), NEW i \in 1..Len(w),
           Joins(LiveAssembly(r), w[i])
    PROVE  w[i].number = LiveAssembly(r).number
<1> DEFINE f == w[i]
           a == r.assembly
<1>1. FrameOK(f, t, c) /\ Named(f.session, f.number, t, c) BY DEF AirOK, FrameOK
<1>2. a.active /\ a.age < Fresh /\ LiveAssembly(r) = a
  <2>1. CASE r.assembly.active /\ r.assembly.age >= Fresh BY <2>1 DEF Joins, LiveAssembly, NoAssembly
  <2>2. CASE ~(r.assembly.active /\ r.assembly.age >= Fresh)
    <3>1. LiveAssembly(r) = a BY <2>2 DEF LiveAssembly
    <3>2. a.active BY <3>1 DEF Joins
    <3>3. a.age \in 0..Fresh BY DEF ModelOK, AssemblyOK, Assemblies
    <3> QED BY <2>2, <3>1, <3>2, <3>3, Constants
  <2> QED BY <2>1, <2>2
<1>3. f.session = a.session /\ f.number % Modulus = a.number % Modulus BY <1>2 DEF Joins, WireSeq
<1>4. Named(a.session, a.number, t, c) BY <1>2 DEF ModelOK, AssemblyOK
<1>5. f.number \in 1..MaxNumber /\ a.number \in 1..MaxNumber /\ f.session \in 1..t.session
      /\ t.session \in Nat /\ t.number \in Nat /\ a.age \in 0..Fresh /\ f.born \in Nat
  <2>1. f.number \in 1..MaxNumber /\ a.number \in 1..MaxNumber /\ f.session \in 1..t.session
    BY <1>1, <1>4 DEF Named
  <2>2. t.session \in Nat /\ t.number \in Nat BY Constants DEF PublisherOK, Publishers
  <2>3. a.age \in 0..Fresh BY DEF ModelOK, AssemblyOK, Assemblies
  <2>4. f.born \in Nat BY <1>1 DEF FrameOK, Frames
  <2> QED BY <2>1, <2>2, <2>3, <2>4
<1> HIDE DEF f, a
<1>6. CASE ~c \/ f.session # t.session
  <2>1. f.session < t.session \/ ~c BY <1>5, <1>6
  <2>2. f.number <= CalmBy /\ a.number <= CalmBy BY <1>1, <1>3, <1>4, <2>1 DEF Named
  <2>3. f.number % Modulus = f.number /\ a.number % Modulus = a.number
    <3>1. f.number \in Nat /\ a.number \in Nat /\ f.number < Modulus /\ a.number < Modulus /\ Modulus \in Nat
      BY <1>5, <2>2, Constants
    <3> QED BY <3>1, SmallResidue
  <2> QED BY <1>2, <1>3, <2>3 DEF f, a
<1>7. CASE c /\ f.session = t.session
  <2> DEFINE span == Fresh + Deadline + Transit
             far(n, x) == /\ MaxNumber # Modulus
                          /\ Live(n, x, t, w, r) /\ x <= span
  <2>1. ASSUME MaxNumber # Modulus
        PROVE  far(f.number, f.born + 1) /\ far(a.number, a.age + Deadline + Transit)
    <3>1. Live(f.number, f.born + 1, t, w, r) BY <1>7 DEF Live, f
    <3>2. Live(a.number, a.age + Deadline + Transit, t, w, r) BY <1>2, <1>3, <1>7 DEF Live, a
    <3>3. f.born + 1 <= span
      <4>1. f.delay <= Transit /\ f.born < f.delay + Deadline /\ f.delay \in Nat
        BY <1>1 DEF FrameOK, Frames
      <4> QED BY <1>5, <4>1, Constants
    <3>4. a.age + Deadline + Transit <= span BY <1>5, Constants
    <3> QED BY <2>1, <3>1, <3>2, <3>3, <3>4
  <2>2. ASSUME NEW n \in 1..MaxNumber, NEW m \in 1..MaxNumber, NEW x \in Nat, NEW y \in Nat,
               MaxNumber # Modulus => far(n, x) /\ far(m, y),
               n % Modulus = m % Modulus
        PROVE  ~(n < m)
    <3> SUFFICES ASSUME n < m PROVE FALSE OBVIOUS
    <3>1. n + Modulus <= m
      <4>1. n \in Nat /\ m \in Nat /\ Modulus \in Nat \ {0} BY Constants
      <4> QED BY <2>2, <4>1, SameResidue
    <3>2. n + Modulus <= MaxNumber BY <3>1, Constants
    <3>3. MaxNumber # Modulus BY <3>2, Constants
    <3>4. Lasts(n, x, t, w, r, k) BY <2>2, <3>2, <3>3, Constants DEF Unwrapped
    <3>5. t.number + k <= n + CalmBy + Budget * x /\ m <= t.number
      BY <2>2, <3>3, <3>4, Constants DEF Lasts
    <3>6. Budget * x <= Budget * span
      <4>1. x <= span /\ span \in Nat /\ Budget \in Nat BY <2>2, <3>3, Constants
      <4> HIDE DEF span
      <4> QED BY <4>1
    <3>7. CalmBy + Budget * span < Modulus BY <3>3, SequenceAssumption
    <3>8. Budget * span \in Nat /\ Budget * x \in Nat
      <4>1. span \in Nat /\ Budget \in Nat BY Constants
      <4> HIDE DEF span
      <4> QED BY <4>1
    <3> HIDE DEF span
    <3> QED BY <1>5, <3>1, <3>5, <3>6, <3>7, <3>8, Constants
  <2> HIDE DEF far
  <2>3. f.born + 1 \in Nat /\ a.age + Deadline + Transit \in Nat
    <3>1. f.born \in Nat /\ a.age \in Nat /\ Deadline \in Nat /\ Transit \in Nat BY <1>5, Constants
    <3> QED BY <3>1
  <2>4. ~(f.number < a.number) BY <1>3, <1>5, <2>1, <2>2, <2>3
  <2>5. ~(a.number < f.number) BY <1>3, <1>5, <2>1, <2>2, <2>3
  <2> QED BY <1>2, <1>5, <2>4, <2>5 DEF f, a
<1> QED BY <1>6, <1>7

LEMMA NoAssemblyKeeps ==
    ASSUME NEW t, NEW c
    PROVE  AssemblyOK(NoAssembly, t, c)
<1>1. NoAssembly \in Assemblies BY Constants DEF NoAssembly, NoSession, Assemblies
<1>2. NoAssembly.pieces = {} /\ ~NoAssembly.active BY DEF NoAssembly
<1> HIDE DEF NoAssembly
<1> QED BY <1>1, <1>2, FS_EmptySet DEF AssemblyOK, Collected

LEMMA OpenedKeeps ==
    ASSUME NEW t, NEW c, NEW r, NEW a, NEW f, r.have \in BOOLEAN, AssemblyOK(a, t, c), FrameOK(f, t, c),
           Joins(a, f) => f.number = a.number
    PROVE  LET o == Opened(r, a, f)
           IN  /\ AssemblyOK(o, t, c) /\ o.active /\ o.session = f.session /\ o.number = f.number
               /\ o.age = 0 \/ (Joins(a, f) /\ o.age = a.age)
<1> DEFINE o == [NoAssembly EXCEPT !.active = TRUE, !.resync = Resyncs(r, f), !.session = f.session,
                                   !.number = f.number, !.content = f.content]
<1>1. CASE Joins(a, f)
  <2>1. Opened(r, a, f) = a BY <1>1 DEF Opened
  <2> QED BY <1>1, <2>1 DEF Joins
<1>2. CASE ~Joins(a, f)
  <2>1. Opened(r, a, f) = o BY <1>2 DEF Opened
  <2>2. f.session \in Nat /\ f.number \in Nat /\ f.content \in Contents /\ Named(f.session, f.number, t, c)
    BY DEF FrameOK, Frames
  <2>3. Resyncs(r, f) \in BOOLEAN BY DEF Resyncs
  <2>4. NoAssembly \in Assemblies /\ NoAssembly.pieces = {} /\ NoAssembly.age = 0
    BY NoAssemblyKeeps DEF AssemblyOK, NoAssembly
  <2> HIDE DEF NoAssembly
  <2>5. o \in Assemblies BY <2>2, <2>3, <2>4 DEF Assemblies
  <2>6. o.active /\ o.session = f.session /\ o.number = f.number /\ o.pieces = {} /\ o.age = 0
    BY <2>4 DEF Assemblies
  <2> HIDE DEF o
  <2>7. AssemblyOK(o, t, c) BY <2>2, <2>5, <2>6, FS_EmptySet DEF AssemblyOK, Collected
  <2> QED BY <2>1, <2>6, <2>7
<1> QED BY <1>1, <1>2

LEMMA GrownKeeps ==
    ASSUME NEW t, NEW c, NEW a, NEW f, AssemblyOK(a, t, c), FrameOK(f, t, c),
           a.session = f.session, a.number = f.number, a.content = f.content, ~Repeats(a, f)
    PROVE  LET g == Grown(a, f)
           IN  /\ AssemblyOK(g, t, c) /\ g.active = a.active /\ g.session = a.session
               /\ g.number = a.number /\ g.age = a.age /\ Intact(g)
<1> DEFINE p == [index |-> f.index, content |-> f.content, session |-> f.session, number |-> f.number]
           s == a.pieces \cup {p}
           g == [a EXCEPT !.pieces = s]
<1>1. Grown(a, f) = g BY DEF Grown
<1>2. a \in Assemblies /\ Collected(a) /\ a.pieces \in SUBSET Pieces /\ f \in Frames
      /\ f.index < Count[f.content]
  BY DEF AssemblyOK, Assemblies, FrameOK
<1>3. p \in Pieces BY <1>2 DEF Frames, Pieces
<1>4. p.index = f.index /\ p.content = f.content /\ p.session = f.session /\ p.number = f.number OBVIOUS
<1> HIDE DEF p
<1>5. s \in SUBSET Pieces /\ IsFiniteSet(s) BY <1>2, <1>3, FS_AddElement DEF Collected
<1>6. \A q \in s : /\ q.session = a.session /\ q.number = a.number /\ q.content = a.content
                   /\ q.index < Count[a.content]
  BY <1>2, <1>4 DEF Collected
<1>7. \A q \in s, x \in s : q.index = x.index => q = x BY <1>2, <1>4 DEF Collected, Repeats
<1> HIDE DEF s
<1>8. g \in Assemblies BY <1>2, <1>5 DEF Assemblies
<1>9. g.active = a.active /\ g.session = a.session /\ g.number = a.number /\ g.age = a.age
      /\ g.content = a.content /\ g.pieces = s
  BY <1>2 DEF Assemblies
<1> HIDE DEF g
<1>10. Collected(g) BY <1>5, <1>6, <1>7, <1>9 DEF Collected
<1>11. AssemblyOK(g, t, c) BY <1>8, <1>9, <1>10 DEF AssemblyOK
<1>12. Intact(g) BY <1>6, <1>9 DEF Intact
<1> QED BY <1>1, <1>9, <1>11, <1>12

(* As many pieces as the content has, none twice, are all of them. *)
LEMMA FullIsWhole ==
    ASSUME NEW g \in Assemblies, Collected(g), Full(g)
    PROVE  {p.index : p \in g.pieces} = 0..Count[g.content] - 1
<1> DEFINE n == Count[g.content]
           s == g.pieces
           x == {p.index : p \in s}
<1>1. n \in Nat /\ n > 0 /\ IsFiniteSet(s) /\ Cardinality(s) = n /\ s \in SUBSET Pieces
  BY Constants DEF Assemblies, Collected, Full
<1>2. \A p \in s : p.index \in Nat /\ p.index < n BY <1>1 DEF Collected, Pieces
<1>3. \A p \in s, q \in s : p.index = q.index => p = q BY DEF Collected
<1> HIDE DEF n, s
<1>4. x \subseteq 0..n - 1 BY <1>1, <1>2
<1>5. IsFiniteSet(0..n - 1) /\ Cardinality(0..n - 1) = n
  <2>1. 0 \in Int /\ n - 1 \in Int /\ (n - 1) - 0 + 1 = n /\ ~(0 > n - 1) BY <1>1
  <2> QED BY <2>1, FS_Interval
<1> DEFINE h == [p \in s |-> p.index]
<1>6. h \in Injection(s, 0..n - 1)
  <2>1. h \in [s -> 0..n - 1] BY <1>1, <1>2
  <2>2. \A p \in s, q \in s : h[p] = h[q] => p = q BY <1>3
  <2> HIDE DEF h
  <2> QED BY <2>1, <2>2 DEF Injection, IsInjective
<1>7. h \in Surjection(s, 0..n - 1) BY <1>1, <1>5, <1>6, FS_Injection
<1>8. \A y \in 0..n - 1 : \E p \in s : h[p] = y BY <1>7 DEF Surjection
<1>9. x = 0..n - 1 BY <1>4, <1>8
<1> QED BY <1>9 DEF x, n, s

-------------------------------------------------------------------------------
(* A delivery *)

(* An assembly of the snapshot of f, opened by f or joined by it. *)
Gained(r, f, a) ==
    /\ a.active /\ a.session = f.session /\ a.number = f.number
    /\ Wanted(r, LiveAssembly(r), f) /\ f.session # r.retired
    /\ a.age = 0 \/ (Joins(LiveAssembly(r), f) /\ a.age = LiveAssembly(r).age)

Complete(a) == {p.index : p \in a.pieces} = 0..Count[a.content] - 1

(* What a delivery makes of the decoder: nothing, another assembly, or the  *)
(* display of a whole snapshot.                                             *)
Reassembles(r, f, t, c, u) ==
    \E a : /\ AssemblyOK(a, t, c) /\ u = [r EXCEPT !.assembly = a]
           /\ a = NoAssembly \/ a = LiveAssembly(r) \/ Gained(r, f, a)
Commits(r, f, t, c, u) ==
    \E a : /\ AssemblyOK(a, t, c) /\ u = Committed(r, a) /\ Gained(r, f, a)
           /\ Complete(a)

LEMMA AcceptDoes ==
    ASSUME NEW t, NEW c, NEW r, NEW f, ModelOK(r, t, c), FrameOK(f, t, c),
           Joins(LiveAssembly(r), f) => f.number = LiveAssembly(r).number
    PROVE  LET u == Accept(r, f)
           IN  u = r \/ Reassembles(r, f, t, c, u) \/ Commits(r, f, t, c, u)
<1> DEFINE live == LiveAssembly(r)
           opened == Opened(r, live, f)
           grown == Grown(opened, f)
           u == Accept(r, f)
           retired == r.retired # NoSession /\ f.session = r.retired
           barred == ~Wanted(r, live, f) \/ (~Joins(live, f) /\ ~Begins(r, live, f))
           stale == f.content # opened.content \/ Repeats(opened, f)
<1>1. u = IF retired THEN r
          ELSE IF barred THEN [r EXCEPT !.assembly = live]
          ELSE IF stale THEN [r EXCEPT !.assembly = opened]
          ELSE IF ~Full(grown) THEN [r EXCEPT !.assembly = grown]
          ELSE IF ~Intact(grown) THEN [r EXCEPT !.assembly = NoAssembly]
          ELSE Committed(r, grown)
  BY DEF Accept
<1>2. r \in Models /\ AssemblyOK(r.assembly, t, c) /\ r.have \in BOOLEAN BY DEF ModelOK, Models
<1> SUFFICES u = r \/ Reassembles(r, f, t, c, u) \/ Commits(r, f, t, c, u) OBVIOUS
<1>3. AssemblyOK(live, t, c)
  <2>1. live = NoAssembly \/ live = r.assembly BY DEF LiveAssembly
  <2> QED BY <1>2, <2>1, NoAssemblyKeeps
<1> HIDE DEF u
<1>4. CASE retired BY <1>1, <1>4
<1>5. ASSUME ~retired PROVE f.session # r.retired
  <2>1. f.session \in 1..t.session BY DEF FrameOK, Named
  <2> QED BY <1>5, <2>1 DEF NoSession
<1> HIDE DEF retired
<1>6. CASE ~retired /\ barred
  <2>1. u = [r EXCEPT !.assembly = live] BY <1>1, <1>6
  <2> HIDE DEF live
  <2> QED BY <1>3, <2>1 DEF Reassembles, live
<1>7. CASE ~retired /\ ~barred
  <2>1. /\ AssemblyOK(opened, t, c) /\ opened.active /\ opened.session = f.session
        /\ opened.number = f.number
        /\ opened.age = 0 \/ (Joins(live, f) /\ opened.age = live.age)
    BY <1>2, <1>3, OpenedKeeps
  <2>2. Gained(r, f, opened) BY <1>5, <1>7, <2>1 DEF Gained
  <2> HIDE DEF opened
  <2>3. CASE stale
    <3>1. u = [r EXCEPT !.assembly = opened] BY <1>1, <1>7, <2>3
    <3> QED BY <2>1, <2>2, <3>1 DEF Reassembles
  <2>4. CASE ~stale
    <3>1. /\ AssemblyOK(grown, t, c) /\ grown.active = opened.active /\ grown.session = opened.session
          /\ grown.number = opened.number /\ grown.age = opened.age /\ Intact(grown)
      BY <2>1, <2>4, GrownKeeps
    <3>2. Gained(r, f, grown) BY <2>2, <3>1 DEF Gained
    <3> HIDE DEF grown
    <3>3. CASE ~Full(grown)
      <4>1. u = [r EXCEPT !.assembly = grown] BY <1>1, <1>7, <2>4, <3>3
      <4> QED BY <3>1, <3>2, <4>1 DEF Reassembles
    <3>4. CASE Full(grown)
      <4>1. u = Committed(r, grown) BY <1>1, <1>7, <2>4, <3>1, <3>4
      <4>2. grown \in Assemblies /\ Collected(grown) BY <3>1 DEF AssemblyOK
      <4>3. Complete(grown) BY <3>4, <4>2, FullIsWhole DEF Complete
      <4> QED BY <3>1, <3>2, <4>1, <4>3 DEF Commits
    <3> QED BY <3>3, <3>4
  <2> QED BY <2>3, <2>4
<1> QED BY <1>4, <1>6, <1>7

(* While the link is disturbed, what is wanted is ahead of what is shown. *)
LEMMA Forward ==
    ASSUME NEW t, NEW c, ~c, NEW r, NEW w, NEW i \in 1..Len(w), NEW a, ModelOK(r, t, c),
           AirOK(w, t, c), Ahead(r, w), Gained(r, w[i], a), r.have
    PROVE  \/ a.session > r.session
           \/ a.session = r.session /\ a.number > r.number
<1> DEFINE f == w[i]
           live == LiveAssembly(r)
<1>1. FrameOK(f, t, c) /\ Named(f.session, f.number, t, c) /\ f.delay <= Transit
  BY DEF AirOK, FrameOK
<1>2. Named(r.session, r.number, t, c) /\ r.age \in 0..Fresh BY DEF ModelOK, Models
<1>3. f.number \in 1..CalmBy /\ r.number \in 1..CalmBy BY <1>1, <1>2 DEF Named
<1>4. f.session >= r.session BY DEF Ahead, Gained
<1>5. a.session = f.session /\ a.number = f.number BY DEF Gained
<1>6. ASSUME f.session = r.session PROVE f.number > r.number
  <2>1. /\ WireSeq(f.number) # WireSeq(r.number)
        /\ Newer(f.number, r.number) \/ ~IsFresh(r)
    BY <1>6 DEF Gained, Wanted
  <2>2. CASE Newer(f.number, r.number) BY <1>3, <2>2, NewerIsLater
  <2>3. CASE ~IsFresh(r)
    <3>1. ~(r.age < Fresh) BY <2>3 DEF IsFresh
    <3>2. f.delay < r.age
      <4>1. f.delay \in Nat BY <1>1 DEF FrameOK, Frames
      <4> QED BY <1>1, <1>2, <3>1, <4>1, Constants
    <3>3. f.number >= r.number BY <1>6, <3>2 DEF Ahead
    <3>4. f.number # r.number BY <2>1
    <3> HIDE DEF f
    <3> QED BY <1>3, <3>3, <3>4, Constants
  <2> QED BY <2>1, <2>2, <2>3
<1>7. f.session \in Nat /\ r.session \in Nat BY <1>1, <1>2 DEF FrameOK, Frames, ModelOK, Models
<1> HIDE DEF f
<1> QED BY <1>4, <1>5, <1>6, <1>7

LEMMA ReassembledKeeps ==
    ASSUME NEW t, NEW c, NEW r, NEW a, ModelOK(r, t, c), AssemblyOK(a, t, c)
    PROVE  LET u == [r EXCEPT !.assembly = a]
           IN  /\ ModelOK(u, t, c) /\ u.assembly = a
               /\ u.have = r.have /\ u.session = r.session /\ u.number = r.number
               /\ u.age = r.age /\ u.retired = r.retired
<1> DEFINE u == [r EXCEPT !.assembly = a]
<1>1. r \in Models /\ a \in Assemblies BY DEF ModelOK, AssemblyOK
<1>2. u \in Models BY <1>1 DEF Models
<1>3. /\ u.assembly = a /\ u.have = r.have /\ u.session = r.session /\ u.number = r.number
      /\ u.age = r.age /\ u.retired = r.retired /\ u.content = r.content /\ u.pieces = r.pieces
  BY <1>1 DEF Models
<1> HIDE DEF u
<1>4. Whole(u) BY <1>3 DEF Whole, ModelOK
<1>5. ModelOK(u, t, c) BY <1>2, <1>3, <1>4 DEF ModelOK
<1> QED BY <1>3, <1>5 DEF u

LEMMA CommittedKeeps ==
    ASSUME NEW t, NEW c, NEW r, NEW f, NEW v, ModelOK(r, t, c), Commits(r, f, t, c, v)
    PROVE  /\ ModelOK(v, t, c) /\ ~v.assembly.active
           /\ v.have /\ v.session = f.session /\ v.number = f.number /\ v.age = 0
           /\ r.have /\ r.session # f.session => v.retired = r.session
           /\ ~(r.have /\ r.session # f.session) => v.retired = r.retired
           /\ \E a : Gained(r, f, a)
<1>0. PICK a : AssemblyOK(a, t, c) /\ v = Committed(r, a) /\ Gained(r, f, a) /\ Complete(a)
  BY DEF Commits
<1> DEFINE old == IF r.have /\ r.session # a.session THEN r.session ELSE r.retired
           u == [r EXCEPT !.have = TRUE, !.session = a.session, !.number = a.number,
                          !.content = a.content, !.age = 0, !.pieces = a.pieces,
                          !.assembly = NoAssembly, !.retired = old]
<1>1. r \in Models /\ a \in Assemblies /\ NoAssembly \in Assemblies /\ r.session \in Nat /\ r.retired \in Nat
  BY <1>0, NoAssemblyKeeps DEF ModelOK, AssemblyOK, Models
<1>2. v = u BY <1>0 DEF Committed
<1>3. old \in Nat /\ 0 \in 0..Fresh BY <1>1, Constants
<1> HIDE DEF old, NoAssembly
<1>4. u \in Models BY <1>1, <1>3 DEF Models, Assemblies
<1>5. /\ u.assembly = NoAssembly /\ u.have = TRUE /\ u.session = a.session /\ u.number = a.number
      /\ u.age = 0 /\ u.retired = old /\ u.content = a.content /\ u.pieces = a.pieces
  BY <1>1 DEF Models
<1> HIDE DEF u
<1>6. Whole(u)
  <2>1. {p.index : p \in u.pieces} = 0..Count[u.content] - 1 BY <1>0, <1>5 DEF Complete
  <2>2. \A p \in u.pieces : p.session = u.session /\ p.number = u.number /\ p.content = u.content
    BY <1>0, <1>5 DEF AssemblyOK, Collected
  <2> QED BY <2>1, <2>2 DEF Whole
<1>7. Named(a.session, a.number, t, c) BY <1>0 DEF AssemblyOK, Gained
<1>8. ModelOK(u, t, c) BY <1>4, <1>5, <1>6, <1>7, NoAssemblyKeeps DEF ModelOK
<1>9. a.session = f.session /\ a.number = f.number BY <1>0 DEF Gained
<1>10. ~NoAssembly.active BY DEF NoAssembly
<1>11. /\ r.have /\ r.session # f.session => old = r.session
       /\ ~(r.have /\ r.session # f.session) => old = r.retired
  BY <1>9 DEF old
<1> QED BY <1>0, <1>2, <1>5, <1>8, <1>9, <1>10, <1>11

(* Nothing overtakes a frame of a boot the panel has yet to show. *)
LEMMA AheadKeeps ==
    ASSUME NEW t, NEW c, ~c, NEW r, NEW w, NEW i \in 1..Len(w), NEW u, ModelOK(r, t, c), AirOK(w, t, c),
           Ahead(r, w),
           \A j \in 1..(i - 1) : \/ w[j].session \in {w[i].session, r.session}
                                 \/ w[i].session = r.session /\ w[j].session = r.retired,
           u = r \/ Reassembles(r, w[i], t, c, u) \/ Commits(r, w[i], t, c, u)
    PROVE  /\ Ahead(u, w)
           /\ r.have /\ u.have => \/ u.session > r.session
                                  \/ u.session = r.session /\ u.number >= r.number
<1> DEFINE f == w[i]
           ahead(a) == \/ a.session > r.session
                       \/ a.session = r.session /\ a.number > r.number
<1>1. ASSUME NEW a, Gained(r, f, a), r.have PROVE ahead(a) BY <1>1, Forward
<1>2. r.session \in Nat /\ r.number \in Nat /\ r.have \in BOOLEAN BY DEF ModelOK, Models
<1>3. CASE u = r BY <1>2, <1>3
<1>4. CASE Reassembles(r, f, t, c, u)
  <2>1. PICK a : /\ AssemblyOK(a, t, c) /\ u = [r EXCEPT !.assembly = a]
                 /\ a = NoAssembly \/ a = LiveAssembly(r) \/ Gained(r, f, a)
    BY <1>4 DEF Reassembles
  <2>2. /\ u.assembly = a /\ u.have = r.have /\ u.session = r.session /\ u.number = r.number
        /\ u.age = r.age /\ u.retired = r.retired
    BY <2>1, ReassembledKeeps
  <2>3. ASSUME a.active, r.have PROVE ahead(a)
    <3>1. a # NoAssembly BY <2>3 DEF NoAssembly
    <3>2. CASE Gained(r, f, a) BY <1>1, <2>3, <3>2
    <3>3. CASE a = LiveAssembly(r)
      <4>1. a = r.assembly BY <3>1, <3>3 DEF LiveAssembly
      <4> QED BY <2>3, <4>1 DEF Ahead
    <3> QED BY <2>1, <3>1, <3>2, <3>3
  <2> QED BY <1>2, <2>2, <2>3 DEF Ahead
<1>5. CASE Commits(r, f, t, c, u)
  <2>1. PICK a : Gained(r, f, a) BY <1>5, CommittedKeeps
  <2>2. a.session = f.session /\ a.number = f.number BY <2>1 DEF Gained
  <2>3. /\ ~u.assembly.active /\ u.have /\ u.session = f.session /\ u.number = f.number /\ u.age = 0
        /\ r.have /\ r.session # f.session => u.retired = r.session
        /\ ~(r.have /\ r.session # f.session) => u.retired = r.retired
    BY <1>5, CommittedKeeps
  <2>4. FrameOK(f, t, c) /\ f.session \in Nat /\ f.session # NoSession /\ f.number \in Nat
    BY DEF AirOK, FrameOK, Frames, Named, NoSession
  <2>5. \A j \in 1..Len(w) : w[j].session >= u.session \/ w[j].session = u.retired
    <3> SUFFICES ASSUME NEW j \in 1..Len(w) PROVE w[j].session >= f.session \/ w[j].session = u.retired
      BY <2>3
    <3> DEFINE g == w[j]
    <3>1. g.session \in Nat /\ g.session # NoSession
      <4>1. FrameOK(g, t, c) BY DEF AirOK
      <4> HIDE DEF g
      <4> QED BY <4>1 DEF FrameOK, Frames, Named, NoSession
    <3>2. CASE j >= i
      <4>1. j = i \/ i < j BY <3>2
      <4> HIDE DEF f
      <4> QED BY <2>4, <4>1 DEF AirOK, InBootOrder, f
    <3>3. CASE j < i
      <4>1. j \in 1..(i - 1) BY <3>3
      <4>2. \/ w[j].session \in {f.session, r.session}
            \/ f.session = r.session /\ w[j].session = r.retired
        BY <4>1
      <4>3. ~r.have => r.session = NoSession BY DEF ModelOK
      <4> HIDE DEF f
      <4> QED BY <2>3, <2>4, <3>1, <4>2, <4>3
    <3> QED BY <3>2, <3>3
  <2>6. \A j \in 1..Len(w) : ~(w[j].delay < 0)
    <3> SUFFICES ASSUME NEW j \in 1..Len(w) PROVE ~(w[j].delay < 0) OBVIOUS
    <3>1. w[j].delay \in Nat BY DEF AirOK, FrameOK, Frames
    <3> QED BY <3>1
  <2>8. Ahead(u, w) BY <2>3, <2>5, <2>6 DEF Ahead
  <2>9. r.have => ahead(a) BY <1>1, <2>1
  <2> HIDE DEF f
  <2> QED BY <1>2, <2>2, <2>3, <2>4, <2>8, <2>9
<1> QED BY <1>3, <1>4, <1>5

(* A commit starts the age of what is shown at the age of its snapshot. *)
LEMMA RecentKeeps ==
    ASSUME NEW t, NEW c, NEW r, NEW f, NEW u, NEW b, ModelOK(r, t, c), FrameOK(f, t, c), Recent(r, b),
           u = r \/ Reassembles(r, f, t, c, u) \/ Commits(r, f, t, c, u)
    PROVE  /\ ModelOK(u, t, c)
           /\ LET x == IF u.have /\ <<u.have, u.session, u.number>> # <<r.have, r.session, r.number>>
                       THEN f.born ELSE b
              IN  Recent(u, x)
           /\ f.born \in 0..Horizon
<1> DEFINE x == IF u.have /\ <<u.have, u.session, u.number>> # <<r.have, r.session, r.number>>
                THEN f.born ELSE b
<1>1. f.born \in Nat /\ f.born < Deadline + Transit /\ f.born \in 0..Horizon
  <2>1. f.born \in Nat /\ f.delay \in Nat /\ f.delay <= Transit /\ f.born < f.delay + Deadline
    BY DEF FrameOK, Frames
  <2> QED BY <2>1, Constants DEF Horizon
<1>2. CASE u = r BY <1>1, <1>2
<1>3. CASE Reassembles(r, f, t, c, u)
  <2>1. PICK a : AssemblyOK(a, t, c) /\ u = [r EXCEPT !.assembly = a] BY <1>3 DEF Reassembles
  <2>2. /\ ModelOK(u, t, c)
        /\ u.have = r.have /\ u.session = r.session /\ u.number = r.number /\ u.age = r.age
    BY <2>1, ReassembledKeeps
  <2>3. x = b BY <2>2
  <2>4. Recent(u, b) BY <2>2 DEF Recent
  <2> QED BY <1>1, <2>2, <2>3, <2>4
<1>4. CASE Commits(r, f, t, c, u)
  <2>1. PICK a : Gained(r, f, a) BY <1>4, CommittedKeeps
  <2>3. /\ ModelOK(u, t, c)
        /\ u.have /\ u.session = f.session /\ u.number = f.number /\ u.age = 0
    BY <1>4, CommittedKeeps
  <2>4. ~(r.have /\ r.session = f.session /\ r.number = f.number) BY <2>1 DEF Gained, Wanted
  <2>5. r.have \in BOOLEAN /\ u.have \in BOOLEAN BY <2>3 DEF ModelOK, Models
  <2>6. x = f.born BY <2>3, <2>4, <2>5
  <2> HIDE DEF x
  <2>7. Recent(u, f.born) BY <1>1, <2>3, Constants DEF Recent
  <2> QED BY <1>1, <2>3, <2>6, <2>7 DEF x
<1> QED BY <1>2, <1>3, <1>4

-------------------------------------------------------------------------------
(* The numbers that live *)

Span == Fresh + Deadline + Transit

LEMMA MoreIsMore ==
    ASSUME NEW a \in Nat, NEW b \in Nat, a <= b
    PROVE  Budget * a \in Nat /\ Budget * b \in Nat /\ Budget * a <= Budget * b
BY Constants

LEMMA SumOrder ==
    ASSUME NEW n \in Nat, NEW m \in Nat, NEW j \in Nat, NEW k \in Nat, NEW x \in Nat, NEW y \in Nat,
           NEW z \in Nat, m + k <= n + z + x, j <= k, x <= y
    PROVE  m + j <= n + z + y
OBVIOUS

(* While the link is disturbed the sequence is far from coming round. *)
LEMMA DisturbedLasts ==
    ASSUME NEW t, NEW c, ~c, NEW w, NEW r, NEW k \in 0..Budget, PublisherOK(t, c), AirOK(w, t, c),
           ModelOK(r, t, c)
    PROVE  Unwrapped(t, w, r, k)
<1>1. t.number \in Nat /\ t.number <= CalmBy /\ t.session \in Nat
  BY Constants DEF PublisherOK, Publishers
<1>2. ASSUME NEW n \in Nat, NEW a \in Nat, Live(n, a, t, w, r) PROVE n <= t.number /\ a >= 1
  <2>1. CASE n = t.number /\ a = 1 BY <1>1, <2>1
  <2>2. ASSUME NEW i \in 1..Len(w), w[i].session = t.session, n = w[i].number, a = w[i].born + 1
        PROVE  n <= t.number /\ a >= 1
    <3> DEFINE f == w[i]
    <3>1. FrameOK(f, t, c) BY DEF AirOK
    <3>2. f.session = t.session /\ n = f.number /\ a = f.born + 1 BY <2>2
    <3> HIDE DEF f
    <3>3. f.born \in Nat BY <3>1 DEF FrameOK, Frames
    <3> QED BY <3>1, <3>2, <3>3 DEF FrameOK, Named
  <2>3. CASE /\ r.assembly.active /\ r.assembly.age < Fresh /\ r.assembly.session = t.session
             /\ n = r.assembly.number /\ a = r.assembly.age + Deadline + Transit
    <3>1. AssemblyOK(r.assembly, t, c) BY DEF ModelOK
    <3>2. r.assembly.age \in Nat BY <3>1, Constants DEF AssemblyOK, Assemblies
    <3> QED BY <2>3, <3>1, <3>2, Constants DEF AssemblyOK, Named
  <2> QED BY <1>2, <2>1, <2>2, <2>3 DEF Live
<1>3. ASSUME NEW n \in Nat, NEW a \in Nat, Live(n, a, t, w, r) PROVE t.number + k <= n + CalmBy + Budget * a
  <2>1. 1 <= a BY <1>2, <1>3
  <2>2. Budget * 1 <= Budget * a /\ Budget * a \in Nat BY <2>1, MoreIsMore
  <2>3. k <= Budget * a BY <2>2, Constants
  <2> QED BY <1>1, <2>2, <2>3, Constants
<1> QED BY <1>2, <1>3 DEF Unwrapped, Lasts

(* The number stays, and what lives is as old as before, or older. *)
LEMMA StillLasts ==
    ASSUME NEW t, NEW w, NEW r, NEW k \in Nat, NEW u, NEW v, NEW q, NEW j \in Nat,
           j <= k, u.number = t.number, t.number \in Nat, Unwrapped(t, w, r, k),
           \A n, b \in Nat : Live(n, b, u, v, q) => \E a \in Nat : a <= b /\ Live(n, a, t, w, r)
    PROVE  Unwrapped(u, v, q, j)
<1> SUFFICES ASSUME MaxNumber # Modulus, NEW n \in Nat, NEW b \in Nat, Live(n, b, u, v, q),
                    n + Modulus <= MaxNumber
             PROVE  Lasts(n, b, u, v, q, j)
  BY DEF Unwrapped
<1>1. PICK a \in Nat : a <= b /\ Live(n, a, t, w, r) OBVIOUS
<1>2. Lasts(n, a, t, w, r, k) BY <1>1 DEF Unwrapped
<1>3. t.number + k <= n + CalmBy + Budget * a /\ \A m, x \in Nat : Live(m, x, t, w, r) => m <= t.number
  BY <1>2 DEF Lasts
<1>4. Budget * a <= Budget * b /\ Budget * a \in Nat /\ Budget * b \in Nat BY <1>1, MoreIsMore
<1>5. u.number + j <= n + CalmBy + Budget * b
  <2> DEFINE x == Budget * a
             y == Budget * b
             m == t.number
  <2>1. m \in Nat /\ x \in Nat /\ y \in Nat /\ CalmBy \in Nat /\ m + k <= n + CalmBy + x /\ x <= y
    BY <1>3, <1>4, Constants
  <2> HIDE DEF x, y, m
  <2>2. m + j <= n + CalmBy + y BY <2>1, SumOrder
  <2> QED BY <2>2 DEF y, m
<1>6. \A m, x \in Nat : Live(m, x, u, v, q) => m <= u.number BY <1>3
<1> QED BY <1>5, <1>6 DEF Lasts

LEMMA LiveIsYoung ==
    ASSUME NEW t, NEW c, NEW w, NEW r, AirOK(w, t, c), ModelOK(r, t, c), NEW n, NEW a, Live(n, a, t, w, r)
    PROVE  a \in Nat /\ a >= 1 /\ a <= Span
<1>1. CASE n = t.number /\ a = 1 BY <1>1, Constants DEF Span
<1>2. ASSUME NEW i \in 1..Len(w), a = w[i].born + 1 PROVE a \in Nat /\ a >= 1 /\ a <= Span
  <2> DEFINE f == w[i]
  <2>1. FrameOK(f, t, c) BY DEF AirOK
  <2>2. a = f.born + 1 BY <1>2
  <2> HIDE DEF f
  <2>3. f.born \in Nat /\ f.delay \in Nat /\ f.delay <= Transit /\ f.born < f.delay + Deadline
    BY <2>1 DEF FrameOK, Frames
  <2> QED BY <2>2, <2>3, Constants DEF Span
<1>3. CASE r.assembly.age < Fresh /\ a = r.assembly.age + Deadline + Transit
  <2>1. r.assembly.age \in Nat BY Constants DEF ModelOK, AssemblyOK, Assemblies
  <2> QED BY <1>3, <2>1, Constants DEF Span
<1> QED BY <1>1, <1>2, <1>3 DEF Live

(* A frame of the gap's budget spends a number. *)
LEMMA SpentLasts ==
    ASSUME NEW t, NEW w, NEW r, NEW k \in 1..Budget, NEW u, NEW v, NEW q,
           t.number \in 0..MaxNumber, u.number \in 1..MaxNumber,
           t.number < MaxNumber => u.number = t.number + 1,
           t.number = MaxNumber => u.number + Modulus = MaxNumber + 1,
           Unwrapped(t, w, r, k),
           \A n, b \in Nat : Live(n, b, u, v, q) =>
               \/ n = u.number /\ b >= 1
               \/ \E a \in Nat : a <= b /\ a <= Span /\ Live(n, a, t, w, r)
    PROVE  Unwrapped(u, v, q, k - 1)
<1> SUFFICES ASSUME MaxNumber # Modulus, NEW n \in Nat, NEW b \in Nat, Live(n, b, u, v, q),
                    n + Modulus <= MaxNumber
             PROVE  Lasts(n, b, u, v, q, k - 1)
  BY DEF Unwrapped
<1>1. t.number \in Nat /\ u.number \in Nat BY Constants
<1>2. ASSUME \A m, x \in Nat : Live(m, x, t, w, r) => m <= t.number, u.number = t.number + 1,
             u.number + (k - 1) <= n + CalmBy + Budget * b
      PROVE  Lasts(n, b, u, v, q, k - 1)
  <2>1. \A m, x \in Nat : Live(m, x, u, v, q) => m <= u.number BY <1>1, <1>2
  <2> QED BY <1>2, <2>1 DEF Lasts
<1>3. CASE n = u.number /\ b >= 1
  <2>1. u.number = t.number + 1
    <3>1. CASE t.number = MaxNumber BY <1>1, <1>3, <3>1, Constants
    <3>2. CASE t.number # MaxNumber
      <4>1. \A m \in 0..MaxNumber : m # MaxNumber => m < MaxNumber BY Constants
      <4>2. t.number < MaxNumber BY <3>2, <4>1
      <4> QED BY <4>2
    <3> QED BY <3>1, <3>2
  <2>2. Live(t.number, 1, t, w, r) /\ t.number + Modulus <= MaxNumber
    BY <1>1, <1>3, <2>1, Constants DEF Live
  <2>3. Lasts(t.number, 1, t, w, r, k) BY <1>1, <2>2 DEF Unwrapped
  <2>4. Budget * 1 <= Budget * b /\ Budget * b \in Nat BY <1>3, MoreIsMore
  <2>5. u.number + (k - 1) <= n + CalmBy + Budget * b
    <3> DEFINE y == Budget * b
    <3>1. y \in Nat /\ Budget <= y /\ CalmBy \in Nat /\ k - 1 <= Budget /\ k \in Nat BY <2>4, Constants
    <3> HIDE DEF y
    <3>2. k - 1 <= y /\ k - 1 \in Int BY <3>1, Constants
    <3>3. n + (k - 1) <= n + CalmBy + y BY <3>1, <3>2
    <3> QED BY <1>3, <3>3 DEF y
  <2> QED BY <1>2, <2>1, <2>3, <2>5 DEF Lasts
<1>4. ASSUME NEW a \in Nat, a <= b, a <= Span, Live(n, a, t, w, r)
      PROVE  Lasts(n, b, u, v, q, k - 1)
  <2>1. Lasts(n, a, t, w, r, k) BY <1>4 DEF Unwrapped
  <2>2. Budget * a <= Budget * b /\ Budget * a \in Nat /\ Budget * b \in Nat BY <1>4, MoreIsMore
  <2>3. Budget * a <= Budget * Span
    <3>1. Span \in Nat BY Constants DEF Span
    <3> QED BY <1>4, <3>1, MoreIsMore
  <2>4. CalmBy + Budget * Span < Modulus BY SequenceAssumption DEF Span
  <2>5. Budget * Span \in Nat
    <3>1. Span \in Nat BY Constants DEF Span
    <3> QED BY <3>1, MoreIsMore
  <2>6. t.number + k <= n + CalmBy + Budget * a BY <2>1 DEF Lasts
  <2>7. t.number < MaxNumber BY <1>1, <2>2, <2>3, <2>4, <2>5, <2>6, Constants
  <2>8. u.number + (k - 1) <= n + CalmBy + Budget * b
    <3> DEFINE x == Budget * a
               y == Budget * b
               m == t.number
    <3>1. /\ m \in Nat /\ x \in Nat /\ y \in Nat /\ CalmBy \in Nat /\ k \in Nat
          /\ m + k <= n + CalmBy + x /\ x <= y
      BY <1>1, <2>2, <2>6, Constants
    <3>2. u.number = m + 1 BY <2>7
    <3> HIDE DEF x, y, m
    <3>3. m + k <= n + CalmBy + y BY <3>1, SumOrder
    <3>4. (m + 1) + (k - 1) = m + k BY <3>1
    <3> QED BY <3>2, <3>3, <3>4 DEF y
  <2> QED BY <1>2, <2>1, <2>7, <2>8 DEF Lasts
<1> QED BY <1>3, <1>4

-------------------------------------------------------------------------------
(* The steps *)

LEMMA ResetKeeps ==
    ASSUME NEW t, NEW c
    PROVE  ModelOK(ResetModel, t, c)
<1>1. ResetModel \in Models
  <2>1. NoAssembly \in Assemblies BY NoAssemblyKeeps DEF AssemblyOK
  <2>2. 0 \in 0..Fresh /\ NoSession \in Nat BY Constants DEF NoSession
  <2> HIDE DEF NoAssembly
  <2> QED BY <2>1, <2>2, Constants DEF ResetModel, Models
<1>2. /\ ~ResetModel.have /\ ResetModel.session = NoSession /\ ResetModel.retired = NoSession
      /\ ResetModel.assembly = NoAssembly
  BY DEF ResetModel
<1> HIDE DEF ResetModel
<1> QED BY <1>1, <1>2, NoAssemblyKeeps DEF ModelOK, Whole

LEMMA StartIsGood == Init => PathInv
<1> SUFFICES ASSUME Init PROVE PathInv OBVIOUS
<1>1. /\ tx = InitPublisher(1) /\ air = <<>> /\ rx = ResetModel /\ born = 0 /\ slots = Budget
      /\ calm = FALSE
  BY DEF Init
<1>2. 1 \in 1..MaxSessions BY Constants
<1>3. PublisherOK(tx, calm) BY <1>1, <1>2, FirstKeeps
<1>4. AirOK(air, tx, calm)
  <2>1. air \in Seq(Frames) /\ Len(air) = 0 BY <1>1
  <2>2. Len(air) <= Capacity BY <2>1, Constants
  <2>3. 1..Len(air) = {} BY <2>1
  <2> QED BY <2>1, <2>2, <2>3 DEF AirOK, InBootOrder
<1>5. ModelOK(rx, tx, calm) BY <1>1, ResetKeeps
<1>6. ~rx.have BY <1>1 DEF ResetModel
<1>7. Recent(rx, born) /\ Ahead(rx, air) BY <1>6 DEF Recent, Ahead
<1>8. slots \in 0..Budget /\ born \in 0..Horizon BY <1>1, Constants DEF Horizon
<1>9. Unwrapped(tx, air, rx, slots) BY <1>1, <1>3, <1>4, <1>5, <1>8, DisturbedLasts
<1> QED BY <1>1, <1>3, <1>4, <1>5, <1>7, <1>8, <1>9 DEF PathInv, PathOK

(* In the midst of a disturbance the publisher may do anything that spends  *)
(* no more than its numbers.                                                *)
LEMMA DisturbedKeeps ==
    ASSUME NEW t, NEW w, NEW r, NEW b, NEW k, NEW c, PathOK(t, w, r, b, k, c), ~c,
           NEW u, PublisherOK(u, c), Later(t, c, u, c), NEW j \in 0..Budget
    PROVE  PathOK(u, w, r, b, j, c)
<1>1. AirOK(w, u, c) /\ ModelOK(r, u, c) BY LaterKeeps DEF PathOK
<1>2. Unwrapped(u, w, r, j) BY <1>1, DisturbedLasts
<1> QED BY <1>1, <1>2 DEF PathOK

LEMMA SlotsAre ==
    ASSUME NEW k \in 0..Budget, k > 0
    PROVE  k \in 1..Budget /\ k - 1 \in 0..Budget /\ k \in Nat /\ k - 1 \in Nat /\ k - 1 <= k
BY Constants

LEMMA StirsAreGood ==
    ASSUME PathInv, ~calm,
           \/ \E source \in Contents, restart \in BOOLEAN : Observe(source, restart)
           \/ TickBusy \/ TickRefused \/ TickUnencodable \/ RestartController
    PROVE  PathInv'
<1> DEFINE p == Lapsed(tx)
<1>1. /\ PublisherOK(tx, calm) /\ slots \in 0..Budget /\ tx.session \in 1..MaxSessions
      /\ tx.number \in Nat
  BY Constants DEF PathInv, PathOK, PublisherOK, Publishers
<1>2. /\ PublisherOK(p, calm) /\ p.session = tx.session /\ p.number = tx.number
      /\ p.index > 0 => p.started < Deadline
  BY <1>1, StirsKeep
<1>3. /\ PublisherOK(tx', calm) /\ Later(tx, calm, tx', calm)
      /\ slots' \in 0..Budget /\ UNCHANGED <<air, rx, born, calm>>
  <2>1. ASSUME NEW source \in Contents, NEW restart \in BOOLEAN, Observe(source, restart)
        PROVE  /\ PublisherOK(tx', calm) /\ Later(tx, calm, tx', calm)
               /\ slots' \in 0..Budget /\ UNCHANGED <<air, rx, born, calm>>
    <3>1. /\ tx' = Observed(tx, source, restart) /\ UNCHANGED <<air, rx, born, slots, calm>>
      BY <2>1 DEF Observe
    <3>2. PublisherOK(tx', calm) /\ tx'.session = tx.session /\ tx'.number = tx.number
      BY <1>1, <3>1, StirsKeep
    <3> QED BY <1>1, <3>1, <3>2 DEF Later
  <2>2. CASE TickBusy
    <3>1. tx' = p /\ UNCHANGED <<air, rx, born, slots, calm>> BY <2>2 DEF TickBusy
    <3> HIDE DEF p
    <3> QED BY <1>1, <1>2, <3>1 DEF Later
  <2>3. CASE TickRefused
    <3> DEFINE e == Encoded(p)
    <3>1. /\ slots > 0 /\ MayEncode /\ tx' = Refused(e) /\ slots' = slots - 1
          /\ UNCHANGED <<air, rx, born, calm>>
      BY <2>3 DEF TickRefused
    <3>2. p.index = 0 => p.number < CalmBy BY <1>2, <3>1 DEF MayEncode
    <3> HIDE DEF p
    <3>3. /\ PublisherOK(e, calm) /\ e.session = p.session /\ e.number \in 1..MaxNumber
          /\ p.index > 0 => e.number = p.number
          /\ p.index = 0 => e.number = NextNumber(p)
      BY <1>2, <3>2, EncodedKeeps
    <3>4. p.index \in Nat BY <1>2 DEF PublisherOK, Publishers
    <3>5. e.number >= p.number
      <4>1. CASE p.index > 0 BY <1>1, <1>2, <3>3, <4>1
      <4>2. CASE p.index = 0
        <5>1. NextNumber(p) = p.number + 1 BY <1>2, <3>2, <4>2, NextNumberKeeps
        <5> QED BY <1>1, <1>2, <3>3, <4>2, <5>1
      <4> QED BY <3>4, <4>1, <4>2
    <3> HIDE DEF e
    <3>6. PublisherOK(tx', calm) /\ tx'.session = e.session /\ tx'.number = e.number
      BY <3>1, <3>3, QueuedKeeps
    <3>7. slots' \in 0..Budget BY <1>1, <3>1, SlotsAre
    <3> QED BY <1>1, <1>2, <3>1, <3>3, <3>5, <3>6, <3>7 DEF Later
  <2>4. CASE TickUnencodable
    <3>1. /\ p.index = 0 /\ MayEncode /\ tx' = Unencodable(p)
          /\ UNCHANGED <<air, rx, born, slots, calm>>
      BY <2>4 DEF TickUnencodable
    <3>2. p.number < CalmBy BY <1>2, <3>1 DEF MayEncode
    <3> HIDE DEF p
    <3>3. /\ PublisherOK(tx', calm) /\ tx'.session = p.session
          /\ tx'.number = NextNumber(p) /\ NextNumber(p) = p.number + 1
      BY <1>2, <3>1, <3>2, UnencodableKeeps, NextNumberKeeps
    <3> QED BY <1>1, <1>2, <3>1, <3>3 DEF Later
  <2>5. CASE RestartController
    <3>1. /\ tx.session < MaxSessions /\ tx' = InitPublisher(tx.session + 1)
          /\ UNCHANGED <<air, rx, born, slots, calm>>
      BY <2>5 DEF RestartController
    <3>2. tx.session + 1 \in 1..MaxSessions BY <1>1, <3>1, Constants
    <3>3. PublisherOK(tx', calm) /\ tx'.session = tx.session + 1 BY <3>1, <3>2, FirstKeeps
    <3>4. tx'.session > tx.session BY <1>1, <3>3
    <3> QED BY <1>1, <3>1, <3>3, <3>4 DEF Later
  <2> QED BY <2>1, <2>2, <2>3, <2>4, <2>5
<1> HIDE DEF p
<1>4. PathOK(tx', air, rx, born, slots', calm) BY <1>3, DisturbedKeeps DEF PathInv
<1> QED BY <1>3, <1>4 DEF PathInv

LEMMA AuxiliaryIsGood ==
    ASSUME PathInv, TickAuxiliary
    PROVE  PathInv'
<1> DEFINE p == Lapsed(tx)
           u == [p EXCEPT !.aux = @ + 1]
<1>1. /\ PublisherOK(tx, calm) /\ slots \in 0..Budget /\ tx.session \in Nat /\ tx.number \in Nat
  BY Constants DEF PathInv, PathOK, PublisherOK, Publishers
<1>2. /\ slots > 0 /\ p.aux < MaxAux /\ tx' = u /\ slots' = slots - 1 /\ UNCHANGED <<air, rx, born, calm>>
  BY DEF TickAuxiliary, AuxiliaryDue
<1>3. PublisherOK(p, calm) /\ p.session = tx.session /\ p.number = tx.number BY <1>1, StirsKeep
<1> HIDE DEF p
<1>4. PublisherOK(u, calm) /\ u.session = p.session /\ u.number = p.number BY <1>2, <1>3, StirsKeep
<1> HIDE DEF u
<1>5. Later(tx, calm, tx', calm) BY <1>1, <1>2, <1>3, <1>4 DEF Later
<1>6. AirOK(air, tx', calm) /\ ModelOK(rx, tx', calm)
  BY <1>1, <1>2, <1>4, <1>5, LaterKeeps DEF PathInv, PathOK
<1>7. slots - 1 \in 0..Budget /\ slots - 1 \in Nat /\ slots \in Nat /\ slots - 1 <= slots
  BY <1>1, <1>2, SlotsAre
<1>8. Unwrapped(tx', air, rx, slots - 1)
  <2>1. \A n, b \in Nat : Live(n, b, tx', air, rx) => b <= b /\ Live(n, b, tx, air, rx)
    BY <1>2, <1>3, <1>4 DEF Live
  <2>2. \A n, b \in Nat : Live(n, b, tx', air, rx) => \E a \in Nat : a <= b /\ Live(n, a, tx, air, rx)
    BY <2>1
  <2>3. tx'.number = tx.number BY <1>2, <1>3, <1>4
  <2> QED BY <1>1, <1>7, <2>2, <2>3, StillLasts DEF PathInv, PathOK
<1> QED BY <1>2, <1>4, <1>6, <1>7, <1>8 DEF PathInv, PathOK

LEMMA SnapshotIsGood ==
    ASSUME PathInv, TickSnapshot
    PROVE  PathInv'
<1> DEFINE p == Lapsed(tx)
           e == Encoded(p)
           f == FrameOf(e)
           o == Onto(air, f)
<1>1. /\ PublisherOK(tx, calm) /\ slots \in 0..Budget /\ tx.session \in Nat
      /\ tx.number \in 0..MaxNumber /\ tx.number \in Nat /\ calm \in BOOLEAN
  BY Constants DEF PathInv, PathOK, PublisherOK, Publishers
<1>2. /\ slots > 0 /\ MayEncode /\ tx' = Queued(e) /\ air' = o /\ slots' = slots - 1
      /\ UNCHANGED <<rx, born, calm>>
  BY DEF TickSnapshot
<1>3. /\ PublisherOK(p, calm) /\ p.session = tx.session /\ p.number = tx.number /\ p.index \in Nat
      /\ p.index > 0 => p.started < Deadline
  BY <1>1, StirsKeep DEF PublisherOK, Publishers
<1>4. p.index = 0 => calm \/ p.number < CalmBy BY <1>2, <1>3 DEF MayEncode
<1> HIDE DEF p
<1>5. /\ PublisherOK(e, calm) /\ e.session = p.session /\ e.number \in 1..MaxNumber
      /\ e.started < Deadline
      /\ p.index > 0 => e.number = p.number
      /\ p.index = 0 => e.number = NextNumber(p)
  BY <1>3, <1>4, EncodedKeeps
<1>6. \/ e.number = tx.number
      \/ /\ tx.number < MaxNumber => e.number = tx.number + 1
         /\ tx.number = MaxNumber => e.number + Modulus = MaxNumber + 1
         /\ ~calm => e.number = tx.number + 1
  <2>1. CASE p.index > 0 BY <1>3, <1>5, <2>1
  <2>2. CASE p.index = 0
    <3>1. /\ p.number < MaxNumber => NextNumber(p) = p.number + 1
          /\ p.number = MaxNumber => NextNumber(p) + Modulus = MaxNumber + 1
          /\ ~calm => NextNumber(p) = p.number + 1
      BY <1>3, <1>4, <2>2, NextNumberKeeps
    <3> QED BY <1>3, <1>5, <2>2, <3>1
  <2> QED BY <1>3, <2>1, <2>2
<1>7. /\ f.session = e.session /\ f.number = e.number /\ f.born = e.started /\ f.delay = 0
      /\ f.index = e.index /\ f.content = e.content
      /\ f = [session |-> e.session, number |-> e.number, content |-> e.content, index |-> e.index,
              delay |-> 0, born |-> e.started]
  BY DEF FrameOf, Fragment
<1> HIDE DEF e, f
<1>8. e \in Publishers /\ e.started \in Nat /\ e.session \in Nat /\ e.number \in Nat
  BY <1>5, Constants DEF PublisherOK, Publishers
<1>9. FrameOK(f, e, calm)
  <2>1. f \in Frames BY <1>7, <1>8 DEF Frames, Publishers
  <2>2. f.index < Count[f.content] BY <1>5, <1>7 DEF PublisherOK
  <2>3. f.delay <= Transit /\ f.born < f.delay + Deadline BY <1>5, <1>7, <1>8, Constants
  <2>4. f.session \in 1..e.session /\ f.number \in 1..MaxNumber /\ ~(f.session < e.session)
    BY <1>5, <1>7, <1>8, Constants DEF Publishers
  <2>5. ~calm => f.number <= CalmBy BY <1>5, <1>7 DEF PublisherOK
  <2> QED BY <1>7, <1>8, <2>1, <2>2, <2>3, <2>4, <2>5 DEF FrameOK, Named
<1>10. PublisherOK(tx', calm) /\ tx'.session = e.session /\ tx'.number = e.number
  BY <1>2, <1>5, QueuedKeeps
<1>11. Later(tx, calm, tx', calm) BY <1>1, <1>3, <1>5, <1>6, <1>10 DEF Later
<1>12. AirOK(air, tx', calm) /\ ModelOK(rx, tx', calm)
  BY <1>1, <1>10, <1>11, LaterKeeps DEF PathInv, PathOK
<1>13. FrameOK(f, tx', calm) /\ tx' \in Publishers BY <1>9, <1>10 DEF FrameOK, Named, PublisherOK
<1>14. /\ AirOK(o, tx', calm)
       /\ \A i \in 1..Len(o) : o[i] = f \/ \E j \in 1..Len(air) : o[i] = air[j]
  <2>1. f.session = tx'.session BY <1>7, <1>10
  <2>2. AirOK(air, tx', calm) /\ FrameOK(f, tx', calm) /\ tx' \in Publishers BY <1>12, <1>13
  <2>3. AirOK(o, tx', calm) /\ From(o, air, f) BY <2>1, <2>2, OntoKeeps
  <2> QED BY <2>3 DEF From
<1> HIDE DEF o
<1>15. slots - 1 \in 0..Budget /\ slots - 1 \in Nat /\ slots \in 1..Budget /\ slots - 1 <= slots
  BY <1>1, <1>2, SlotsAre
<1>16. Unwrapped(tx', o, rx, slots - 1)
  <2>1. ASSUME NEW n \in Nat, NEW b \in Nat, Live(n, b, tx', o, rx)
        PROVE  \/ n = e.number /\ b >= 1
               \/ Live(n, b, tx, air, rx)
    <3>1. CASE n = tx'.number /\ b = 1 BY <1>10, <3>1
    <3>2. ASSUME NEW i \in 1..Len(o), o[i].session = tx'.session, n = o[i].number, b = o[i].born + 1
          PROVE  \/ n = e.number /\ b >= 1
                 \/ Live(n, b, tx, air, rx)
      <4>1. CASE o[i] = f BY <1>7, <1>8, <3>2, <4>1
      <4>2. ASSUME NEW j \in 1..Len(air), o[i] = air[j] PROVE Live(n, b, tx, air, rx)
        BY <1>3, <1>5, <1>10, <3>2, <4>2 DEF Live
      <4> QED BY <1>14, <4>1, <4>2
    <3>3. CASE /\ rx.assembly.active /\ rx.assembly.age < Fresh /\ rx.assembly.session = tx'.session
               /\ n = rx.assembly.number /\ b = rx.assembly.age + Deadline + Transit
      BY <1>3, <1>5, <1>10, <3>3 DEF Live
    <3> QED BY <2>1, <3>1, <3>2, <3>3 DEF Live
  <2>2. AirOK(air, tx, calm) /\ ModelOK(rx, tx, calm) /\ Unwrapped(tx, air, rx, slots)
    BY DEF PathInv, PathOK
  <2>3. CASE ~calm BY <1>10, <1>12, <1>14, <1>15, <2>3, DisturbedLasts
  <2>4. CASE e.number = tx.number
    <3>1. Live(tx.number, 1, tx, air, rx) BY DEF Live
    <3>2. \A n, b \in Nat : Live(n, b, tx', o, rx) => \E a \in Nat : a <= b /\ Live(n, a, tx, air, rx)
      <4> SUFFICES ASSUME NEW n \in Nat, NEW b \in Nat, Live(n, b, tx', o, rx)
                   PROVE  \E a \in Nat : a <= b /\ Live(n, a, tx, air, rx)
        OBVIOUS
      <4>1. CASE n = e.number /\ b >= 1 BY <2>4, <3>1, <4>1
      <4>2. CASE Live(n, b, tx, air, rx)
        <5>1. b <= b OBVIOUS
        <5> QED BY <4>2, <5>1
      <4> QED BY <2>1, <4>1, <4>2
    <3>3. slots \in Nat /\ tx'.number = tx.number BY <1>1, <1>10, <2>4, Constants
    <3> QED BY <1>1, <1>15, <2>2, <3>2, <3>3, StillLasts
  <2>5. CASE calm /\ e.number # tx.number
    <3>1. \A n, b \in Nat : Live(n, b, tx', o, rx) =>
              \/ n = tx'.number /\ b >= 1
              \/ \E a \in Nat : a <= b /\ a <= Span /\ Live(n, a, tx, air, rx)
      <4> SUFFICES ASSUME NEW n \in Nat, NEW b \in Nat, Live(n, b, tx', o, rx), Live(n, b, tx, air, rx)
                   PROVE  \E a \in Nat : a <= b /\ a <= Span /\ Live(n, a, tx, air, rx)
        BY <1>10, <2>1
      <4>1. b <= b /\ b <= Span BY <2>2, LiveIsYoung
      <4> QED BY <4>1
    <3>2. /\ tx'.number \in 1..MaxNumber
          /\ tx.number < MaxNumber => tx'.number = tx.number + 1
          /\ tx.number = MaxNumber => tx'.number + Modulus = MaxNumber + 1
      BY <1>5, <1>6, <1>10, <2>5
    <3> QED BY <1>1, <1>15, <2>2, <3>1, <3>2, SpentLasts
  <2> QED BY <1>1, <2>3, <2>4, <2>5
<1>17. ~calm => Ahead(rx, o)
  <2> SUFFICES ASSUME ~calm, rx.have PROVE Ahead(rx, o) BY DEF Ahead
  <2>1. Ahead(rx, air) BY DEF PathInv, PathOK
  <2>2. Named(rx.session, rx.number, tx, calm) /\ rx.session \in Nat BY DEF PathInv, PathOK, ModelOK, Models
  <2>3. f.session >= rx.session /\ (f.session = rx.session => f.number >= rx.number)
    BY <1>1, <1>3, <1>5, <1>6, <1>7, <2>2, Constants DEF Named
  <2> QED BY <1>14, <2>1, <2>3 DEF Ahead
<1> QED BY <1>2, <1>10, <1>12, <1>14, <1>15, <1>16, <1>17 DEF PathInv, PathOK

LEMMA LossIsGood ==
    ASSUME PathInv, NEW i \in 1..Len(air), Lose(i)
    PROVE  PathInv'
<1>1. ~calm /\ air' = RemoveAt(air, i) /\ UNCHANGED <<tx, rx, born, slots, calm>> BY DEF Lose
<1>2. air \in Seq(Frames) BY DEF PathInv, PathOK, AirOK
<1>3. Sub(air', air) BY <1>1, <1>2, RemovedIsSub
<1>4. AirOK(air', tx, calm) /\ (Ahead(rx, air) => Ahead(rx, air')) BY <1>3, SubKeeps DEF PathInv, PathOK
<1>5. Unwrapped(tx, air', rx, slots) BY <1>1, <1>4, DisturbedLasts DEF PathInv, PathOK
<1> QED BY <1>1, <1>4, <1>5 DEF PathInv, PathOK

LEMMA RestartIsGood ==
    ASSUME PathInv, RestartPanel
    PROVE  PathInv'
<1>1. ~calm /\ rx' = ResetModel /\ born' = 0 /\ UNCHANGED <<tx, air, slots, calm>> BY DEF RestartPanel
<1>2. ModelOK(rx', tx, calm) BY <1>1, ResetKeeps
<1>3. ~rx'.have BY <1>1 DEF ResetModel
<1>4. Recent(rx', born') /\ Ahead(rx', air) BY <1>3 DEF Recent, Ahead
<1>5. born' \in 0..Horizon BY <1>1, Constants DEF Horizon
<1>6. Unwrapped(tx, air, rx', slots) BY <1>1, <1>2, DisturbedLasts DEF PathInv, PathOK
<1> QED BY <1>1, <1>2, <1>4, <1>5, <1>6 DEF PathInv, PathOK

LEMMA CalmIsGood ==
    ASSUME PathInv, CalmDown
    PROVE  PathInv'
<1>1. ~calm /\ calm' = TRUE /\ UNCHANGED <<tx, air, rx, born, slots>> BY DEF CalmDown
<1>2. PublisherOK(tx, calm) /\ PublisherOK(tx, calm') /\ Later(tx, calm, tx, calm')
  BY <1>1 DEF PathInv, PathOK, PublisherOK, Later
<1>3. AirOK(air, tx, calm') /\ ModelOK(rx, tx, calm') BY <1>2, LaterKeeps DEF PathInv, PathOK
<1> QED BY <1>1, <1>2, <1>3 DEF PathInv, PathOK

(* What a delivery leaves alive was alive. *)
LEMMA DeliveredLives ==
    ASSUME NEW t, NEW c, NEW w, NEW r, NEW v, NEW u, NEW i \in 1..Len(w), AirOK(w, t, c), Sub(v, w),
           ModelOK(r, t, c), Joins(LiveAssembly(r), w[i]) => w[i].number = LiveAssembly(r).number,
           u = r \/ Reassembles(r, w[i], t, c, u) \/ Commits(r, w[i], t, c, u),
           NEW n \in Nat, NEW b \in Nat, Live(n, b, t, v, u)
    PROVE  \E a \in Nat : a <= b /\ Live(n, a, t, w, r)
<1> DEFINE f == w[i]
           live == LiveAssembly(r)
<1>0. b <= b OBVIOUS
<1>1. CASE n = t.number /\ b = 1 BY <1>0, <1>1 DEF Live
<1>2. ASSUME NEW j \in 1..Len(v), v[j].session = t.session, n = v[j].number, b = v[j].born + 1
      PROVE  Live(n, b, t, w, r)
  <2>1. PICK k \in 1..Len(w) : v[j] = w[k] BY DEF Sub
  <2> QED BY <1>2, <2>1 DEF Live
<1>3. CASE /\ u.assembly.active /\ u.assembly.age < Fresh /\ u.assembly.session = t.session
           /\ n = u.assembly.number /\ b = u.assembly.age + Deadline + Transit
  <2>1. ASSUME r.assembly = u.assembly PROVE Live(n, b, t, w, r) BY <1>3, <2>1 DEF Live
  <2>2. CASE u = r BY <1>0, <2>1, <2>2
  <2>3. CASE Reassembles(r, f, t, c, u)
    <3>1. PICK a : /\ AssemblyOK(a, t, c) /\ u = [r EXCEPT !.assembly = a]
                   /\ a = NoAssembly \/ a = live \/ Gained(r, f, a)
      BY <2>3 DEF Reassembles
    <3>2. u.assembly = a BY <3>1, ReassembledKeeps
    <3>3. a # NoAssembly BY <1>3, <3>2 DEF NoAssembly
    <3>4. CASE a = live
      <4>1. a = r.assembly BY <3>3, <3>4 DEF LiveAssembly
      <4> QED BY <1>0, <2>1, <3>2, <4>1
    <3>5. CASE Gained(r, f, a)
      <4>1. a.session = f.session /\ a.number = f.number
            /\ (a.age = 0 \/ (Joins(live, f) /\ a.age = live.age))
        BY <3>5 DEF Gained
      <4>2. CASE a.age = 0
        <5>1. Live(n, f.born + 1, t, w, r) BY <1>3, <3>2, <4>1 DEF Live
        <5>2. FrameOK(f, t, c) BY DEF AirOK
        <5> HIDE DEF f
        <5>3. f.born \in Nat /\ f.delay \in Nat /\ f.delay <= Transit /\ f.born < f.delay + Deadline
          BY <5>2 DEF FrameOK, Frames
        <5>4. b = 0 + Deadline + Transit BY <1>3, <3>2, <4>2
        <5>5. f.born + 1 \in Nat /\ f.born + 1 <= b BY <5>3, <5>4, Constants
        <5> QED BY <5>1, <5>5
      <4>3. CASE Joins(live, f) /\ a.age = live.age
        <5>1. f.number = live.number /\ f.session = live.session /\ live.active BY <4>3 DEF Joins
        <5>2. live = r.assembly BY <5>1 DEF LiveAssembly, NoAssembly
        <5> HIDE DEF live, f
        <5>3. Live(n, b, t, w, r) BY <1>3, <3>2, <4>1, <4>3, <5>1, <5>2 DEF Live
        <5> QED BY <1>0, <5>3
      <4> QED BY <4>1, <4>2, <4>3
    <3> QED BY <3>1, <3>3, <3>4, <3>5
  <2>4. ~Commits(r, f, t, c, u) BY <1>3, CommittedKeeps
  <2> QED BY <2>2, <2>3, <2>4
<1> QED BY <1>0, <1>1, <1>2, <1>3 DEF Live

LEMMA DeliveryIsGood ==
    ASSUME PathInv, NEW i \in 1..Len(air), NEW repeated \in BOOLEAN, Deliver(i, repeated)
    PROVE  /\ PathInv'
           /\ rx.have /\ rx'.have /\ ~calm => \/ rx'.session > rx.session
                                              \/ rx'.session = rx.session /\ rx'.number >= rx.number
<1> DEFINE f == air[i]
           x == IF rx'.have /\ <<rx'.have, rx'.session, rx'.number>> # <<rx.have, rx.session, rx.number>>
                THEN f.born ELSE born
<1>1. /\ Deliverable(i) /\ rx' = Accept(rx, f) /\ born' = x
      /\ air' = IF repeated THEN air ELSE RemoveAt(air, i)
      /\ UNCHANGED <<tx, slots, calm>>
  BY DEF Deliver
<1>2. /\ PublisherOK(tx, calm) /\ AirOK(air, tx, calm) /\ ModelOK(rx, tx, calm) /\ Recent(rx, born)
      /\ Unwrapped(tx, air, rx, slots) /\ slots \in 0..Budget /\ calm \in BOOLEAN /\ born \in 0..Horizon
      /\ (~calm => Ahead(rx, air))
  BY DEF PathInv, PathOK
<1>3. FrameOK(f, tx, calm) /\ air \in Seq(Frames) BY <1>2 DEF AirOK
<1>4. slots \in Nat /\ tx.number \in Nat BY <1>2, Constants DEF PublisherOK, Publishers
<1>5. Joins(LiveAssembly(rx), f) => f.number = LiveAssembly(rx).number BY <1>2, <1>4, NumbersMeet
<1>6. rx' = rx \/ Reassembles(rx, f, tx, calm, rx') \/ Commits(rx, f, tx, calm, rx')
  <2> HIDE DEF f
  <2> QED BY <1>1, <1>2, <1>3, <1>5, AcceptDoes
<1>7. Sub(air', air)
  <2>1. CASE repeated
    <3>1. air' = air BY <1>1, <2>1
    <3> QED BY <1>3, <3>1, SameIsSub
  <2>2. CASE ~repeated
    <3>1. air' = RemoveAt(air, i) BY <1>1, <2>2
    <3> QED BY <1>3, <3>1, RemovedIsSub
  <2> QED BY <2>1, <2>2
<1>8. AirOK(air', tx, calm) BY <1>2, <1>7, SubKeeps
<1>9. ModelOK(rx', tx, calm) /\ Recent(rx', born') /\ born' \in 0..Horizon
  <2>1. ModelOK(rx', tx, calm) /\ Recent(rx', x) /\ f.born \in 0..Horizon
    <3> HIDE DEF f
    <3> QED BY <1>2, <1>3, <1>6, RecentKeeps
  <2> QED BY <1>1, <1>2, <2>1
<1>10. ~calm => /\ Ahead(rx', air')
                /\ rx.have /\ rx'.have => \/ rx'.session > rx.session
                                          \/ rx'.session = rx.session /\ rx'.number >= rx.number
  <2> SUFFICES ASSUME ~calm
               PROVE  /\ Ahead(rx', air')
                      /\ rx.have /\ rx'.have => \/ rx'.session > rx.session
                                                \/ rx'.session = rx.session /\ rx'.number >= rx.number
    OBVIOUS
  <2>1. \A j \in 1..(i - 1) : \/ air[j].session \in {air[i].session, rx.session}
                              \/ air[i].session = rx.session /\ air[j].session = rx.retired
    BY <1>1 DEF Deliverable
  <2>2. /\ Ahead(rx', air)
        /\ rx.have /\ rx'.have => \/ rx'.session > rx.session
                                  \/ rx'.session = rx.session /\ rx'.number >= rx.number
    BY <1>2, <1>6, <2>1, AheadKeeps
  <2>3. Ahead(rx', air') BY <1>2, <1>7, <2>2, SubKeeps
  <2> QED BY <2>2, <2>3
<1>11. Unwrapped(tx, air', rx', slots)
  <2>1. \A n, b \in Nat : Live(n, b, tx, air', rx') => \E a \in Nat : a <= b /\ Live(n, a, tx, air, rx)
    BY <1>2, <1>5, <1>6, <1>7, DeliveredLives
  <2>2. slots <= slots BY <1>4
  <2> QED BY <1>2, <1>4, <2>1, <2>2, StillLasts
<1> HIDE DEF f, x
<1> QED BY <1>1, <1>2, <1>8, <1>9, <1>10, <1>11 DEF PathInv, PathOK

LEMMA AgedModelKeeps ==
    ASSUME NEW t, NEW c, NEW r, ModelOK(r, t, c)
    PROVE  LET u == AgedModel(r)
           IN  /\ ModelOK(u, t, c) /\ u.have = r.have /\ u.session = r.session /\ u.number = r.number
               /\ u.retired = r.retired
               /\ u.age <= r.age + 1 /\ (r.have /\ u.age < Fresh => u.age = r.age + 1)
               /\ u.assembly.active = r.assembly.active /\ u.assembly.session = r.assembly.session
               /\ u.assembly.number = r.assembly.number
               /\ u.assembly.active /\ u.assembly.age < Fresh => u.assembly.age = r.assembly.age + 1
<1> DEFINE a == r.assembly
           x == IF r.have /\ r.age < Fresh THEN r.age + 1 ELSE r.age
           y == IF a.active /\ a.age < Fresh THEN a.age + 1 ELSE a.age
           b == [a EXCEPT !.age = y]
           u == [r EXCEPT !.age = x, !.assembly = b]
<1>1. r \in Models /\ AssemblyOK(a, t, c) /\ a \in Assemblies /\ r.age \in 0..Fresh /\ a.age \in 0..Fresh
      /\ r.have \in BOOLEAN /\ a.active \in BOOLEAN
  BY DEF ModelOK, AssemblyOK, Models, Assemblies
<1>2. AgedModel(r) = u
  <2>1. AgedModel(r) = [r EXCEPT !.age = x, !.assembly.age = y] BY DEF AgedModel
  <2> HIDE DEF x, y
  <2>2. [r EXCEPT !.age = x, !.assembly.age = y] = u BY <1>1 DEF Models
  <2> QED BY <2>1, <2>2
<1>3. x \in 0..Fresh /\ y \in 0..Fresh BY <1>1, Constants
<1>4. x <= r.age + 1 /\ (r.have /\ x < Fresh => x = r.age + 1)
      /\ (a.active /\ y < Fresh => y = a.age + 1)
  BY <1>1, Constants
<1> HIDE DEF x, y
<1>5. b \in Assemblies BY <1>1, <1>3 DEF Assemblies
<1>6. /\ b.active = a.active /\ b.session = a.session /\ b.number = a.number /\ b.age = y
      /\ b.content = a.content /\ b.pieces = a.pieces
  BY <1>1 DEF Assemblies
<1> HIDE DEF b
<1>7. AssemblyOK(b, t, c) BY <1>1, <1>5, <1>6 DEF AssemblyOK, Collected
<1>8. u \in Models BY <1>1, <1>3, <1>5 DEF Models
<1>9. /\ u.have = r.have /\ u.session = r.session /\ u.number = r.number /\ u.content = r.content
      /\ u.pieces = r.pieces /\ u.retired = r.retired /\ u.age = x /\ u.assembly = b
  BY <1>1 DEF Models
<1> HIDE DEF u
<1>10. Whole(u) BY <1>9 DEF Whole, ModelOK
<1>11. ModelOK(u, t, c) BY <1>7, <1>8, <1>9, <1>10 DEF ModelOK
<1> QED BY <1>2, <1>4, <1>6, <1>9, <1>11

LEMMA AgedFrameKeeps ==
    ASSUME NEW t, NEW c, NEW f, FrameOK(f, t, c)
    PROVE  LET g == AgedFrame(f)
           IN  /\ Timely(f) => FrameOK(g, t, c)
               /\ g \in Frames /\ g.session = f.session /\ g.number = f.number /\ g.delay = f.delay + 1
<1> DEFINE g == AgedFrame(f)
<1>1. f \in Frames /\ f.delay \in Nat /\ f.born \in Nat BY DEF FrameOK, Frames
<1> DEFINE d == f.delay + 1
           b == f.born + 1
<1>2. g = [f EXCEPT !.delay = d, !.born = b] BY DEF AgedFrame
<1>0. d \in Nat /\ b \in Nat /\ d = f.delay + 1 /\ b = f.born + 1 BY <1>1
<1> HIDE DEF d, b, g
<1>3. g \in Frames BY <1>1, <1>2, <1>0 DEF Frames
<1>4. /\ g.session = f.session /\ g.number = f.number /\ g.delay = f.delay + 1 /\ g.born = f.born + 1
      /\ g.index = f.index /\ g.content = f.content
  BY <1>1, <1>2, <1>0 DEF Frames
<1>5. ASSUME Timely(f) PROVE FrameOK(g, t, c)
  <2>1. g.delay <= Transit /\ g.born < g.delay + Deadline
    BY <1>1, <1>4, <1>5, Constants DEF Timely, FrameOK
  <2> QED BY <1>3, <1>4, <2>1 DEF FrameOK
<1> QED BY <1>3, <1>4, <1>5 DEF g

(* The frames that are not too late go on, in their order. *)
AgedAir(w, late) == [i \in 1..(Len(w) - late) |-> AgedFrame(w[late + i])]
Older(v, w) ==
    \A i \in 1..Len(v) : \E j \in 1..Len(w) :
        v[i].session = w[j].session /\ v[i].number = w[j].number /\ v[i].delay = w[j].delay + 1

LEMMA AgedAirKeeps ==
    ASSUME NEW t, NEW c, NEW w, NEW late \in 0..Len(w), AirOK(w, t, c),
           \A i \in 1..Len(w) : Timely(w[i]) <=> i > late
    PROVE  AirOK(AgedAir(w, late), t, c) /\ Older(AgedAir(w, late), w)
<1> DEFINE n == Len(w) - late
           v == [i \in 1..n |-> AgedFrame(w[late + i])]
<1>1. w \in Seq(Frames) /\ Len(w) \in Nat /\ Len(w) <= Capacity BY LenProperties DEF AirOK
<1>2. n \in Nat /\ n <= Capacity BY <1>1, Constants
<1>3. \A i \in 1..n : late + i \in 1..Len(w) /\ late + i > late BY <1>1
<1> HIDE DEF n
<1>4. ASSUME NEW i \in 1..n
      PROVE  /\ v[i] = AgedFrame(w[late + i]) /\ FrameOK(v[i], t, c) /\ v[i] \in Frames
             /\ v[i].session = w[late + i].session /\ v[i].number = w[late + i].number
             /\ v[i].delay = w[late + i].delay + 1
  <2> DEFINE f == w[late + i]
  <2>1. FrameOK(f, t, c) /\ Timely(f) BY <1>3 DEF AirOK
  <2>2. v[i] = AgedFrame(f) OBVIOUS
  <2> HIDE DEF f
  <2>3. /\ FrameOK(AgedFrame(f), t, c) /\ AgedFrame(f) \in Frames
        /\ AgedFrame(f).session = f.session /\ AgedFrame(f).number = f.number
        /\ AgedFrame(f).delay = f.delay + 1
    BY <2>1, AgedFrameKeeps
  <2> HIDE DEF v
  <2> QED BY <2>2, <2>3 DEF f
<1>5. v \in Seq(Frames) /\ Len(v) = n
  <2>1. \A i \in 1..n : AgedFrame(w[late + i]) \in Frames BY <1>4
  <2>2. v \in [1..n -> Frames] BY <2>1
  <2> HIDE DEF v
  <2> QED BY <1>2, <2>2, SeqDef, LenProperties
<1> HIDE DEF v
<1>6. InBootOrder(v)
  <2> SUFFICES ASSUME NEW i \in 1..Len(v), NEW j \in 1..Len(v), i < j
               PROVE  v[i].session <= v[j].session
    BY DEF InBootOrder
  <2>1. late + i < late + j BY <1>2, <1>5
  <2>2. w[late + i].session <= w[late + j].session BY <1>3, <1>5, <2>1 DEF AirOK, InBootOrder
  <2> QED BY <1>4, <1>5, <2>2
<1>7. AirOK(v, t, c) BY <1>2, <1>4, <1>5, <1>6 DEF AirOK
<1>8. Older(v, w) BY <1>3, <1>4, <1>5 DEF Older
<1> QED BY <1>7, <1>8 DEF AgedAir, v, n

LEMMA ElapseIsGood ==
    ASSUME PathInv, Elapse
    PROVE  PathInv'
<1>1. /\ calm => air = <<>>
      /\ tx' = AgedPublisher(tx) /\ rx' = AgedModel(rx)
      /\ born' = IF rx.have /\ born < Horizon THEN born + 1 ELSE born
      /\ slots' = Budget /\ UNCHANGED calm
  BY DEF Elapse
<1>2. PICK late \in 0..Len(air) :
          /\ \A i \in 1..Len(air) : Timely(air[i]) <=> i > late
          /\ air' = [i \in 1..(Len(air) - late) |-> AgedFrame(air[late + i])]
  BY DEF Elapse
<1>3. /\ PublisherOK(tx, calm) /\ AirOK(air, tx, calm) /\ ModelOK(rx, tx, calm) /\ Recent(rx, born)
      /\ Unwrapped(tx, air, rx, slots) /\ slots \in 0..Budget /\ calm \in BOOLEAN /\ born \in 0..Horizon
      /\ (~calm => Ahead(rx, air))
  BY DEF PathInv, PathOK
<1>4. PublisherOK(tx', calm) /\ tx'.session = tx.session /\ tx'.number = tx.number
  BY <1>1, <1>3, StirsKeep
<1>5. tx.session \in Nat /\ tx.number \in Nat /\ rx.age \in Nat
  BY <1>3, Constants DEF PublisherOK, Publishers, ModelOK, Models
<1>6. Later(tx, calm, tx', calm) BY <1>4, <1>5 DEF Later
<1>7. AirOK(air, tx', calm) /\ ModelOK(rx, tx', calm) BY <1>3, <1>4, <1>6, LaterKeeps
<1>8. /\ AirOK(air', tx', calm)
      /\ \A i \in 1..Len(air') : \E j \in 1..Len(air) :
            /\ air'[i].session = air[j].session /\ air'[i].number = air[j].number
            /\ air'[i].delay = air[j].delay + 1
  <2>1. air' = AgedAir(air, late) BY <1>2 DEF AgedAir
  <2>2. AirOK(air', tx', calm) /\ Older(air', air) BY <1>2, <1>7, <2>1, AgedAirKeeps
  <2> QED BY <2>2 DEF Older
<1>9. /\ ModelOK(rx', tx', calm) /\ rx'.have = rx.have /\ rx'.session = rx.session
      /\ rx'.number = rx.number /\ rx'.retired = rx.retired
      /\ rx'.age <= rx.age + 1 /\ (rx.have /\ rx'.age < Fresh => rx'.age = rx.age + 1)
      /\ rx'.assembly.active = rx.assembly.active /\ rx'.assembly.session = rx.assembly.session
      /\ rx'.assembly.number = rx.assembly.number
      /\ rx'.assembly.active /\ rx'.assembly.age < Fresh => rx'.assembly.age = rx.assembly.age + 1
  BY <1>1, <1>7, AgedModelKeeps
<1>10. rx'.age \in Nat /\ rx'.age \in 0..Fresh BY <1>9, Constants DEF ModelOK, Models
<1>11. born' \in 0..Horizon BY <1>1, <1>3, Constants DEF Horizon
<1>12. Recent(rx', born')
  <2> SUFFICES ASSUME rx'.have, rx'.age < Fresh PROVE born' < rx'.age + Deadline + Transit
    BY DEF Recent
  <2>1. rx'.age = rx.age + 1 /\ rx.age < Fresh BY <1>5, <1>9, Constants
  <2>2. born < rx.age + Deadline + Transit BY <1>3, <1>9, <2>1 DEF Recent
  <2>3. born' <= born + 1 /\ born \in Nat /\ born' \in Nat BY <1>1, <1>3, <1>11, Constants DEF Horizon
  <2> QED BY <1>5, <2>1, <2>2, <2>3, Constants
<1>13. ~calm => Ahead(rx', air')
  <2> SUFFICES ASSUME ~calm, rx'.have PROVE Ahead(rx', air') BY DEF Ahead
  <2>1. Ahead(rx, air) /\ rx.have BY <1>3, <1>9
  <2>2. ASSUME NEW i \in 1..Len(air')
        PROVE  /\ air'[i].session >= rx'.session \/ air'[i].session = rx'.retired
               /\ air'[i].session = rx'.session /\ air'[i].delay < rx'.age => air'[i].number >= rx'.number
    <3>1. PICK j \in 1..Len(air) :
              /\ air'[i].session = air[j].session /\ air'[i].number = air[j].number
              /\ air'[i].delay = air[j].delay + 1
      BY <1>8
    <3>2. air[j].delay \in Nat
      <4> DEFINE f == air[j]
      <4>1. FrameOK(f, tx, calm) BY <1>3 DEF AirOK
      <4> HIDE DEF f
      <4>2. f.delay \in Nat BY <4>1 DEF FrameOK, Frames
      <4> QED BY <4>2 DEF f
    <3>3. air'[i].delay < rx'.age => air[j].delay < rx.age BY <1>5, <1>9, <1>10, <3>1, <3>2
    <3>4. /\ air[j].session >= rx.session \/ air[j].session = rx.retired
          /\ air[j].session = rx.session /\ air[j].delay < rx.age => air[j].number >= rx.number
      BY <2>1 DEF Ahead
    <3> QED BY <1>9, <3>1, <3>3, <3>4
  <2>3. rx'.assembly.active =>
            \/ rx'.assembly.session > rx'.session
            \/ rx'.assembly.session = rx'.session /\ rx'.assembly.number > rx'.number
    BY <1>9, <2>1 DEF Ahead
  <2> QED BY <2>2, <2>3 DEF Ahead
<1>14. slots' \in 0..Budget BY <1>1, Constants
<1>15. Unwrapped(tx', air', rx', slots')
  <2>1. CASE ~calm BY <1>4, <1>8, <1>9, <1>14, <2>1, DisturbedLasts
  <2>2. CASE calm
    <3>1. 1..Len(air') = {}
      <4>1. Len(air) = 0 BY <1>1, <2>2
      <4>2. 1..Len(air) = {} BY <4>1
      <4> QED BY <1>8, <4>2
    <3>2. ASSUME NEW n \in Nat, NEW b \in Nat, Live(n, b, tx', air', rx')
          PROVE  \/ n = tx.number /\ b = 1
                 \/ \E a \in Nat : b = a + 1 /\ Live(n, a, tx, air, rx)
      <4>1. CASE n = tx'.number /\ b = 1 BY <1>4, <4>1
      <4>2. CASE /\ rx'.assembly.active /\ rx'.assembly.age < Fresh /\ rx'.assembly.session = tx'.session
                 /\ n = rx'.assembly.number /\ b = rx'.assembly.age + Deadline + Transit
        <5> DEFINE a == rx.assembly.age + Deadline + Transit
        <5>1. rx.assembly.age \in Nat BY <1>3, Constants DEF ModelOK, AssemblyOK, Assemblies
        <5>2. rx'.assembly.age = rx.assembly.age + 1 BY <1>9, <4>2
        <5>3. a \in Nat /\ b = a + 1 /\ rx.assembly.age < Fresh BY <4>2, <5>1, <5>2, Constants
        <5>4. Live(n, a, tx, air, rx) BY <1>4, <1>9, <4>2, <5>3 DEF Live
        <5> HIDE DEF a
        <5> QED BY <5>3, <5>4
      <4> QED BY <3>1, <3>2, <4>1, <4>2 DEF Live
    <3>3. Live(tx.number, 1, tx, air, rx) BY DEF Live
    <3>4. \A m, x \in Nat : Live(m, x, tx', air', rx') => \E a \in Nat : Live(m, a, tx, air, rx)
      BY <3>2, <3>3
    <3>5. ASSUME MaxNumber # Modulus, NEW n \in Nat, NEW b \in Nat, Live(n, b, tx', air', rx'),
                 n + Modulus <= MaxNumber
          PROVE  Lasts(n, b, tx', air', rx', Budget)
      <4>1. PICK a \in Nat : /\ Live(n, a, tx, air, rx)
                             /\ (n = tx.number /\ b = 1) \/ b = a + 1
        BY <3>2, <3>3, <3>5
      <4>2. Lasts(n, a, tx, air, rx, slots) BY <1>3, <3>5, <4>1 DEF Unwrapped
      <4>3. \A m, x \in Nat : Live(m, x, tx', air', rx') => m <= tx'.number
        BY <1>4, <3>4, <4>2 DEF Lasts
      <4>4. tx'.number + Budget <= n + CalmBy + Budget * b
        <5>1. CASE n = tx.number /\ b = 1 BY <1>4, <1>5, <5>1, Constants
        <5>2. CASE b = a + 1
          <6> DEFINE y == Budget * a
          <6>1. tx.number + slots <= n + CalmBy + y BY <4>2 DEF Lasts
          <6>2. Budget * b = y + Budget BY <5>2, Constants
          <6>3. y \in Nat /\ slots \in Nat
            <7>1. a <= a OBVIOUS
            <7> QED BY <1>3, <7>1, MoreIsMore, Constants
          <6> HIDE DEF y
          <6> QED BY <1>4, <1>5, <6>1, <6>2, <6>3, Constants
        <5> QED BY <4>1, <5>1, <5>2
      <4> QED BY <4>3, <4>4 DEF Lasts
    <3> QED BY <1>1, <3>5 DEF Unwrapped
  <2> QED BY <1>3, <2>1, <2>2
<1> QED BY <1>1, <1>3, <1>4, <1>8, <1>9, <1>11, <1>12, <1>13, <1>14, <1>15 DEF PathInv, PathOK

-------------------------------------------------------------------------------
(* The theorems *)

Forth(r, u) == \/ u.session > r.session
               \/ u.session = r.session /\ u.number >= r.number

LEMMA StillForth ==
    ASSUME PathInv, rx'.session = rx.session, rx'.number = rx.number
    PROVE  Forth(rx, rx')
<1>1. rx.session \in Nat /\ rx.number \in Nat BY DEF PathInv, PathOK, ModelOK, Models
<1> QED BY <1>1 DEF Forth

LEMMA NextIsGood ==
    ASSUME PathInv, [Next]_vars
    PROVE  PathInv' /\ (rx.have /\ rx'.have /\ ~calm => Forth(rx, rx'))
<1>1. ASSUME \/ \E source \in Contents, restart \in BOOLEAN : Observe(source, restart)
             \/ TickBusy \/ TickRefused \/ TickUnencodable \/ RestartController
      PROVE  PathInv' /\ Forth(rx, rx')
  <2>1. ~calm /\ rx' = rx
    BY <1>1 DEF Observe, TickBusy, TickRefused, TickUnencodable, RestartController
  <2>2. PathInv' BY <1>1, <2>1, StirsAreGood
  <2> QED BY <2>1, <2>2, StillForth
<1>2. CASE TickAuxiliary
  <2>1. rx' = rx BY <1>2 DEF TickAuxiliary
  <2> QED BY <1>2, <2>1, AuxiliaryIsGood, StillForth
<1>3. CASE TickSnapshot
  <2>1. rx' = rx BY <1>3 DEF TickSnapshot
  <2> QED BY <1>3, <2>1, SnapshotIsGood, StillForth
<1>4. ASSUME NEW i \in 1..Len(air), Lose(i) PROVE PathInv' /\ Forth(rx, rx')
  <2>1. rx' = rx BY <1>4 DEF Lose
  <2> QED BY <1>4, <2>1, LossIsGood, StillForth
<1>5. ASSUME NEW i \in 1..Len(air), NEW repeated \in BOOLEAN, Deliver(i, repeated)
      PROVE  PathInv' /\ (rx.have /\ rx'.have /\ ~calm => Forth(rx, rx'))
  BY <1>5, DeliveryIsGood DEF Forth
<1>6. CASE RestartPanel
  <2>1. ~rx'.have BY <1>6 DEF RestartPanel, ResetModel
  <2> QED BY <1>6, <2>1, RestartIsGood
<1>7. CASE Elapse
  <2>1. rx'.session = rx.session /\ rx'.number = rx.number
    <3>1. rx' = AgedModel(rx) /\ ModelOK(rx, tx, calm) BY <1>7 DEF Elapse, PathInv, PathOK
    <3> QED BY <3>1, AgedModelKeeps
  <2> QED BY <1>7, <2>1, ElapseIsGood, StillForth
<1>8. CASE CalmDown
  <2>1. rx' = rx BY <1>8 DEF CalmDown
  <2> QED BY <1>8, <2>1, CalmIsGood, StillForth
<1>9. CASE UNCHANGED vars
  <2>1. PathInv' BY <1>9 DEF vars, PathInv
  <2>2. rx' = rx BY <1>9 DEF vars
  <2> QED BY <2>1, <2>2, StillForth
<1> QED BY <1>1, <1>2, <1>3, <1>4, <1>5, <1>6, <1>7, <1>8, <1>9 DEF Next

(* The invariant of the Now Playing path holds for any contents, timing,    *)
(* sequence space, capacity and number of boots that meet the assumptions.  *)
THEOREM NowPlayingInvariant == Spec => []PathInv
<1>1. PathInv /\ [Next]_vars => PathInv' BY NextIsGood
<1> QED BY StartIsGood, <1>1, PTL DEF Spec

(* Every value of the publisher, the channel and the decoder has its type.  *)
THEOREM NowPlayingTypes == Spec => []TypeOK
<1>1. PathInv => TypeOK
  <2> SUFFICES ASSUME PathInv PROVE TypeOK OBVIOUS
  <2>1. tx \in Publishers /\ tx.index < Count[tx.content] BY DEF PathInv, PathOK, PublisherOK
  <2>2. Len(air) <= Capacity BY DEF PathInv, PathOK, AirOK
  <2>3. rx.content \in Contents /\ rx.age \in 0..Fresh BY DEF PathInv, PathOK, ModelOK, Models
  <2>4. born \in 0..Horizon /\ slots \in 0..Budget BY DEF PathInv, PathOK
  <2> QED BY <2>1, <2>2, <2>3, <2>4 DEF TypeOK, Publishers
<1> QED BY NowPlayingInvariant, <1>1, PTL

(* What the panel shows is one snapshot, whole: in spite of losses,         *)
(* repetitions, reordered snapshots and a sequence that comes round.        *)
THEOREM SnapshotsAreWhole == Spec => []SnapshotIsWhole
<1>1. PathInv => SnapshotIsWhole
  <2> SUFFICES ASSUME PathInv, rx.have
               PROVE  /\ {p.index : p \in rx.pieces} = 0..(Count[rx.content] - 1)
                      /\ \A p \in rx.pieces : /\ p.session = rx.session /\ p.number = rx.number
                                              /\ p.content = rx.content
    BY DEF SnapshotIsWhole
  <2> QED BY DEF PathInv, PathOK, ModelOK, Whole
<1> QED BY NowPlayingInvariant, <1>1, PTL

(* What is shown as fresh was encoded less than the horizon ago.            *)
THEOREM FreshnessIsEarned == Spec => []FreshIsRecent
<1>1. PathInv => FreshIsRecent
  <2> SUFFICES ASSUME PathInv, rx.have, rx.age < Fresh PROVE born < Horizon
    BY DEF FreshIsRecent, IsFresh
  <2>1. born < rx.age + Deadline + Transit /\ rx.age \in 0..Fresh /\ born \in 0..Horizon
    BY DEF PathInv, PathOK, Recent, ModelOK, Models
  <2> QED BY <2>1, Constants DEF Horizon
<1> QED BY NowPlayingInvariant, <1>1, PTL

(* While the link is disturbed the display never goes back, not to an older *)
(* snapshot and not to an earlier boot.                                     *)
THEOREM DisplayNeverGoesBack == Spec => NeverBackward
<1>1. PathInv /\ [Next]_vars =>
        [rx.have /\ rx'.have /\ ~calm =>
           \/ rx'.session > rx.session
           \/ rx'.session = rx.session /\ rx'.number >= rx.number]_vars
  BY NextIsGood DEF Forth
<1> QED BY NowPlayingInvariant, <1>1, PTL DEF Spec, NeverBackward
===============================================================================

---------------------------- MODULE BluetoothProofs ----------------------------
(***************************************************************************)
(* The two parts of the controller that have Bluetooth at their other end, *)
(* for any bounds: the BM83's driver, which believes what the module       *)
(* reported, and the legacy keyboard.                                      *)
(*   - The power state and the audio source are right once everything is   *)
(*     read.  Before that they are right as soon as the rest is read: this *)
(*     is what InPhase and Sourced say of the reports that are still to    *)
(*     come, within a batch as well as between two.                        *)
(*   - Bonds are wiped only without a link, for a request no pause came    *)
(*     after and under a new name.  Most of what a tick does leaves alone  *)
(*     what this depends on (Kept).                                        *)
(***************************************************************************)
EXTENDS Bm83Link, BleHid, SequenceTheorems, WellFoundedInduction, TLAPS

-------------------------------------------------------------------------------
(* What the driver of the BM83 believes *)

Drivers ==
    [power_on : BOOLEAN, power : {"none", "on_press", "on_init", "off_press"},
     confirm : BOOLEAN, explicit_off : BOOLEAN, connected : BOOLEAN,
     since : 0..(Hold + 1), deadline : 0..(Hold + 1), suspended : 0..(SuspendMax + 1),
     source : AudioSources \cup {"unknown"}, source_seen : BOOLEAN,
     relinked : BOOLEAN, registered : BOOLEAN, pending : 0..Queue]
Modules ==
    [power : {"off", "on", "dying"}, source : AudioSources \cup {"unannounced"},
     acl : BOOLEAN, a2dp : BOOLEAN, avrcp : BOOLEAN]

(* What a module that is off or dying may still report. *)
LateEvents == {"acl_up", "acl_down", Response}

(* A link that a response restored is younger than any that goes stale. *)
Sane(b) ==
    /\ b \in Drivers
    /\ b.relinked => b.connected /\ b.since = 0
    /\ b.pending > 0 => b.registered

(* In the midst of a batch: j reports of w have been handled. *)
InPhase(b, c, w, j) ==
    c.power # "on" =>
        \/ \E k \in j + 1..Len(w) : w[k] = "off" /\ \A l \in k + 1..Len(w) : w[l] \in LateEvents
        \/ /\ ~b.power_on
           /\ \A l \in j + 1..Len(w) : w[l] \in LateEvents
           /\ b.explicit_off \/ (c.power = "off" /\ \A l \in j + 1..Len(w) : w[l] # Response)

Sourced(b, c, w, j) ==
    c.source \in AudioSources =>
        \/ \E k \in j + 1..Len(w) : w[k] = c.source /\ \A l \in k + 1..Len(w) : w[l] \notin AudioSources
        \/ /\ \A l \in j + 1..Len(w) : w[l] \notin AudioSources
           /\ b.source_seen
           /\ b.source = c.source \/ (b.source = "unknown" /\ c.source # "src_aux")

(* The n reports of a batch; a restored link is consumed by its response. *)
Mid(b, c, w, n, j) ==
    /\ Sane(b) /\ InPhase(b, c, w, j) /\ Sourced(b, c, w, j)
    /\ b.relinked => \E l \in j + 1..n : w[l] = Response

(* Nothing is off that can answer, or plays. *)
Sound(c) == c \in Modules /\ (c.power = "off" => ~c.avrcp)

IInv == Sound(chip) /\ uart \in Seq(Events) /\ Mid(bm, chip, uart, 0, 0)

-------------------------------------------------------------------------------
(* The driver's routines *)

(* Of the reports a module that is not on may still send only a response    *)
(* proves it on, and that only without the OFF latch.                       *)
LEMMA ParsedKeeps ==
    ASSUME NEW b, Sane(b), NEW e \in Events
    PROVE  LET r == Parsed(b, e)
           IN  /\ Sane(r) /\ r.explicit_off = b.explicit_off
               /\ r.source = b.source /\ r.source_seen = b.source_seen
               /\ ~b.power_on /\ e \in LateEvents /\ (b.explicit_off \/ e # Response) => ~r.power_on
               /\ r.relinked => b.relinked \/ e = Response
<1> DEFINE proved == ~b.connected /\ ~b.explicit_off /\ PowerEvidence(b, e)
           since == IF b.connected /\ e = Response THEN 0 ELSE b.since
           heard == [b EXCEPT !.since = since, !.power_on = b.power_on \/ proved,
                              !.confirm = b.confirm /\ ~proved]
           relinked == [heard EXCEPT !.connected = TRUE, !.deadline = 0, !.since = 0, !.relinked = TRUE]
           r == Parsed(b, e)
<1>1. b \in Drivers /\ Hold \in Nat /\ since \in 0..Hold + 1 /\ proved \in BOOLEAN
  BY HoldAssumption DEF Sane, Drivers
<1>2. r = IF Relinks(b, e) THEN relinked ELSE heard BY <1>1 DEF Parsed, Drivers
<1>3. ~b.power_on /\ e \in LateEvents /\ (b.explicit_off \/ e # Response) => ~proved
  BY DEF LateEvents, PowerEvidence, LinkFlapStates
<1>4. b.relinked => since = 0 BY DEF Sane
<1> HIDE DEF proved, since
<1>5. /\ heard \in Drivers /\ heard.explicit_off = b.explicit_off /\ heard.source = b.source
      /\ heard.source_seen = b.source_seen /\ heard.relinked = b.relinked /\ heard.connected = b.connected
      /\ heard.since = since /\ heard.pending = b.pending /\ heard.registered = b.registered
      /\ heard.power_on = (b.power_on \/ proved)
  BY <1>1 DEF Drivers
<1> HIDE DEF heard
<1>9. 0 \in 0..Hold + 1 BY <1>1
<1>10. relinked \in Drivers BY <1>5, <1>9 DEF Drivers
<1>6. /\ relinked.explicit_off = heard.explicit_off /\ relinked.source = heard.source
      /\ relinked.source_seen = heard.source_seen /\ relinked.connected = TRUE
      /\ relinked.since = 0 /\ relinked.pending = heard.pending /\ relinked.registered = heard.registered
      /\ relinked.power_on = heard.power_on
  BY <1>5, <1>10 DEF Drivers
<1> HIDE DEF relinked, r
<1>7. CASE Relinks(b, e)
  <2>1. r = relinked /\ e = Response BY <1>2, <1>7 DEF Relinks
  <2> QED BY <1>3, <1>5, <1>6, <1>10, <2>1 DEF Sane, r
<1>8. CASE ~Relinks(b, e)
  <2>1. r = heard BY <1>2, <1>8
  <2> QED BY <1>3, <1>4, <1>5, <2>1 DEF Sane, r
<1> QED BY <1>7, <1>8

LEMMA MarkKeeps ==
    ASSUME NEW b, Sane(b), ~b.relinked
    PROVE  LET r == MarkDisconnected(b)
           IN  /\ Sane(r) /\ r.explicit_off = b.explicit_off /\ r.power_on = b.power_on
               /\ r.source_seen = b.source_seen /\ r.relinked = b.relinked /\ r.connected = FALSE
               /\ r.pending = 0 /\ r.registered = b.registered
               /\ r.source = b.source \/ (b.source # "src_aux" /\ r.source = "unknown")
<1> DEFINE source == IF b.source = "src_aux" THEN b.source ELSE "unknown"
           r == [b EXCEPT !.connected = FALSE, !.deadline = 0, !.pending = 0, !.source = source]
<1>1. MarkDisconnected(b) = r BY DEF MarkDisconnected
<1>2. 0 \in 0..Hold + 1 /\ 0 \in 0..Queue /\ ~(0 > 0) BY HoldAssumption
<1>3. b \in Drivers /\ source \in AudioSources \cup {"unknown"} BY DEF Sane, Drivers
<1>4. source = b.source \/ (b.source # "src_aux" /\ source = "unknown") OBVIOUS
<1> HIDE DEF source
<1>5. r \in Drivers BY <1>2, <1>3 DEF Drivers
<1>6. /\ r.explicit_off = b.explicit_off /\ r.power_on = b.power_on
      /\ r.source_seen = b.source_seen /\ r.relinked = b.relinked /\ r.connected = FALSE
      /\ r.pending = 0 /\ r.registered = b.registered /\ r.source = source
  BY <1>3 DEF Drivers
<1> HIDE DEF r
<1> QED BY <1>1, <1>2, <1>4, <1>5, <1>6 DEF Sane

(* What a report does to the power state and the source. *)
Notes(b, s, r) ==
    /\ r.source_seen = (b.source_seen \/ s \in AudioSources)
    /\ s \in AudioSources => r.source = s
    /\ s \notin AudioSources => r.source = b.source \/ (b.source # "src_aux" /\ r.source = "unknown")
    /\ s = "off" => ~r.power_on /\ r.explicit_off
    /\ ~b.power_on /\ s \in LateEvents => ~r.power_on /\ r.explicit_off = b.explicit_off
    /\ r.relinked = b.relinked

LEMMA NotedKeeps ==
    ASSUME NEW b, Sane(b), NEW s \in BtmStates
    PROVE  LET r == NotedBtm(b, s)
           IN  /\ Sane(r) /\ Notes(b, s, r)
               /\ s \in AvrcpDownStates \/ (b.connected /\ ~r.connected) => r.pending = 0
<1> DEFINE p == NotedPower(b, s)
           noted == NotedSource(p, s)
           torn == IF s \in AvrcpDownStates THEN TornDown(noted, s) ELSE noted
<1>1. /\ Hold \in Nat \ {0} /\ SuspendMax \in Nat /\ Queue \in Nat
      /\ 0 \in 0..Hold + 1 /\ Hold + 1 \in 0..Hold + 1
      /\ 0 \in 0..SuspendMax + 1 /\ SuspendMax + 1 \in 0..SuspendMax + 1 /\ 0 \in 0..Queue
  BY HoldAssumption
<1>2. /\ Sane(p) /\ p.source = b.source /\ p.source_seen = b.source_seen /\ p.relinked = b.relinked
      /\ p.connected = b.connected /\ p.since = b.since /\ p.pending = b.pending
      /\ s = "off" => ~p.power_on /\ p.explicit_off
      /\ ~b.power_on /\ s \in LateEvents => ~p.power_on /\ p.explicit_off = b.explicit_off
  <2>1. s \in LateEvents => s = Response \/ s \in LinkFlapStates BY DEF LateEvents, LinkFlapStates
  <2>2. s # Response
    BY DEF BtmStates, Response, ConnectedStates, AvrcpDownStates, LinkFlapStates, AudioSources
  <2>3. ~b.power_on /\ s \in LateEvents => p = b
    BY <2>1, <2>2 DEF NotedPower, PowerEvidence, LateEvents, Response
  <2> QED BY <2>3 DEF NotedPower, Sane, Drivers
<1> HIDE DEF p
<1>3. /\ Sane(noted) /\ noted.power_on = p.power_on /\ noted.explicit_off = p.explicit_off
      /\ noted.relinked = b.relinked /\ noted.connected = b.connected /\ noted.since = b.since
      /\ noted.pending = b.pending
      /\ noted.source_seen = (b.source_seen \/ s \in AudioSources)
      /\ noted.source = IF s \in AudioSources THEN s ELSE b.source
  BY <1>2 DEF NotedSource, Sane, Drivers
<1> HIDE DEF noted
<1>4. TornDown(noted, s) \in Drivers BY <1>1, <1>3 DEF TornDown, Sane, Drivers
<1>5. /\ Sane(torn) /\ torn.power_on = p.power_on /\ torn.explicit_off = p.explicit_off
      /\ torn.relinked = b.relinked /\ torn.connected = b.connected /\ torn.since = b.since
      /\ torn.source_seen = noted.source_seen /\ torn.source = noted.source
      /\ s \in AvrcpDownStates => torn.pending = 0
  BY <1>1, <1>3, <1>4 DEF TornDown, Sane, Drivers
<1> HIDE DEF torn
<1>6. CASE s \in ConnectedStates
  <2>1. NotedBtm(b, s) = Reconnected(noted) BY <1>6 DEF NotedBtm, noted, p
  <2>2. Reconnected(noted) \in Drivers BY <1>1, <1>3 DEF Reconnected, Sane, Drivers
  <2>3. s \notin AvrcpDownStates BY <1>6 DEF ConnectedStates, AvrcpDownStates
  <2> QED BY <1>2, <1>3, <2>1, <2>2, <2>3 DEF Reconnected, Sane, Drivers, Notes
<1>7. CASE s \notin ConnectedStates /\ s \in AudioSources
  <2>1. NotedBtm(b, s) = noted BY <1>7 DEF NotedBtm, noted, torn, p
  <2>3. s \notin AvrcpDownStates BY <1>7 DEF AudioSources, AvrcpDownStates
  <2> QED BY <1>2, <1>3, <2>1, <2>3 DEF Notes
<1>8. CASE s \notin ConnectedStates /\ s \notin AudioSources /\ Stale(torn)
  <2>1. NotedBtm(b, s) = MarkDisconnected(torn) BY <1>8 DEF NotedBtm, noted, torn, p
  <2>2. ~torn.relinked BY <1>1, <1>5, <1>8 DEF Stale, Sane
  <2> DEFINE r == MarkDisconnected(torn)
  <2>3. /\ Sane(r) /\ r.explicit_off = torn.explicit_off /\ r.power_on = torn.power_on
        /\ r.source_seen = torn.source_seen /\ r.relinked = torn.relinked /\ r.pending = 0
        /\ r.source = torn.source \/ (torn.source # "src_aux" /\ r.source = "unknown")
    BY <1>5, <2>2, MarkKeeps
  <2> HIDE DEF r
  <2>4. NotedBtm(b, s) = r BY <2>1 DEF r
  <2> QED BY <1>2, <1>3, <1>5, <1>8, <2>3, <2>4 DEF Notes
<1>9. CASE s \notin ConnectedStates /\ s \notin AudioSources /\ ~Stale(torn)
  <2>1. NotedBtm(b, s) = torn BY <1>9 DEF NotedBtm, noted, torn, p
  <2> QED BY <1>2, <1>3, <1>5, <1>9, <2>1 DEF Notes
<1> QED BY <1>6, <1>7, <1>8, <1>9

LEMMA ForgottenKeeps ==
    ASSUME NEW b, Sane(b), NEW s, NEW p, Sane(p), Notes(b, s, p), p.pending = 0
    PROVE  LET r == [p EXCEPT !.registered = FALSE]
           IN  Sane(r) /\ Notes(b, s, r) /\ r.connected = p.connected /\ r.pending = 0
<1> DEFINE r == [p EXCEPT !.registered = FALSE]
<1>1. p \in Drivers BY DEF Sane
<1>2. r \in Drivers BY <1>1 DEF Drivers
<1>3. /\ r.relinked = p.relinked /\ r.connected = p.connected /\ r.since = p.since /\ r.pending = 0
      /\ r.source_seen = p.source_seen /\ r.source = p.source /\ r.power_on = p.power_on
      /\ r.explicit_off = p.explicit_off
  BY <1>1 DEF Drivers
<1> HIDE DEF r
<1>4. Sane(r) BY <1>2, <1>3 DEF Sane
<1>5. Notes(b, s, r) BY <1>3 DEF Notes
<1> QED BY <1>3, <1>4, <1>5 DEF r

LEMMA HandledKeeps ==
    ASSUME NEW b, Sane(b), NEW e \in Events
    PROVE  LET r == Handled(b, e)
           IN  /\ Sane(r)
               /\ e # Response => Notes(b, e, r)
               /\ e = Response => /\ ~r.relinked /\ r.power_on = b.power_on /\ r.explicit_off = b.explicit_off
                                  /\ r.source = b.source /\ r.source_seen = b.source_seen
<1>1. Queue \in 0..Queue /\ 0 \in 0..Queue BY HoldAssumption
<1>2. CASE e = Response BY <1>1, <1>2 DEF Handled, HandledResponse, Armed, Sane, Drivers
<1>3. CASE e # Response
  <2> DEFINE noted == NotedBtm(b, e)
             cleared == IF e \in AvrcpDownStates THEN [noted EXCEPT !.registered = FALSE] ELSE noted
  <2>1. e \in BtmStates BY <1>3 DEF Events
  <2>2. /\ Sane(noted) /\ Notes(b, e, noted)
        /\ e \in AvrcpDownStates \/ (b.connected /\ ~noted.connected) => noted.pending = 0
    BY <2>1, NotedKeeps
  <2> HIDE DEF noted
  <2>3. /\ Sane(cleared) /\ Notes(b, e, cleared) /\ cleared.connected = noted.connected
        /\ b.connected /\ ~noted.connected => cleared.pending = 0
    <3>1. CASE e \in AvrcpDownStates BY <2>2, <3>1, ForgottenKeeps
    <3>2. CASE e \notin AvrcpDownStates BY <2>2, <3>2
    <3> QED BY <3>1, <3>2
  <2> HIDE DEF cleared
  <2>4. \/ Handled(b, e) = Armed(cleared)
        \/ b.connected /\ ~noted.connected /\ Handled(b, e) = [cleared EXCEPT !.registered = FALSE]
        \/ Handled(b, e) = cleared
    BY <1>3 DEF Handled, HandledBtm, noted, cleared
  <2>5. CASE Handled(b, e) = Armed(cleared)
    <3>1. Armed(cleared) \in Drivers BY <1>1, <2>3 DEF Armed, Sane, Drivers
    <3> QED BY <1>3, <2>3, <2>5, <3>1 DEF Armed, Sane, Drivers, Notes
  <2>6. CASE b.connected /\ ~noted.connected /\ Handled(b, e) = [cleared EXCEPT !.registered = FALSE]
    BY <1>3, <2>3, <2>6, ForgottenKeeps
  <2>7. CASE Handled(b, e) = cleared BY <1>3, <2>3, <2>7
  <2> QED BY <2>4, <2>5, <2>6, <2>7
<1> QED BY <1>2, <1>3

-------------------------------------------------------------------------------
(* A batch *)

(* Parsing reports ahead of their turn does no harm: what they prove wrongly *)
(* is undone when the OFF before them is handled.                           *)
LEMMA MidParsed ==
    ASSUME NEW b, NEW c, NEW w \in Seq(Events), NEW n \in 1..Len(w), Mid(b, c, w, n, 0), NEW i \in 1..n
    PROVE  Mid(Parsed(b, w[i]), c, w, n, 0)
<1> DEFINE r == Parsed(b, w[i])
           e == w[i]
<1>1. Len(w) \in Nat /\ i \in 0 + 1..Len(w) /\ i \in 0 + 1..n BY LenProperties
<1>2. e \in Events BY <1>1, ElementOfSeq
<1>3. /\ Sane(r) /\ r.explicit_off = b.explicit_off
      /\ r.source = b.source /\ r.source_seen = b.source_seen
      /\ ~b.power_on /\ e \in LateEvents /\ (b.explicit_off \/ e # Response) => ~r.power_on
      /\ r.relinked => b.relinked \/ e = Response
  BY <1>2, ParsedKeeps DEF Mid
<1> HIDE DEF r
<1>4. InPhase(r, c, w, 0) BY <1>1, <1>3 DEF Mid, InPhase
<1>5. Sourced(r, c, w, 0) BY <1>3 DEF Mid, Sourced
<1>6. r.relinked => \E l \in 0 + 1..n : w[l] = Response BY <1>1, <1>3 DEF Mid
<1> QED BY <1>3, <1>4, <1>5, <1>6 DEF Mid, r

LEMMA MidHandled ==
    ASSUME NEW b, NEW c, NEW w \in Seq(Events), NEW n \in 1..Len(w), NEW j \in 0..n - 1, Mid(b, c, w, n, j)
    PROVE  Mid(Handled(b, w[j + 1]), c, w, n, j + 1)
<1> DEFINE r == Handled(b, w[j + 1])
           e == w[j + 1]
           a == Len(w)
<1>1. a \in Nat /\ j + 1 \in 1..a BY LenProperties
<1>2. e \in Events BY <1>1, ElementOfSeq
<1>3. /\ Sane(r)
      /\ e # Response => Notes(b, e, r)
      /\ e = Response => /\ ~r.relinked /\ r.power_on = b.power_on /\ r.explicit_off = b.explicit_off
                         /\ r.source = b.source /\ r.source_seen = b.source_seen
  BY <1>2, HandledKeeps DEF Mid
<1> HIDE DEF r, a
<1>4. \A k \in j + 1..a : k = j + 1 \/ k \in j + 1 + 1..a BY <1>1
<1>5. \A k \in j + 1 + 1..a : k \in j + 1..a BY <1>1
<1>6. j + 1 \in j + 1..a BY <1>1
<1>7. Response \notin AudioSources /\ "off" \notin LateEvents BY DEF Response, AudioSources, LateEvents
<1>8. InPhase(r, c, w, j + 1)
  <2>1. CASE c.power = "on" BY <2>1 DEF InPhase
  <2>2. ASSUME c.power # "on",
               NEW k \in j + 1..a, w[k] = "off", \A l \in k + 1..a : w[l] \in LateEvents
        PROVE  InPhase(r, c, w, j + 1)
    <3>1. CASE k = j + 1
      <4>1. e = "off" /\ e # Response BY <2>2, <3>1 DEF Response
      <4>2. ~r.power_on /\ r.explicit_off BY <1>3, <4>1 DEF Notes
      <4> QED BY <2>2, <3>1, <4>2 DEF InPhase, a
    <3>2. CASE k # j + 1 BY <1>4, <2>2, <3>2 DEF InPhase, a
    <3> QED BY <3>1, <3>2
  <2>3. ASSUME c.power # "on", ~b.power_on, \A l \in j + 1..a : w[l] \in LateEvents,
               b.explicit_off \/ (c.power = "off" /\ \A l \in j + 1..a : w[l] # Response)
        PROVE  InPhase(r, c, w, j + 1)
    <3>1. e \in LateEvents BY <1>6, <2>3
    <3>2. ~r.power_on /\ r.explicit_off = b.explicit_off BY <1>3, <2>3, <3>1 DEF Notes
    <3> QED BY <1>5, <2>3, <3>2 DEF InPhase, a
  <2> QED BY <2>1, <2>2, <2>3 DEF Mid, InPhase, a
<1>9. Sourced(r, c, w, j + 1)
  <2>1. CASE c.source \notin AudioSources BY <2>1 DEF Sourced
  <2>2. ASSUME c.source \in AudioSources,
               NEW k \in j + 1..a, w[k] = c.source, \A l \in k + 1..a : w[l] \notin AudioSources
        PROVE  Sourced(r, c, w, j + 1)
    <3>1. CASE k = j + 1
      <4>1. r.source_seen /\ r.source = c.source BY <1>3, <1>7, <2>2, <3>1 DEF Notes
      <4> QED BY <2>2, <3>1, <4>1 DEF Sourced, a
    <3>2. CASE k # j + 1 BY <1>4, <2>2, <3>2 DEF Sourced, a
    <3> QED BY <3>1, <3>2
  <2>3. ASSUME c.source \in AudioSources, \A l \in j + 1..a : w[l] \notin AudioSources, b.source_seen,
               b.source = c.source \/ (b.source = "unknown" /\ c.source # "src_aux")
        PROVE  Sourced(r, c, w, j + 1)
    <3>1. e \notin AudioSources BY <1>6, <2>3
    <3>2. /\ r.source_seen
          /\ r.source = b.source \/ (b.source # "src_aux" /\ r.source = "unknown")
      BY <1>3, <2>3, <3>1 DEF Notes
    <3> QED BY <1>5, <2>3, <3>2 DEF Sourced, a
  <2> QED BY <2>1, <2>2, <2>3 DEF Mid, Sourced, a
<1>10. r.relinked => \E l \in j + 1 + 1..n : w[l] = Response
  <2> SUFFICES ASSUME r.relinked PROVE \E l \in j + 1 + 1..n : w[l] = Response
    OBVIOUS
  <2>1. e # Response /\ b.relinked BY <1>3 DEF Notes
  <2>2. PICK l \in j + 1..n : w[l] = Response BY <2>1 DEF Mid
  <2>3. l # j + 1 BY <2>1, <2>2
  <2>4. l \in j + 1 + 1..n BY <2>3
  <2> QED BY <2>2, <2>4
<1> QED BY <1>3, <1>8, <1>9, <1>10 DEF Mid, r

(* A set of naturals has a least element: an induction over the steps of a  *)
(* batch is by the least step at which it would fail.                       *)
LEMMA Least ==
    ASSUME NEW T, T \subseteq Nat, T # {}
    PROVE  \E x \in T : \A y \in T : x <= y
<1> DEFINE Less == {p \in Nat \X Nat : p[1] < p[2]}
<1>1. IsWellFoundedOn(Less, Nat) BY NatLessThanWellFounded DEF OpToRel
<1> HIDE DEF Less
<1>2. PICK x \in T : \A y \in T : <<y, x>> \notin Less BY <1>1, WFMin
<1>3. \A y \in T : y < x => <<y, x>> \in Less BY DEF Less
<1>4. x \in Nat /\ \A y \in T : y \in Nat /\ ~(y < x) BY <1>2, <1>3
<1>5. \A y \in T : x <= y BY <1>4, SMT
<1> QED BY <1>5

(* The recursion of HandledBatch over n reports has a solution. *)
Step(x, s, n, i) == IF i <= n THEN Parsed(x, s[i]) ELSE Handled(x, s[i - n])
Runs(f, b, s, n, m) == f = [i \in 0..m |-> IF i = 0 THEN b ELSE Step(f[i - 1], s, n, i)]

LEMMA RunExists ==
    ASSUME NEW b, NEW s, NEW n \in Nat
    PROVE  \A m \in Nat : \E f : Runs(f, b, s, n, m)
<1> DEFINE T == {m \in Nat : ~\E f : Runs(f, b, s, n, m)}
<1> SUFFICES ASSUME T # {} PROVE FALSE
  OBVIOUS
<1>1. PICK m \in T : \A y \in T : m <= y BY Least
<1>2. CASE m = 0
  <2> DEFINE f == [i \in 0..0 |-> b]
  <2>1. f = [i \in 0..0 |-> IF i = 0 THEN b ELSE Step(f[i - 1], s, n, i)] OBVIOUS
  <2>2. Runs(f, b, s, n, 0) BY <2>1 DEF Runs
  <2> QED BY <1>1, <1>2, <2>2
<1>3. CASE m # 0
  <2>1. m - 1 \in Nat /\ m - 1 \notin T BY <1>1, <1>3
  <2>2. PICK g : Runs(g, b, s, n, m - 1) BY <2>1
  <2> DEFINE f == [i \in 0..m |-> IF i < m THEN g[i] ELSE Step(g[m - 1], s, n, m)]
  <2>3. \A i \in 0..m - 1 : g[i] = IF i = 0 THEN b ELSE Step(g[i - 1], s, n, i)
    <3>1. g = [i \in 0..m - 1 |-> IF i = 0 THEN b ELSE Step(g[i - 1], s, n, i)] BY <2>2 DEF Runs
    <3> HIDE DEF T
    <3> QED BY <3>1
  <2>4. ASSUME NEW i \in 0..m PROVE f[i] = IF i = 0 THEN b ELSE Step(f[i - 1], s, n, i)
    <3>1. CASE i = 0 BY <1>3, <2>1, <2>3, <3>1
    <3>2. CASE i # 0 /\ i < m
      <4>1. i \in 0..m - 1 /\ i - 1 \in 0..m /\ i - 1 < m BY <2>1, <3>2
      <4>2. f[i] = g[i] /\ f[i - 1] = g[i - 1] BY <3>2, <4>1
      <4> HIDE DEF f
      <4> QED BY <2>3, <3>2, <4>1, <4>2
    <3>3. CASE i = m
      <4>1. m - 1 \in 0..m /\ m - 1 < m /\ ~(m < m) /\ m \in 0..m BY <2>1
      <4>2. f[m] = Step(g[m - 1], s, n, m) /\ f[m - 1] = g[m - 1] BY <4>1
      <4> HIDE DEF f
      <4> QED BY <1>3, <3>3, <4>2
    <3> QED BY <2>1, <3>1, <3>2, <3>3
  <2>5. f = [i \in 0..m |-> IF i = 0 THEN b ELSE Step(f[i - 1], s, n, i)]
    <3>1. f = [i \in 0..m |-> f[i]] OBVIOUS
    <3> HIDE DEF f
    <3> QED BY <2>4, <3>1
  <2>6. Runs(f, b, s, n, m) BY <2>5 DEF Runs
  <2> QED BY <1>1, <2>6
<1> QED BY <1>2, <1>3

(* f is the course of a batch s of n reports. *)
Course(f, b, s, n) ==
    /\ f[0] = b /\ \A i \in 1..2 * n : f[i] = Step(f[i - 1], s, n, i)
    /\ HandledBatch(b, s) = f[2 * n]

LEMMA BatchRuns ==
    ASSUME NEW b, NEW s, NEW n \in Nat, n = Len(s)
    PROVE  \E f : Course(f, b, s, n)
<1> DEFINE f == CHOOSE g : Runs(g, b, s, n, 2 * n)
<1>1. 2 * n \in Nat OBVIOUS
<1>2. Runs(f, b, s, n, 2 * n) BY <1>1, RunExists
<1>3. HandledBatch(b, s) = f[2 * n] BY DEF HandledBatch, Runs, Step
<1> HIDE DEF f
<1>4. f = [i \in 0..2 * n |-> IF i = 0 THEN b ELSE Step(f[i - 1], s, n, i)] BY <1>2 DEF Runs
<1>5. \A i \in 0..2 * n : f[i] = IF i = 0 THEN b ELSE Step(f[i - 1], s, n, i) BY <1>4
<1>6. 0 \in 0..2 * n /\ \A i \in 1..2 * n : i \in 0..2 * n /\ i # 0 BY <1>1
<1> QED BY <1>3, <1>5, <1>6 DEF Course

LEMMA BatchKeeps ==
    ASSUME NEW b, NEW c, NEW w \in Seq(Events), Mid(b, c, w, 0, 0), NEW n \in 1..Len(w)
    PROVE  Mid(HandledBatch(b, SubSeq(w, 1, n)), c, w, n, n)
<1> DEFINE s == SubSeq(w, 1, n)
           a == Len(w)
           j(i) == IF i <= n THEN 0 ELSE i - n
<1>1. a \in Nat /\ n \in Nat /\ n >= 1 /\ n <= a BY LenProperties
<1>2. Len(s) = n /\ \A i \in 1..n : s[i] = w[i]
  <2>1. 1 \in Int /\ n \in Int /\ \A i \in 1..n : w[i] \in Events
    BY <1>1, ElementOfSeq DEF a
  <2>2. /\ Len(s) = IF 1 <= n THEN n - 1 + 1 ELSE 0
        /\ \A i \in 1..n - 1 + 1 : s[i] = w[1 + i - 1]
    BY <2>1, SubSeqProperties
  <2> HIDE DEF s
  <2>3. n - 1 + 1 = n /\ \A i \in 1..n : 1 + i - 1 = i BY <1>1
  <2> QED BY <1>1, <2>2, <2>3
<1> HIDE DEF s, a
<1>7. PICK f : Course(f, b, s, n) BY <1>1, <1>2, BatchRuns
<1>3. f[0] = b /\ (\A i \in 1..2 * n : f[i] = Step(f[i - 1], s, n, i)) /\ HandledBatch(b, s) = f[2 * n]
  BY <1>7 DEF Course
<1> DEFINE T == {i \in Nat : i <= 2 * n /\ ~Mid(f[i], c, w, n, j(i))}
<1>4. T = {}
  <2> SUFFICES ASSUME T # {} PROVE FALSE
    OBVIOUS
  <2>1. PICK i \in T : \A y \in T : i <= y BY Least
  <2>2. i \in Nat /\ i <= 2 * n /\ ~Mid(f[i], c, w, n, j(i)) BY <2>1
  <2>3. i # 0
    <3>1. Mid(b, c, w, n, 0) BY DEF Mid
    <3> QED BY <1>1, <1>3, <2>2, <3>1
  <2>4. i - 1 \in Nat /\ i - 1 <= 2 * n /\ i - 1 \notin T BY <1>1, <2>1, <2>2, <2>3
  <2>5. Mid(f[i - 1], c, w, n, j(i - 1)) BY <2>4
  <2>6. f[i] = Step(f[i - 1], s, n, i) BY <1>1, <1>3, <2>2, <2>3
  <2> HIDE DEF T
  <2>7. CASE i <= n
    <3>1. i \in 1..n /\ j(i - 1) = 0 /\ j(i) = 0 BY <1>1, <2>2, <2>3, <2>7
    <3>2. f[i] = Parsed(f[i - 1], w[i]) BY <1>2, <2>6, <2>7, <3>1 DEF Step
    <3>3. Mid(f[i - 1], c, w, n, 0) BY <2>5, <3>1
    <3> HIDE DEF j
    <3> QED BY <2>2, <3>1, <3>2, <3>3, MidParsed
  <2>8. CASE ~(i <= n)
    <3> DEFINE k == i - n - 1
    <3>1. k \in 0..n - 1 /\ j(i - 1) = k /\ j(i) = k + 1 /\ i - n = k + 1 /\ k + 1 \in 1..n
      BY <1>1, <2>2, <2>8
    <3> HIDE DEF k, j
    <3>2. f[i] = Handled(f[i - 1], w[k + 1]) BY <1>2, <2>6, <2>8, <3>1 DEF Step
    <3>3. Mid(f[i - 1], c, w, n, k) BY <2>5, <3>1
    <3> QED BY <2>2, <3>1, <3>2, <3>3, MidHandled
  <2> QED BY <2>7, <2>8
<1>5. 2 * n \in Nat /\ 2 * n <= 2 * n /\ j(2 * n) = n BY <1>1
<1>6. Mid(f[2 * n], c, w, n, n) BY <1>4, <1>5
<1> QED BY <1>3, <1>6 DEF s

-------------------------------------------------------------------------------
(* The steps *)

LEMMA PollKeeps == ASSUME IInv, NEW n \in 1..Len(uart), Poll(n) PROVE IInv'
<1> DEFINE a == Len(uart)
           v == SubSeq(uart, n + 1, a)
           r == HandledBatch(bm, SubSeq(uart, 1, n))
<1>1. uart \in Seq(Events) /\ Sound(chip) /\ Mid(bm, chip, uart, 0, 0) BY DEF IInv
<1>2. Mid(r, chip, uart, n, n) BY <1>1, BatchKeeps
<1>3. a \in Nat /\ n \in Nat /\ n >= 1 /\ n <= a BY <1>1, LenProperties
<1>4. v \in Seq(Events) /\ Len(v) = a - n /\ \A i \in 1..a - n : v[i] = uart[i + n]
  <2>1. n + 1 \in Int /\ a \in Int /\ \A i \in n + 1..a : uart[i] \in Events BY <1>1, <1>3, ElementOfSeq
  <2>2. /\ v \in Seq(Events)
        /\ Len(v) = IF n + 1 <= a THEN a - (n + 1) + 1 ELSE 0
        /\ \A i \in 1..a - (n + 1) + 1 : v[i] = uart[n + 1 + i - 1]
    BY <2>1, SubSeqProperties
  <2> HIDE DEF v, a
  <2>3. a - (n + 1) + 1 = a - n /\ \A i \in 1..a - n : n + 1 + i - 1 = i + n BY <1>3
  <2> QED BY <1>3, <2>2, <2>3
<1>5. bm' = r /\ uart' = v /\ chip' = chip BY DEF Poll
<1> HIDE DEF r, v
<1>6. InPhase(r, chip, v, 0)
  <2> HIDE DEF a
  <2>1. \A i \in n + 1..a : i - n \in 0 + 1..a - n /\ v[i - n] = uart[i]
    <3>1. \A i \in n + 1..a : i - n \in 0 + 1..a - n /\ i - n \in 1..a - n /\ i - n + n = i BY <1>3
    <3> QED BY <1>4, <3>1
  <2>2. \A i \in 0 + 1..a - n : i + n \in n + 1..a /\ v[i] = uart[i + n] BY <1>3, <1>4
  <2>3. CASE chip.power = "on" BY <2>3 DEF InPhase
  <2>4. ASSUME NEW k \in n + 1..a, uart[k] = "off", \A l \in k + 1..a : uart[l] \in LateEvents
        PROVE  InPhase(r, chip, v, 0)
    <3>1. \A l \in k - n + 1..a - n : l \in 0 + 1..a - n /\ l + n \in k + 1..a BY <1>3, <2>4
    <3>2. \A l \in k - n + 1..a - n : v[l] \in LateEvents BY <2>2, <2>4, <3>1
    <3> QED BY <1>4, <2>1, <2>4, <3>2 DEF InPhase
  <2>5. ASSUME ~r.power_on, \A l \in n + 1..a : uart[l] \in LateEvents,
               r.explicit_off \/ (chip.power = "off" /\ \A l \in n + 1..a : uart[l] # Response)
        PROVE  InPhase(r, chip, v, 0)
    BY <1>4, <2>2, <2>5 DEF InPhase
  <2> QED BY <1>2, <2>3, <2>4, <2>5 DEF Mid, InPhase, a
<1>7. Sourced(r, chip, v, 0)
  <2> HIDE DEF a
  <2>1. \A i \in n + 1..a : i - n \in 0 + 1..a - n /\ v[i - n] = uart[i]
    <3>1. \A i \in n + 1..a : i - n \in 0 + 1..a - n /\ i - n \in 1..a - n /\ i - n + n = i BY <1>3
    <3> QED BY <1>4, <3>1
  <2>2. \A i \in 0 + 1..a - n : i + n \in n + 1..a /\ v[i] = uart[i + n] BY <1>3, <1>4
  <2>3. CASE chip.source \notin AudioSources BY <2>3 DEF Sourced
  <2>4. ASSUME NEW k \in n + 1..a, uart[k] = chip.source, \A l \in k + 1..a : uart[l] \notin AudioSources
        PROVE  Sourced(r, chip, v, 0)
    <3>1. \A l \in k - n + 1..a - n : l \in 0 + 1..a - n /\ l + n \in k + 1..a BY <1>3, <2>4
    <3>2. \A l \in k - n + 1..a - n : v[l] \notin AudioSources BY <2>2, <2>4, <3>1
    <3> QED BY <1>4, <2>1, <2>4, <3>2 DEF Sourced
  <2>5. ASSUME \A l \in n + 1..a : uart[l] \notin AudioSources, r.source_seen,
               r.source = chip.source \/ (r.source = "unknown" /\ chip.source # "src_aux")
        PROVE  Sourced(r, chip, v, 0)
    BY <1>4, <2>2, <2>5 DEF Sourced
  <2> QED BY <1>2, <2>3, <2>4, <2>5 DEF Mid, Sourced, a
<1>8. Mid(r, chip, v, 0, 0)
  <2>1. ~r.relinked
    <3>1. n + 1..n = {} BY <1>3
    <3> QED BY <1>2, <3>1 DEF Mid
  <2> QED BY <1>2, <1>6, <1>7, <2>1 DEF Mid
<1> QED BY <1>1, <1>4, <1>5, <1>8 DEF IInv

(* One more report of a module that has become d. *)
LEMMA ReportKeeps ==
    ASSUME NEW b, NEW c, NEW w \in Seq(Events), Mid(b, c, w, 0, 0), NEW d, NEW e \in Events,
           \/ d.power = "on" \/ e = "off"
           \/ c.power # "on" /\ d.power = c.power /\ e \in LateEvents /\ (e = Response => c.power # "off"),
           d.source \notin AudioSources \/ e = d.source \/ (d.source = c.source /\ e \notin AudioSources)
    PROVE  Append(w, e) \in Seq(Events) /\ Mid(b, d, Append(w, e), 0, 0)
<1> DEFINE v == Append(w, e)
           a == Len(w)
<1>1. a \in Nat /\ v \in Seq(Events) /\ Len(v) = a + 1 /\ v[a + 1] = e /\ \A i \in 1..a : v[i] = w[i]
  BY LenProperties, AppendProperties
<1> HIDE DEF v
<1>2. InPhase(b, d, v, 0)
  <2>1. InPhase(b, c, w, 0) BY DEF Mid
  <2> HIDE DEF a
  <2>2. \A i \in 0 + 1..a + 1 : i = a + 1 \/ i \in 0 + 1..a BY <1>1
  <2>3. CASE d.power = "on" BY <2>3 DEF InPhase
  <2>4. CASE e = "off"
    <3>1. a + 1 \in 0 + 1..a + 1 /\ a + 1 + 1..a + 1 = {} BY <1>1
    <3> QED BY <1>1, <2>4, <3>1 DEF InPhase
  <2>5. CASE c.power # "on" /\ d.power = c.power /\ e \in LateEvents /\ (e = Response => c.power # "off")
    <3>1. ASSUME NEW k \in 0 + 1..a, w[k] = "off", \A l \in k + 1..a : w[l] \in LateEvents
          PROVE  InPhase(b, d, v, 0)
      <4>1. /\ k \in 0 + 1..a + 1 /\ k \in 1..a
            /\ \A l \in k + 1..a + 1 : l = a + 1 \/ (l \in k + 1..a /\ l \in 1..a)
        BY <1>1
      <4>2. \A l \in k + 1..a + 1 : v[l] \in LateEvents BY <1>1, <2>5, <3>1, <4>1
      <4> QED BY <1>1, <3>1, <4>1, <4>2 DEF InPhase
    <3>2. ASSUME ~b.power_on, \A l \in 0 + 1..a : w[l] \in LateEvents,
                 b.explicit_off \/ (c.power = "off" /\ \A l \in 0 + 1..a : w[l] # Response)
          PROVE  InPhase(b, d, v, 0)
      <4>1. \A l \in 0 + 1..a : l \in 1..a BY <1>1
      <4> QED BY <1>1, <2>2, <2>5, <3>2, <4>1 DEF InPhase
    <3> QED BY <2>1, <2>5, <3>1, <3>2 DEF InPhase, a
  <2> QED BY <2>3, <2>4, <2>5
<1>3. Sourced(b, d, v, 0)
  <2>1. Sourced(b, c, w, 0) BY DEF Mid
  <2> HIDE DEF a
  <2>2. \A i \in 0 + 1..a + 1 : i = a + 1 \/ (i \in 0 + 1..a /\ i \in 1..a) BY <1>1
  <2>3. CASE d.source \notin AudioSources BY <2>3 DEF Sourced
  <2>4. CASE e = d.source
    <3>1. a + 1 \in 0 + 1..a + 1 /\ a + 1 + 1..a + 1 = {} BY <1>1
    <3> QED BY <1>1, <2>4, <3>1 DEF Sourced
  <2>5. CASE d.source \in AudioSources /\ d.source = c.source /\ e \notin AudioSources
    <3>1. ASSUME NEW k \in 0 + 1..a, w[k] = c.source, \A l \in k + 1..a : w[l] \notin AudioSources
          PROVE  Sourced(b, d, v, 0)
      <4>1. /\ k \in 0 + 1..a + 1 /\ k \in 1..a
            /\ \A l \in k + 1..a + 1 : l = a + 1 \/ (l \in k + 1..a /\ l \in 1..a)
        BY <1>1
      <4>2. \A l \in k + 1..a + 1 : v[l] \notin AudioSources BY <1>1, <2>5, <3>1, <4>1
      <4> QED BY <1>1, <2>5, <3>1, <4>1, <4>2 DEF Sourced
    <3>2. ASSUME \A l \in 0 + 1..a : w[l] \notin AudioSources, b.source_seen,
                 b.source = c.source \/ (b.source = "unknown" /\ c.source # "src_aux")
          PROVE  Sourced(b, d, v, 0)
      BY <1>1, <2>2, <2>5, <3>2 DEF Sourced
    <3> QED BY <2>1, <2>5, <3>1, <3>2 DEF Sourced, a
  <2> QED BY <2>3, <2>4, <2>5
<1> QED BY <1>1, <1>2, <1>3 DEF Mid, v

(* A step of the driver that neither proves the module on nor hears it. *)
LEMMA TickKeeps ==
    ASSUME NEW b, NEW c, NEW w, Mid(b, c, w, 0, 0), NEW r, Sane(r), r.relinked = b.relinked,
           r.power_on => b.power_on, r.source_seen = b.source_seen,
           r.source = b.source \/ (b.source # "src_aux" /\ r.source = "unknown"),
           (b.explicit_off => r.explicit_off) \/ c.power = "on"
              \/ (c.power = "off" /\ \A l \in 1..Len(w) : w[l] # Response)
    PROVE  Mid(r, c, w, 0, 0)
<1>1. InPhase(r, c, w, 0) BY DEF Mid, InPhase
<1>2. Sourced(r, c, w, 0) BY DEF Mid, Sourced
<1> QED BY <1>1, <1>2 DEF Mid

(* What the ticks and the presses do to the driver. *)
Eased(b, r) ==
    /\ Sane(r) /\ r.relinked = b.relinked /\ r.source_seen = b.source_seen
    /\ r.source = b.source \/ (b.source # "src_aux" /\ r.source = "unknown")
    /\ r.power_on => b.power_on

LEMMA AdvancedKeeps ==
    ASSUME NEW b, Sane(b), ~b.relinked, b.power # "none"
    PROVE  Eased(b, PowerAdvanced(b)) /\ (b.explicit_off => PowerAdvanced(b).explicit_off)
<1>1. b \in Drivers /\ b.power \in {"on_press", "on_init", "off_press"} BY DEF Sane, Drivers
<1>2. CASE b.power = "on_press"
  <2>1. PowerAdvanced(b) = [b EXCEPT !.power = "on_init"] BY <1>2 DEF PowerAdvanced
  <2> QED BY <1>1, <2>1 DEF Sane, Drivers, Eased
<1>3. CASE b.power = "on_init"
  <2>1. PowerAdvanced(b) = [b EXCEPT !.power = "none", !.confirm = TRUE] BY <1>3 DEF PowerAdvanced
  <2> QED BY <1>1, <2>1 DEF Sane, Drivers, Eased
<1>4. CASE b.power = "off_press"
  <2> DEFINE p == [b EXCEPT !.power = "none", !.power_on = FALSE, !.explicit_off = TRUE]
             r == MarkDisconnected(p)
  <2>1. PowerAdvanced(b) = r BY <1>4 DEF PowerAdvanced
  <2>2. /\ Sane(p) /\ p.relinked = b.relinked /\ p.source_seen = b.source_seen /\ p.source = b.source
        /\ ~p.power_on /\ p.explicit_off
    BY <1>1 DEF Sane, Drivers
  <2> HIDE DEF p
  <2>3. /\ Sane(r) /\ r.explicit_off = p.explicit_off /\ r.power_on = p.power_on
        /\ r.source_seen = p.source_seen /\ r.relinked = p.relinked
        /\ r.source = p.source \/ (p.source # "src_aux" /\ r.source = "unknown")
    BY <2>2, MarkKeeps
  <2> QED BY <2>1, <2>2, <2>3 DEF Eased
<1> QED BY <1>1, <1>2, <1>3, <1>4

LEMMA CommandsKeep ==
    ASSUME NEW b, Sane(b)
    PROVE  /\ Eased(b, PowerOnCmd(b))
           /\ Eased(b, PowerOffCmd(b)) /\ (b.explicit_off => PowerOffCmd(b).explicit_off)
BY DEF PowerOnCmd, PowerOffCmd, Sane, Drivers, Eased

LEMMA GivenUpKeeps ==
    ASSUME NEW b, Sane(b), ~b.relinked
    PROVE  Eased(b, GivenUp(b)) /\ (b.explicit_off => GivenUp(b).explicit_off)
<1> DEFINE p == MarkDisconnected(b)
           r == [p EXCEPT !.registered = FALSE]
<1>1. /\ Sane(p) /\ p.explicit_off = b.explicit_off /\ p.power_on = b.power_on
      /\ p.source_seen = b.source_seen /\ p.relinked = b.relinked /\ p.pending = 0
      /\ p.source = b.source \/ (b.source # "src_aux" /\ p.source = "unknown")
  BY MarkKeeps
<1>2. GivenUp(b) = r BY DEF GivenUp
<1> HIDE DEF p
<1>3. p \in Drivers BY <1>1 DEF Sane
<1>4. r \in Drivers BY <1>3 DEF Drivers
<1>5. /\ r.relinked = p.relinked /\ r.connected = p.connected /\ r.since = p.since /\ r.pending = p.pending
      /\ r.source_seen = p.source_seen /\ r.source = p.source /\ r.power_on = p.power_on
      /\ r.explicit_off = p.explicit_off
  BY <1>3 DEF Drivers
<1> HIDE DEF r
<1> QED BY <1>1, <1>2, <1>4, <1>5 DEF Sane, Eased

LEMMA TimersKeep ==
    ASSUME NEW b, Sane(b), ~b.relinked
    PROVE  /\ RegistrationDue(b) =>
                  Eased(b, Registering(b)) /\ (b.explicit_off => Registering(b).explicit_off)
           /\ Eased(b, AgedBm83(b)) /\ (b.explicit_off => AgedBm83(b).explicit_off)
           /\ \A r \in {[b EXCEPT !.suspended = 0], [b EXCEPT !.confirm = FALSE]} :
                  Eased(b, r) /\ (b.explicit_off => r.explicit_off)
<1>1. b \in Drivers /\ 0 \in 0..Queue /\ 0 \in 0..SuspendMax + 1 BY HoldAssumption DEF Sane
<1>2. ASSUME RegistrationDue(b)
      PROVE  Eased(b, Registering(b)) /\ (b.explicit_off => Registering(b).explicit_off)
  <2>1. b.pending - 1 \in 0..Queue BY <1>1, <1>2, HoldAssumption DEF RegistrationDue, Drivers
  <2>2. \A q \in 0..Queue : b.registered => Eased(b, [b EXCEPT !.pending = q])
    BY <1>1 DEF Sane, Drivers, Eased
  <2>3. \A q \in 0..Queue : [b EXCEPT !.pending = q].explicit_off = b.explicit_off BY <1>1 DEF Drivers
  <2>4. b.registered BY <1>2 DEF RegistrationDue, Sane
  <2>5. Registering(b) = [b EXCEPT !.pending = b.pending - 1] \/ Registering(b) = [b EXCEPT !.pending = 0]
    BY DEF Registering
  <2> QED BY <1>1, <2>1, <2>2, <2>3, <2>4, <2>5
<1>3. Eased(b, AgedBm83(b)) /\ (b.explicit_off => AgedBm83(b).explicit_off)
  <2> DEFINE since == IF b.connected /\ b.since <= Hold THEN b.since + 1 ELSE b.since
             deadline == IF b.deadline > 1 THEN b.deadline - 1 ELSE b.deadline
             suspended == IF b.suspended > 1 THEN b.suspended - 1 ELSE b.suspended
  <2>1. since \in 0..Hold + 1 /\ deadline \in 0..Hold + 1 /\ suspended \in 0..SuspendMax + 1
    BY <1>1, HoldAssumption DEF Drivers
  <2>2. AgedBm83(b) = [b EXCEPT !.since = since, !.deadline = deadline, !.suspended = suspended]
    BY DEF AgedBm83
  <2> HIDE DEF since, deadline, suspended
  <2> QED BY <1>1, <2>1, <2>2 DEF Sane, Drivers, Eased
<1>4. ASSUME NEW r \in {[b EXCEPT !.suspended = 0], [b EXCEPT !.confirm = FALSE]}
      PROVE  Eased(b, r) /\ (b.explicit_off => r.explicit_off)
  BY <1>1 DEF Sane, Drivers, Eased
<1> QED BY <1>2, <1>3, <1>4

LEMMA Starts == Init => IInv
<1> SUFFICES ASSUME Init PROVE IInv
  OBVIOUS
<1>1. uart = <<>> /\ uart \in Seq(Events) /\ Len(uart) = 0 BY EmptySeq DEF Init
<1>2. Sound(chip)
  <2>1. CASE chip = Module("off", FALSE) BY <2>1 DEF Module, Sound, Modules
  <2>2. CASE chip = Module("on", TRUE) BY <2>2 DEF Module, Sound, Modules
  <2> QED BY <2>1, <2>2 DEF Init
<1>3. Sane(bm) /\ ~bm.relinked /\ ~bm.power_on /\ ~bm.explicit_off
  BY HoldAssumption DEF Init, InitBm83, Sane, Drivers
<1>4. 0 + 1..Len(uart) = {} BY <1>1
<1>5. chip.power \in {"off", "on"} /\ chip.source = "unannounced" BY DEF Init, Module
<1>6. InPhase(bm, chip, uart, 0) BY <1>3, <1>4, <1>5 DEF InPhase
<1>7. Sourced(bm, chip, uart, 0) BY <1>5 DEF Sourced, AudioSources
<1> QED BY <1>1, <1>2, <1>3, <1>6, <1>7 DEF IInv, Mid

LEMMA ModuleKeeps == ASSUME IInv, ModuleStep PROVE IInv'
<1>1. Sound(chip) /\ uart \in Seq(Events) /\ Mid(bm, chip, uart, 0, 0) BY DEF IInv
<1>2. chip \in Modules /\ (chip.power = "off" => ~chip.avrcp) BY <1>1 DEF Sound
<1>3. "unannounced" \notin AudioSources BY DEF AudioSources
(* A report e of a module that is then d. *)
<1>4. ASSUME NEW e \in Events, Reports(e), UNCHANGED bm, Sound(chip'),
             \/ chip'.power = "on" \/ e = "off"
             \/ /\ chip.power # "on" /\ chip'.power = chip.power
                /\ e \in LateEvents /\ (e = Response => chip.power # "off"),
             \/ chip'.source \notin AudioSources \/ e = chip'.source
             \/ chip'.source = chip.source /\ e \notin AudioSources
      PROVE  IInv'
  <2>1. uart' = Append(uart, e) BY <1>4 DEF Reports
  <2>2. Append(uart, e) \in Seq(Events) /\ Mid(bm, chip', Append(uart, e), 0, 0) BY <1>1, <1>4, ReportKeeps
  <2> QED BY <1>4, <2>1, <2>2 DEF IInv
<1>5. /\ \A e \in {"off", "ready", "acl_up", "acl_down", "standby", "a2dp_up", "avrcp_up", "a2dp_down",
                   "avrcp_down", Response} : e \in Events /\ e \notin AudioSources
      /\ AudioSources \subseteq Events
  BY DEF Events, BtmStates, ConnectedStates, AvrcpDownStates, LinkFlapStates, AudioSources, Response
<1>6. CASE ChipBoot
  <2>1. Sound(chip') /\ chip'.power = "on" /\ chip'.source = chip.source
    BY <1>2, <1>6 DEF ChipBoot, Sound, Modules
  <2> QED BY <1>4, <1>5, <1>6, <2>1 DEF ChipBoot
<1>7. CASE ChipOff
  <2>1. Sound(chip') /\ chip'.source = "unannounced" BY <1>2, <1>7 DEF ChipOff, Sound, Modules
  <2> QED BY <1>3, <1>4, <1>5, <1>7, <2>1 DEF ChipOff
<1>8. CASE ChipDead
  <2>1. Sound(chip') /\ chip'.source = "unannounced" /\ chip'.power = "off"
    BY <1>8 DEF ChipDead, Module, Sound, Modules
  <2>2. InPhase(bm, chip', uart, 0)
    <3>1. chip.power # "on" /\ chip.power # "off" BY <1>8 DEF ChipDead
    <3> QED BY <1>1, <3>1 DEF InPhase, Mid
  <2>3. Sourced(bm, chip', uart, 0) BY <1>3, <2>1 DEF Sourced
  <2> QED BY <1>1, <1>8, <2>1, <2>2, <2>3 DEF ChipDead, IInv, Mid
<1>9. ASSUME NEW e \in {"acl_up", "acl_down", "standby", "a2dp_up", "avrcp_up", "a2dp_down", "avrcp_down"},
             chip.power = "on", Reports(e), UNCHANGED bm,
             NEW acl \in BOOLEAN, NEW a2dp \in BOOLEAN, NEW avrcp \in BOOLEAN,
             chip' = [chip EXCEPT !.acl = acl, !.a2dp = a2dp, !.avrcp = avrcp]
      PROVE  IInv'
  <2>1. Sound(chip') /\ chip'.power = "on" /\ chip'.source = chip.source BY <1>2, <1>9 DEF Sound, Modules
  <2> QED BY <1>4, <1>5, <1>9, <2>1
<1>10. CASE AclUp
  <2>1. chip' = [chip EXCEPT !.acl = TRUE, !.a2dp = chip.a2dp, !.avrcp = chip.avrcp]
    BY <1>2, <1>10 DEF AclUp, Modules
  <2> QED BY <1>2, <1>9, <1>10, <2>1 DEF AclUp, Modules
<1>11. CASE A2dpUp
  <2>1. chip' = [chip EXCEPT !.acl = chip.acl, !.a2dp = TRUE, !.avrcp = chip.avrcp]
    BY <1>2, <1>11 DEF A2dpUp, Modules
  <2> QED BY <1>2, <1>9, <1>11, <2>1 DEF A2dpUp, Modules
<1>12. CASE AvrcpUp
  <2>1. chip' = [chip EXCEPT !.acl = chip.acl, !.a2dp = chip.a2dp, !.avrcp = TRUE]
    BY <1>2, <1>12 DEF AvrcpUp, Modules
  <2> QED BY <1>2, <1>9, <1>12, <2>1 DEF AvrcpUp, Modules
<1>13. CASE A2dpDown
  <2>1. chip' = [chip EXCEPT !.acl = chip.acl, !.a2dp = FALSE, !.avrcp = chip.avrcp]
    BY <1>2, <1>13 DEF A2dpDown, Modules
  <2> QED BY <1>2, <1>9, <1>13, <2>1 DEF A2dpDown, Modules
<1>14. CASE AvrcpDown
  <2>1. chip' = [chip EXCEPT !.acl = chip.acl, !.a2dp = chip.a2dp, !.avrcp = FALSE]
    BY <1>2, <1>14 DEF AvrcpDown, Modules
  <2> QED BY <1>2, <1>9, <1>14, <2>1 DEF AvrcpDown, Modules
<1>15. CASE AclDown
  <2>1. PICK e \in {"acl_down", "standby"} : Reports(e) BY <1>15 DEF AclDown
  <2> QED BY <1>9, <1>15, <2>1 DEF AclDown
<1>16. ASSUME NEW s \in Reported, ChipSource(s) PROVE IInv'
  <2>1. s \in AudioSources BY LinkAssumption
  <2>2. Sound(chip') /\ chip'.power = "on" /\ chip'.source = s
    BY <1>2, <1>16, <2>1 DEF ChipSource, Sound, Modules
  <2> QED BY <1>4, <1>5, <1>16, <2>1, <2>2 DEF ChipSource
<1>17. CASE ChipResponse
  <2>1. chip.power \in {"on", "dying"} BY <1>2, <1>17 DEF ChipResponse, Modules
  <2>2. chip' = chip /\ Response \in LateEvents BY <1>17 DEF ChipResponse, LateEvents
  <2> QED BY <1>1, <1>4, <1>5, <1>17, <2>1, <2>2 DEF ChipResponse
<1>18. CASE OffFlap
  <2>1. PICK e \in {"acl_up", "acl_down"} : Reports(e) BY <1>18 DEF OffFlap
  <2>2. chip' = chip /\ chip.power = "off" /\ e \in LateEvents /\ e # Response
    BY <1>18 DEF OffFlap, LateEvents, Response
  <2> QED BY <1>1, <1>4, <1>5, <1>18, <2>1, <2>2 DEF OffFlap
<1> QED
  BY <1>6, <1>7, <1>8, <1>10, <1>11, <1>12, <1>13, <1>14, <1>15, <1>16, <1>17, <1>18 DEF ModuleStep

LEMMA NextKeeps == ASSUME IInv, [Next]_vars PROVE IInv'
<1>1. Sound(chip) /\ uart \in Seq(Events) /\ Mid(bm, chip, uart, 0, 0) /\ Sane(bm) BY DEF IInv, Mid
<1>2. ~bm.relinked
  <2>1. 0 + 1..0 = {} OBVIOUS
  <2> QED BY <1>1, <2>1 DEF Mid
(* A tick that leaves the module and the UART alone. *)
<1>3. ASSUME Eased(bm, bm'), UNCHANGED <<chip, uart>>,
             (bm.explicit_off => bm'.explicit_off) \/ chip.power = "on"
                \/ (chip.power = "off" /\ \A l \in 1..Len(uart) : uart[l] # Response)
      PROVE  IInv'
  <2>1. Mid(bm', chip, uart, 0, 0) BY <1>1, <1>3, TickKeeps DEF Eased
  <2> QED BY <1>1, <1>3, <2>1 DEF IInv
<1>4. CASE ModuleStep BY <1>4, ModuleKeeps
<1>5. CASE \E n \in 1..Len(uart) : Poll(n) BY <1>5, PollKeeps
<1>6. CASE TickPower BY <1>1, <1>2, <1>3, <1>6, AdvancedKeeps DEF TickPower
<1>7. CASE ConfirmExpires BY <1>1, <1>2, <1>3, <1>7, TimersKeep DEF ConfirmExpires
<1>8. CASE TickNotifRegs BY <1>1, <1>2, <1>3, <1>8, TimersKeep DEF TickNotifRegs
<1>9. CASE TickAvrcpResume BY <1>1, <1>2, <1>3, <1>9, TimersKeep DEF TickAvrcpResume
<1>10. CASE Elapse BY <1>1, <1>2, <1>3, <1>10, TimersKeep DEF Elapse
<1>11. CASE DebounceExpires BY <1>1, <1>2, <1>3, <1>11, GivenUpKeeps DEF DebounceExpires
<1>12. CASE SilenceExpires BY <1>1, <1>2, <1>3, <1>12, GivenUpKeeps DEF SilenceExpires
<1>13. CASE TickLinkRecovery
  <2>1. uart' = Append(uart, Response) /\ chip' = chip /\ bm' = bm /\ chip.avrcp
    BY <1>13 DEF TickLinkRecovery, Reports
  <2>2. chip.power \in {"on", "dying"} BY <1>1, <2>1 DEF Sound, Modules
  <2>3. Response \in Events /\ Response \in LateEvents /\ Response \notin AudioSources
    BY DEF Events, LateEvents, AudioSources, Response
  <2>4. Append(uart, Response) \in Seq(Events) /\ Mid(bm, chip, Append(uart, Response), 0, 0)
    BY <1>1, <2>2, <2>3, ReportKeeps
  <2> QED BY <1>1, <2>1, <2>4 DEF IInv
<1>14. ASSUME NEW command \in {"toggle", "off"}, PowerButton(command) PROVE IInv'
  <2>1. UNCHANGED <<chip, uart>> BY <1>14 DEF PowerButton
  <2>2. \/ chip.power = "on"
        \/ chip.power = "off" /\ \A l \in 1..Len(uart) : uart[l] # Response
    <3>1. chip.power = "on" \/ chip.power = "off" BY <1>1, <1>14 DEF PowerButton, Sound, Modules
    <3>2. chip.power = "off" => Response \notin Range(uart) BY <1>14 DEF PowerButton
    <3>3. DOMAIN uart = 1..Len(uart) BY <1>1, LenProperties
    <3> QED BY <3>1, <3>2, <3>3 DEF Range
  <2>3. bm' = PowerOnCmd(bm) \/ bm' = PowerOffCmd(bm) BY <1>14 DEF PowerButton, PowerToggle
  <2>4. Eased(bm, bm') BY <1>1, <2>3, CommandsKeep
  <2> QED BY <1>3, <2>1, <2>2, <2>4
<1>15. CASE UNCHANGED vars BY <1>1, <1>15 DEF vars, IInv
<1> QED
  BY <1>4, <1>5, <1>6, <1>7, <1>8, <1>9, <1>10, <1>11, <1>12, <1>13, <1>14, <1>15 DEF Next, LoopStep

LEMMA TypesHold == IInv => TypeOK
BY DEF IInv, Mid, Sane, Drivers, TypeOK

LEMMA PhaseHolds == IInv => PowerInPhase
<1> SUFFICES ASSUME IInv, uart = <<>>, chip.power # "on" PROVE ~bm.power_on
  BY DEF PowerInPhase
<1>1. Len(uart) = 0 /\ 0 + 1..Len(uart) = {} BY EmptySeq
<1>2. InPhase(bm, chip, uart, 0) BY DEF IInv, Mid
<1> QED BY <1>1, <1>2 DEF InPhase

LEMMA AuxHolds == IInv => AuxIsLive
<1> SUFFICES ASSUME IInv, bm.power_on, uart = <<>>, chip.source # "unannounced"
             PROVE  ShouldShowAux(bm) <=> chip.source = "src_aux"
  BY DEF AuxIsLive
<1>1. Len(uart) = 0 /\ 0 + 1..Len(uart) = {} BY EmptySeq
<1>2. chip.source \in AudioSources BY DEF IInv, Sound, Modules
<1>3. /\ bm.source_seen
      /\ bm.source = chip.source \/ (bm.source = "unknown" /\ chip.source # "src_aux")
  BY <1>1, <1>2 DEF IInv, Mid, Sourced
<1> QED BY <1>3 DEF ShouldShowAux

(* Whatever the module is, the driver is in step with it as soon as it has  *)
(* read the reports that are waiting.                                       *)
THEOREM LinkInvariant == Spec => []IInv
<1>1. IInv /\ [Next]_vars => IInv' BY NextKeeps
<1> QED BY <1>1, Starts, PTL DEF Spec

(* The driver keeps its types: the timers stop where they are due, a link   *)
(* that a response restored is up, and only a session registers.            *)
THEOREM LinkTypes == Spec => []TypeOK
BY LinkInvariant, TypesHold, PTL

(* Once everything is read a module that is off is not believed to be on,   *)
(* for a batch of any length and reports in any order a module can send.    *)
THEOREM PowerStaysInPhase == Spec => []PowerInPhase
BY LinkInvariant, PhaseHolds, PTL

(* Once everything is read AUX is shown exactly while it is the announced   *)
(* source, although a lost link forgets every other one.                    *)
THEOREM AuxIsShownLive == Spec => []AuxIsLive
BY LinkInvariant, AuxHolds, PTL

-------------------------------------------------------------------------------
(* The legacy keyboard *)


Bles ==
    [intent : BOOLEAN, mode : {"ENABLED", "PAUSING", "PAUSED", "ERROR"}, enabling : BOOLEAN,
     armed : BOOLEAN, tried : SUBSET Nat, was : BOOLEAN, stage : {"IDLE", "GC", "WIPE", "READV"},
     wiping : BOOLEAN, due : BOOLEAN, late : BOOLEAN, inhibit : BOOLEAN, cooling : BOOLEAN,
     counter : Nat, persisted : BOOLEAN]
Radios == [links : SUBSET Nat, adv : BOOLEAN, under : BOOLEAN, wipes : Nat]
Parts == [b : Bles, r : Radios, d : Nat]
Logs == [links : Nat, wipes : Nat, troubles : Nat, boots : Nat, owed : BOOLEAN, names : SUBSET Nat]

(* A wipe under way has been taken and the next one must wait. *)
Wiping(b) == b.stage # "IDLE" => b.cooling /\ ~b.wiping

(* A wipe that is asked for or still to come is one the user expects. *)
Expected(b, owed) == b.wiping \/ b.stage \in {"GC", "WIPE"} => owed

(* The counter is past every name of this boot. *)
Past(b, names) == \A n \in names : n <= b.counter

BleTypeOK == ble \in Bles /\ radio \in Radios /\ disk \in Nat /\ log \in Logs
BleInv == BleTypeOK /\ Wiping(ble) /\ Expected(ble, log.owed) /\ Past(ble, log.names)

(* What a wipe depends on is left alone. *)
Kept(p, q) ==
    /\ q \in Parts
    /\ q.b.stage = p.b.stage /\ q.b.wiping = p.b.wiping
    /\ q.b.cooling = p.b.cooling /\ q.b.counter = p.b.counter
    /\ q.r.wipes = p.r.wipes /\ q.r.links = p.r.links /\ q.d = p.d

LEMMA KeptSelf == ASSUME NEW p \in Parts PROVE Kept(p, p)
BY DEF Kept

LEMMA KeptThen ==
    ASSUME NEW p, NEW q, NEW s, Kept(p, q), Kept(q, s)
    PROVE  Kept(p, s)
BY DEF Kept

-------------------------------------------------------------------------------
(* The parts of a tick *)

LEMMA StopAdvKept == ASSUME NEW p \in Parts, NEW trouble PROVE Kept(p, StopAdv(p, trouble))
BY DEF StopAdv, Kept, Parts, Radios

LEMMA AdvertiseKept == ASSUME NEW p \in Parts, NEW trouble PROVE Kept(p, Advertise(p, trouble))
BY DEF Advertise, Kept, Parts, Bles, Radios

LEMMA StartAdvKept ==
    ASSUME NEW p \in Parts, NEW force, NEW trouble
    PROVE  Kept(p, StartAdv(p, force, trouble))
<1> DEFINE q == IF force THEN StopAdv(p, trouble) ELSE p
<1>1. Kept(p, q) BY StopAdvKept, KeptSelf
<1>2. Kept(q, Advertise(q, trouble)) BY <1>1, AdvertiseKept DEF Kept
<1>3. Kept(p, Advertise(q, trouble)) BY <1>1, <1>2, KeptThen
<1>4. Kept(p, p) BY KeptSelf
<1>5. StartAdv(p, force, trouble) \in {p, Advertise(q, trouble)} BY DEF StartAdv
<1> QED BY <1>3, <1>4, <1>5

LEMMA FailKept == ASSUME NEW p \in Parts PROVE Kept(p, Fail(p))
BY DEF Fail, Kept, Parts, Bles

LEMMA ArmKept == ASSUME NEW p \in Parts, NEW trouble PROVE Kept(p, Arm(p, trouble))
<1> DEFINE pausing == [p EXCEPT !.b.mode = "PAUSING", !.b.armed = TRUE, !.b.late = FALSE, !.b.due = FALSE]
           stopped == StopAdv(pausing, trouble)
<1>1. Kept(p, pausing) BY DEF Kept, Parts, Bles
<1> HIDE DEF pausing
<1>2. Kept(pausing, stopped) BY <1>1, StopAdvKept DEF Kept
<1>3. Kept(p, stopped) BY <1>1, <1>2, KeptThen
<1>4. Kept(pausing, Fail(pausing)) /\ Kept(stopped, Fail(stopped)) BY <1>1, <1>2, FailKept DEF Kept
<1>5. Kept(p, Fail(pausing)) /\ Kept(p, Fail(stopped)) BY <1>1, <1>3, <1>4, KeptThen
<1>6. Arm(p, trouble) \in {Fail(pausing), Fail(stopped), stopped} BY DEF Arm, pausing
<1> QED BY <1>3, <1>5, <1>6

LEMMA TerminateKept ==
    ASSUME NEW p \in Parts, NEW l \in p.r.links, NEW trouble
    PROVE  Kept(p, Terminate(p, l, trouble))
<1>1. l \in Nat BY DEF Parts, Radios
<1>2. Kept(p, [p EXCEPT !.b.tried = @ \cup {l}]) BY <1>1 DEF Kept, Parts, Bles
<1> QED BY <1>2, FailKept DEF Terminate

LEMMA AwaitKept ==
    ASSUME NEW p \in Parts, NEW trouble, NEW q \in Await(p, trouble)
    PROVE  Kept(p, q)
<1>1. Kept(p, Confirmed(p)) BY DEF Confirmed, Kept, Parts, Bles
<1>2. q \in {Confirmed(p), Fail(p), p} \/ \E l \in p.r.links : q = Terminate(p, l, trouble)
  BY DEF Await
<1> QED BY <1>1, <1>2, FailKept, KeptSelf, TerminateKept

LEMMA TickPauseKept ==
    ASSUME NEW p \in Parts, NEW trouble, NEW q \in TickPause(p, trouble)
    PROVE  Kept(p, q)
BY KeptSelf, ArmKept, AwaitKept DEF TickPause

LEMMA EdgeKept == ASSUME NEW p \in Parts, NEW trouble PROVE Kept(p, Edge(p, trouble))
<1> DEFINE down == [p EXCEPT !.b.was = FALSE]
<1>1. Kept(p, down) /\ Kept(p, [p EXCEPT !.b.was = TRUE]) BY DEF Kept, Parts, Bles
<1> HIDE DEF down
<1>2. down \in Parts BY <1>1 DEF Kept
<1>3. Kept(down, StartAdv(down, TRUE, trouble)) BY <1>2, StartAdvKept
<1>4. Kept(p, StartAdv(down, TRUE, trouble)) BY <1>1, <1>3, KeptThen
<1> QED BY <1>1, <1>4, KeptSelf DEF Edge, down

LEMMA EnabledKept == ASSUME NEW p \in Parts PROVE Kept(p, Enabled(p))
<1>1. Kept(p, [p EXCEPT !.b.enabling = FALSE, !.b.inhibit = FALSE]) BY DEF Kept, Parts, Bles
<1> QED BY <1>1, KeptSelf DEF Enabled

-------------------------------------------------------------------------------
(* A tick: the wipe it may begin, and the stages of the one under way. *)

Begins(p, q) ==
    /\ q \in Parts
    /\ q.b.stage = "GC" /\ ~q.b.wiping /\ q.b.cooling /\ q.b.counter = p.b.counter
    /\ q.r.wipes = p.r.wipes

LEMMA EraseBegins == ASSUME NEW p \in Parts, NEW trouble PROVE Begins(p, BeginErase(p, trouble))
<1> DEFINE taken == [p EXCEPT !.b.wiping = FALSE, !.b.cooling = TRUE]
           quiet == StopAdv(taken, trouble)
<1>1. taken \in Parts /\ ~taken.b.wiping /\ taken.b.cooling
      /\ taken.b.counter = p.b.counter /\ taken.r.wipes = p.r.wipes
  BY DEF Parts, Bles
<1> HIDE DEF taken
<1>2. Kept(taken, quiet) BY <1>1, StopAdvKept
<1> HIDE DEF quiet
<1>3. Begins(p, Stage(quiet, "GC")) BY <1>1, <1>2 DEF Kept, Stage, Begins, Parts, Bles
<1> QED BY <1>3 DEF BeginErase, taken, quiet

(* A tick outside a wipe changes nothing, or begins one that was asked for. *)
LEMMA TickedIdle ==
    ASSUME NEW p \in Parts, p.b.stage = "IDLE", NEW kick, NEW trouble,
           NEW q \in Ticked(p, kick, trouble)
    PROVE  Kept(p, q) \/ (p.b.wiping /\ Begins(p, q))
<1> DEFINE e == Edge(p, trouble)
<1>1. Kept(p, e) BY EdgeKept
<1>2. e \in Parts BY <1>1 DEF Kept
<1> HIDE DEF e
<1>3. ASSUME q = TickOn(e, kick, trouble) PROVE Kept(p, q) \/ (p.b.wiping /\ Begins(p, q))
  <2> DEFINE n == [e EXCEPT !.b.enabling = FALSE]
             on == Enabled(e)
  <2>1. Kept(e, n) BY <1>2 DEF Kept, Parts, Bles
  <2>2. Kept(e, Fail(n)) BY <2>1, FailKept, KeptThen DEF Kept
  <2>3. Kept(e, on) BY <1>2, EnabledKept
  <2> HIDE DEF n, on
  <2>4. Kept(e, Idle(on, kick, trouble)) BY <2>3, StartAdvKept, KeptThen DEF Idle, Kept
  <2>5. Begins(on, BeginErase(on, trouble)) BY <2>3, EraseBegins DEF Kept
  <2>6. Kept(e, q) \/ (e.b.wiping /\ q = BeginErase(on, trouble))
    <3>1. \/ q \in {Fail(n), on, Idle(on, kick, trouble)}
          \/ (e.b.wiping /\ q = BeginErase(on, trouble))
      BY <1>3 DEF TickOn, n, on
    <3> QED BY <3>1, <2>2, <2>3, <2>4 DEF Kept
  <2>7. CASE Kept(e, q) BY <2>7, <1>1, KeptThen
  <2>8. CASE e.b.wiping /\ q = BeginErase(on, trouble)
    BY <2>8, <2>5, <2>3, <1>1 DEF Kept, Begins
  <2> QED BY <2>6, <2>7, <2>8
<1>4. ASSUME q \in TickOff(e, trouble) PROVE Kept(p, q) \/ (p.b.wiping /\ Begins(p, q))
  <2>1. PICK s \in TickPause(e, trouble) :
           q = IF s.b.mode = "PAUSED" /\ s.b.wiping THEN BeginErase(s, trouble) ELSE s
    BY <1>4 DEF TickOff
  <2>2. Kept(e, s) BY <1>2, TickPauseKept
  <2>3. Kept(p, s) BY <1>1, <2>2, KeptThen
  <2>4. Begins(s, BeginErase(s, trouble)) BY <2>2, EraseBegins DEF Kept
  <2> QED BY <2>1, <2>3, <2>4 DEF Kept, Begins
<1>5. Kept(p, Fail(p)) BY FailKept
<1>6. q = Fail(p) \/ q = TickOn(e, kick, trouble) \/ q \in TickOff(e, trouble)
  BY DEF Ticked, e
<1> QED BY <1>3, <1>4, <1>5, <1>6

(* A tick of a wipe. *)
Goes(p, q) ==
    \/ Kept(p, q)
    \/ /\ q \in Parts
       /\ q.b.counter = p.b.counter /\ q.r.wipes = p.r.wipes /\ q.b.cooling = p.b.cooling
       /\ \/ p.b.stage = "GC" /\ q.b.stage = "WIPE" /\ q.b.wiping = p.b.wiping
          \/ p.b.stage = "READV" /\ q.b.stage = "IDLE" /\ q.b.wiping = p.b.wiping
          \/ p.b.stage = "WIPE" /\ q.b.stage = "IDLE" /\ q.b.wiping
    \/ /\ q \in Parts
       /\ p.b.stage = "WIPE" /\ ~Connected(p.r) /\ q.b.stage = "READV"
       /\ q.b.wiping = p.b.wiping /\ q.b.cooling = p.b.cooling
       /\ \/ q.b.counter = p.b.counter /\ q.r.wipes = p.r.wipes
          \/ q.b.counter > p.b.counter

LEMMA StageType ==
    ASSUME NEW p \in Parts, NEW stage \in {"GC", "WIPE", "READV"}
    PROVE  LET q == Stage(p, stage)
           IN  /\ q \in Parts /\ q.b.stage = stage /\ q.b.wiping = p.b.wiping
               /\ q.b.cooling = p.b.cooling /\ q.b.counter = p.b.counter /\ q.r.wipes = p.r.wipes
BY DEF Stage, Parts, Bles

LEMMA CounterGrows ==
    ASSUME NEW p \in Parts
    PROVE  NextCounter(p.b, p.d) \in Nat /\ NextCounter(p.b, p.d) > p.b.counter
<1>1. p.b.counter \in Nat /\ p.d \in Nat BY DEF Parts, Bles
<1> QED BY <1>1 DEF NextCounter, Greater

LEMMA WipedGoes ==
    ASSUME NEW p \in Parts, NEW trouble, p.b.stage = "WIPE", ~Connected(p.r)
    PROVE  Goes(p, Wiped(p, trouble))
<1> DEFINE c == NextCounter(p.b, p.d)
           renamed == [p EXCEPT !.b.counter = c, !.b.persisted = trouble # "write",
                                !.d = IF trouble # "write" THEN c ELSE @, !.r.wipes = @ + 1]
<1>1. c \in Nat /\ c > p.b.counter BY CounterGrows
<1> HIDE DEF c
<1>2. renamed \in Parts /\ renamed.b.counter = c
      /\ renamed.b.wiping = p.b.wiping /\ renamed.b.cooling = p.b.cooling
  <2> DEFINE kept == trouble # "write"
             named == [p EXCEPT !.b.counter = c, !.b.persisted = kept]
             file == IF kept THEN c ELSE named.d
             filed == [named EXCEPT !.d = file]
  <2>1. named \in Parts /\ named.b.counter = c
        /\ named.b.wiping = p.b.wiping /\ named.b.cooling = p.b.cooling
    <3> HIDE DEF kept
    <3>1. kept \in BOOLEAN BY DEF kept
    <3> QED BY <1>1, <3>1 DEF Parts, Bles
  <2>2. renamed = [filed EXCEPT !.r.wipes = @ + 1] BY DEF renamed
  <2> HIDE DEF named
  <2>3. file \in Nat BY <1>1, <2>1 DEF Parts
  <2> HIDE DEF file
  <2>4. filed \in Parts /\ filed.b = named.b BY <2>1, <2>3 DEF Parts
  <2> HIDE DEF filed, renamed
  <2> QED BY <2>1, <2>2, <2>4 DEF Parts, Radios
<1> HIDE DEF renamed
<1>3. Goes(p, Stage(renamed, "READV"))
  <2>1. LET q == Stage(renamed, "READV")
        IN  /\ q \in Parts /\ q.b.stage = "READV" /\ q.b.wiping = renamed.b.wiping
            /\ q.b.cooling = renamed.b.cooling /\ q.b.counter = renamed.b.counter
    BY <1>2, StageType
  <2> QED BY <2>1, <1>1, <1>2 DEF Goes
<1>4. Goes(p, Stage(p, "READV"))
  <2>1. LET q == Stage(p, "READV")
        IN  /\ q \in Parts /\ q.b.stage = "READV" /\ q.b.wiping = p.b.wiping /\ q.r.wipes = p.r.wipes
            /\ q.b.cooling = p.b.cooling /\ q.b.counter = p.b.counter
    BY StageType
  <2> QED BY <2>1 DEF Goes
<1> QED BY <1>3, <1>4 DEF Wiped, c, renamed

LEMMA TickedBusy ==
    ASSUME NEW p \in Parts, p.b.stage # "IDLE", NEW kick, NEW trouble,
           NEW q \in Ticked(p, kick, trouble)
    PROVE  Goes(p, q)
<1>0. p.b.stage \in {"GC", "WIPE", "READV"} BY DEF Parts, Bles
<1>1. q = TickErase(p, trouble) BY DEF Ticked
<1>2. CASE ~p.b.due BY <1>1, <1>2, KeptSelf DEF TickErase, Goes
<1>3. CASE p.b.due /\ p.b.stage = "GC"
  <2>1. q = Stage(p, "WIPE") BY <1>1, <1>3 DEF TickErase
  <2>2. LET s == Stage(p, "WIPE")
        IN  /\ s \in Parts /\ s.b.stage = "WIPE" /\ s.b.wiping = p.b.wiping
            /\ s.b.cooling = p.b.cooling /\ s.b.counter = p.b.counter /\ s.r.wipes = p.r.wipes
    BY StageType
  <2> QED BY <2>1, <2>2, <1>3 DEF Goes
<1>4. CASE p.b.due /\ p.b.stage = "READV"
  <2> DEFINE s == [p EXCEPT !.b.stage = "IDLE"]
  <2>1. q = StartAdv(s, TRUE, trouble) BY <1>1, <1>4 DEF TickErase
  <2>2. s \in Parts /\ s.b.stage = "IDLE" /\ s.b.wiping = p.b.wiping
        /\ s.b.cooling = p.b.cooling /\ s.b.counter = p.b.counter /\ s.r.wipes = p.r.wipes
    BY DEF Parts, Bles
  <2> HIDE DEF s
  <2>3. Kept(s, q) BY <2>1, <2>2, StartAdvKept
  <2> QED BY <2>2, <2>3, <1>4 DEF Goes, Kept
<1>5. CASE p.b.due /\ p.b.stage = "WIPE" /\ Connected(p.r)
  <2> DEFINE s == [p EXCEPT !.b.stage = "IDLE", !.b.wiping = TRUE]
  <2>1. q = s BY <1>1, <1>5 DEF TickErase
  <2>2. s \in Parts /\ s.b.stage = "IDLE" /\ s.b.wiping
        /\ s.b.cooling = p.b.cooling /\ s.b.counter = p.b.counter /\ s.r.wipes = p.r.wipes
    BY DEF Parts, Bles
  <2> QED BY <2>1, <2>2, <1>5 DEF Goes
<1>6. CASE p.b.due /\ p.b.stage = "WIPE" /\ ~Connected(p.r)
  BY <1>1, <1>6, WipedGoes DEF TickErase
<1> QED BY <1>0, <1>2, <1>3, <1>4, <1>5, <1>6

-------------------------------------------------------------------------------
(* The invariant and the step of a wipe *)

LEMMA BleStarts == BleInit => BleInv
BY DEF BleInit, Blank, BleInv, BleTypeOK, Bles, Radios, Logs, Wiping, Expected, Past

(* What the log of a tick says, whatever its record. *)
LEMMA BleTickSteps ==
    ASSUME BleInv, NEW kick \in BOOLEAN, NEW trouble, Tick(kick, trouble)
    PROVE  BleInv' /\ (radio'.wipes # radio.wipes =>
                        ~Connected(radio) /\ log.owed /\ ble'.counter \notin log.names)
<1> DEFINE p == [b |-> ble, r |-> radio, d |-> disk]
<1>1. p \in Parts /\ p.b = ble /\ p.r = radio BY DEF BleInv, BleTypeOK, Parts
<1> HIDE DEF p
<1>2. PICK q \in Ticked(p, kick, trouble) :
         /\ ble' = q.b /\ radio' = q.r /\ disk' = q.d
         /\ log' = [log EXCEPT !.troubles = IF trouble \in Troubles THEN @ + 1 ELSE @,
                               !.owed = @ /\ q.b.stage # "READV",
                               !.names = @ \cup {q.b.counter}]
  BY DEF Tick, p
<1>3. Kept(p, q) \/ (p.b.wiping /\ Begins(p, q)) \/ (p.b.stage # "IDLE" /\ Goes(p, q))
  BY <1>1, TickedIdle, TickedBusy
<1>4. q \in Parts BY <1>3 DEF Kept, Begins, Goes
<1>5. log \in Logs /\ p.b.counter \in Nat /\ q.b.counter \in Nat
  BY <1>1, <1>4 DEF BleInv, BleTypeOK, Parts, Bles
<1>6. /\ log' \in Logs
      /\ log'.owed = (log.owed /\ q.b.stage # "READV")
      /\ log'.names = log.names \cup {q.b.counter}
  <2> DEFINE t == IF trouble \in Troubles THEN log.troubles + 1 ELSE log.troubles
             o == log.owed /\ q.b.stage # "READV"
  <2>1. t \in Nat BY <1>5 DEF Logs
  <2>2. o \in BOOLEAN OBVIOUS
  <2>3. log' = [log EXCEPT !.troubles = t, !.owed = o, !.names = @ \cup {q.b.counter}]
    BY <1>2
  <2> HIDE DEF t, o
  <2>4. log' \in Logs /\ log'.owed = o /\ log'.names = log.names \cup {q.b.counter}
    BY <1>5, <2>1, <2>2, <2>3 DEF Logs
  <2> QED BY <2>4 DEF o
<1>7. q.b.counter >= p.b.counter
  BY <1>3, <1>5 DEF Kept, Begins, Goes
<1>8. BleTypeOK' BY <1>2, <1>4, <1>6 DEF BleTypeOK, Parts
<1>9. Past(ble, log.names)'
  <2>1. \A n \in log.names : n <= p.b.counter /\ n \in Nat
    BY <1>1, <1>5 DEF BleInv, Past, Logs
  <2>2. \A n \in log.names : n <= q.b.counter BY <2>1, <1>5, <1>7
  <2> QED BY <2>2, <1>2, <1>5, <1>6 DEF Past
<1>10. Wiping(q.b) /\ Expected(q.b, log.owed /\ q.b.stage # "READV")
  <2>1. Wiping(p.b) /\ Expected(p.b, log.owed) /\ p.b \in Bles /\ q.b \in Bles
    BY <1>1, <1>4 DEF BleInv, Parts
  <2>2. CASE Kept(p, q) BY <2>1, <2>2 DEF Kept, Wiping, Expected, Bles
  <2>3. CASE p.b.wiping /\ Begins(p, q) BY <2>1, <2>3 DEF Begins, Wiping, Expected, Bles
  <2>4. CASE p.b.stage # "IDLE" /\ Goes(p, q)
    BY <2>1, <2>4 DEF Goes, Kept, Wiping, Expected, Bles
  <2> QED BY <1>3, <2>2, <2>3, <2>4
<1>11. (Wiping(ble) /\ Expected(ble, log.owed))'
  BY <1>10, <1>2, <1>6 DEF Wiping, Expected
<1>12. ASSUME q.r.wipes # p.r.wipes
       PROVE  ~Connected(p.r) /\ p.b.stage = "WIPE" /\ q.b.counter > p.b.counter
  BY <1>3, <1>12 DEF Kept, Begins, Goes
<1>13. ASSUME q.r.wipes # p.r.wipes PROVE log.owed /\ q.b.counter \notin log.names
  <2>1. log.owed BY <1>12, <1>13, <1>1 DEF BleInv, Expected
  <2>2. \A n \in log.names : n <= p.b.counter /\ n \in Nat
    BY <1>1, <1>5 DEF BleInv, Past, Logs
  <2> QED BY <2>1, <2>2, <1>5, <1>12, <1>13
<1> QED BY <1>1, <1>2, <1>8, <1>9, <1>11, <1>12, <1>13 DEF BleInv

LEMMA BleOthersStep ==
    ASSUME BleInv, [RequestPause \/ RequestEnable \/ RequestEraseBonds \/ Connect
                  \/ (\E l \in radio.links : Drop(l))
                  \/ Settle \/ Deadline \/ BackedOff \/ Cooled
                  \/ \E counter \in {0, disk} : PowerCycle(counter)]_bleVars
    PROVE  BleInv' /\ radio'.wipes = radio.wipes
<1> USE DEF BleInv, BleTypeOK
<1>1. CASE RequestPause
  <2>1. CASE Busy
    <3>1. ble' = [ble EXCEPT !.mode = "ERROR"] BY <1>1, <2>1 DEF RequestPause
    <3>2. ble' \in Bles /\ ble'.stage = ble.stage /\ ble'.wiping = ble.wiping
          /\ ble'.cooling = ble.cooling /\ ble'.counter = ble.counter
      BY <3>1 DEF Bles
    <3> QED BY <1>1, <2>1, <3>2 DEF RequestPause, Wiping, Expected, Past
  <2>2. CASE ~Busy
    <3>1. ble' = Released(ble) /\ log' = [log EXCEPT !.owed = FALSE]
      BY <1>1, <2>2 DEF RequestPause
    <3>2. ble' \in Bles /\ ble'.stage = ble.stage /\ ~ble'.wiping
          /\ ble'.cooling = ble.cooling /\ ble'.counter = ble.counter
      BY <3>1 DEF Bles, Released, ReleasedOnly
    <3>3. log' \in Logs /\ log'.names = log.names BY <3>1 DEF Logs
    <3> QED BY <1>1, <2>2, <3>2, <3>3 DEF RequestPause, Busy, Wiping, Expected, Past
  <2> QED BY <2>1, <2>2
<1>2. CASE RequestEnable
  <2>1. ble' \in Bles /\ ble'.stage = ble.stage /\ ble'.wiping = ble.wiping
        /\ ble'.cooling = ble.cooling /\ ble'.counter = ble.counter
    <3>1. [ble EXCEPT !.intent = TRUE, !.enabling = TRUE, !.mode = "ENABLED",
                      !.armed = FALSE, !.tried = {}] \in Bles
      BY DEF Bles
    <3>2. [ble EXCEPT !.mode = "ERROR"] \in Bles BY DEF Bles
    <3> QED BY <1>2, <3>1, <3>2 DEF RequestEnable, Bles
  <2> QED BY <1>2, <2>1 DEF RequestEnable, Wiping, Expected, Past
<1>3. CASE RequestEraseBonds
  <2>1. ble' \in Bles /\ ble'.stage = ble.stage /\ ble'.counter = ble.counter
        /\ ble'.cooling = ble.cooling /\ ble.cooling = FALSE
    BY <1>3 DEF RequestEraseBonds, Bles
  <2>2. log' \in Logs /\ log'.names = log.names /\ log'.owed
    <3> DEFINE counted == [log EXCEPT !.wipes = @ + 1]
    <3>1. counted \in Logs /\ counted.names = log.names BY DEF Logs
    <3>2. log' = [counted EXCEPT !.owed = TRUE] BY <1>3 DEF RequestEraseBonds
    <3> HIDE DEF counted
    <3> QED BY <3>1, <3>2 DEF Logs
  <2> QED BY <1>3, <2>1, <2>2 DEF RequestEraseBonds, Wiping, Expected, Past
<1>4. CASE Connect
  <2>1. radio' \in Radios /\ radio'.wipes = radio.wipes
    <3>1. log.links + 1 \in Nat BY DEF Logs
    <3> QED BY <1>4, <3>1 DEF Connect, Radios
  <2>2. log' \in Logs /\ log'.names = log.names /\ log'.owed = log.owed
    <3>1. log' = [log EXCEPT !.links = @ + 1] BY <1>4 DEF Connect
    <3> QED BY <3>1 DEF Logs
  <2> QED BY <1>4, <2>1, <2>2 DEF Connect, Wiping, Expected, Past
<1>5. ASSUME NEW l \in radio.links, Drop(l) PROVE BleInv' /\ radio'.wipes = radio.wipes
  <2>1. radio' \in Radios /\ radio'.wipes = radio.wipes BY <1>5 DEF Drop, Radios
  <2> QED BY <1>5, <2>1 DEF Drop, Wiping, Expected, Past
<1>6. CASE Settle \/ Deadline \/ BackedOff \/ Cooled
  <2>1. /\ ble' \in Bles /\ ble'.stage = ble.stage /\ ble'.wiping = ble.wiping
        /\ ble'.counter = ble.counter /\ (ble'.cooling = ble.cooling \/ ble.stage = "IDLE")
    BY <1>6 DEF Settle, Deadline, BackedOff, Cooled, Busy, Bles
  <2>2. UNCHANGED <<radio, disk, log>> BY <1>6 DEF Settle, Deadline, BackedOff, Cooled
  <2> QED BY <2>1, <2>2 DEF Wiping, Expected, Past
<1>7. ASSUME NEW counter \in {0, disk}, PowerCycle(counter) PROVE BleInv' /\ radio'.wipes = radio.wipes
  <2>1. counter \in Nat OBVIOUS
  <2>2. Blank(counter) \in Bles BY <2>1 DEF Blank, Bles
  <2>3. radio' \in Radios /\ radio'.wipes = radio.wipes BY <1>7 DEF PowerCycle, Radios
  <2>4. log' \in Logs /\ log'.names = {counter}
    <3> DEFINE seen == {counter}
               counted == [log EXCEPT !.boots = @ + 1]
    <3>1. seen \in SUBSET Nat BY <2>1
    <3>2. counted \in Logs BY DEF Logs
    <3>3. log' = [counted EXCEPT !.owed = FALSE, !.names = seen]
      BY <1>7 DEF PowerCycle
    <3> HIDE DEF seen, counted
    <3>4. log' \in Logs /\ log'.names = seen BY <3>1, <3>2, <3>3 DEF Logs
    <3> QED BY <3>4 DEF seen
  <2> QED BY <1>7, <2>1, <2>2, <2>3, <2>4 DEF PowerCycle, Blank, Wiping, Expected, Past
<1>8. CASE UNCHANGED bleVars BY <1>8 DEF bleVars, Wiping, Expected, Past
<1> QED BY <1>1, <1>2, <1>3, <1>4, <1>5, <1>6, <1>7, <1>8

LEMMA BleNextSteps ==
    ASSUME BleInv, [BleNext]_bleVars
    PROVE  BleInv' /\ (radio'.wipes # radio.wipes =>
                        ~Connected(radio) /\ log.owed /\ ble'.counter \notin log.names)
BY BleTickSteps, BleOthersStep DEF BleNext

(* A wipe under way is one the user expects, it is followed by no second    *)
(* one, and the name's number is past every name computers have seen.       *)
THEOREM BleInvariant == BleSpec => []BleInv
<1>1. BleInv /\ [BleNext]_bleVars => BleInv' BY BleNextSteps
<1> QED BY BleStarts, <1>1, PTL DEF BleSpec

(* Bonds are wiped only without a link, for a request no pause came after   *)
(* and under a name no computer has seen since power-on.                    *)
THEOREM WipeSafe == BleSpec => WipeIsSafe
<1>1. BleInv /\ [BleNext]_bleVars =>
        [radio'.wipes # radio.wipes =>
            ~Connected(radio) /\ log.owed /\ ble'.counter \notin log.names]_bleVars
  BY BleNextSteps
<1> QED BY BleInvariant, <1>1, PTL DEF BleSpec, WipeIsSafe
===============================================================================

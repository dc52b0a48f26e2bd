------------------------------- MODULE BadgeLink -------------------------------
(***************************************************************************)
(* The badge's control commands over UDP: the one transaction in flight    *)
(* and the bounded queues of the badge (transport.py), the sessions and    *)
(* the sequence watermark of the controller (badge_remote.py), and the     *)
(* volume hold of main.py that a press starts and a release ends.          *)
(* Of each direction the network still holds the last few datagrams; each  *)
(* may arrive any number of times, in any order, or never: the retries of  *)
(* a transaction repeat one datagram, and giving it up may come at any     *)
(* time.  At most one of the four replies a step reads takes effect,       *)
(* because there is nothing pending after it.                              *)
(***************************************************************************)
EXTENDS Naturals, FiniteSets, Sequences, SequencesExt

CONSTANTS
    Buttons,        \* the volume buttons
    Taps,           \* what other keys ask; "BT_EBIND" is the one denied
    MaxActs,        \* bound on what the user does
    MaxSeq,         \* bound on the commands of a session
    MaxHellos,      \* bound on the badge's hellos
    MaxBoots,       \* bound on the controller's boots
    MaxOthers,      \* bound on the sessions other badges open
    InFlight,       \* bound on the datagrams of a direction the network holds
    Room,           \* commands the badge queues (8)
    MaxRehellos,    \* rehellos a release survives (3)
    MaxClients,     \* MAX_CLIENTS
    MaxHandshakes   \* MAX_HANDSHAKES

ASSUME BadgeAssumption ==
    /\ {MaxActs, MaxSeq, MaxHellos, MaxBoots, InFlight, Room, MaxRehellos, MaxClients,
        MaxHandshakes} \subseteq Nat \ {0}
    /\ MaxOthers \in Nat
    /\ Taps \cap {"P", "R", "STATUS"} = {} /\ "none" \notin Buttons

VARIABLES
    app,        \* the badge: session, pending datagram, queues
    unit,       \* the controller: boot, clients in LRU order, hellos seen, hold
    requests,   \* datagrams sent to the controller
    replies,    \* datagrams sent to the badge
    log         \* what ran, was stopped, was told, and which presses are owed a release

vars == <<app, unit, requests, replies, log>>

Acts == 1..MaxActs
None == "none"
Nothing == [type |-> None]
Token(name, button, act) == [name |-> name, button |-> button, act |-> act]
Status == Token("STATUS", None, 0)

(* The network takes a datagram and loses the oldest it has no room for. *)
Put(net, m) ==
    LET all == Append(RemoveFirst(net, m), m)
    IN  IF Len(all) > InFlight THEN Tail(all) ELSE all

Queued(a) == Len(a.queue) + Len(a.gestures)

InitApp(acts, hellos) ==
    [boot |-> 0, client |-> 0, seq |-> 0, pending |-> Nothing, stalled |-> FALSE, queue |-> <<>>,
     gestures |-> <<>>, held |-> None, rehellos |-> 0, closing |-> FALSE,
     acts |-> acts, hellos |-> hellos]

Init ==
    /\ app = InitApp(0, 0)
    /\ unit = [boot |-> 1, clients |-> <<>>, hellos |-> {}, others |-> 0, next |-> 1, hold |-> Nothing]
    /\ requests = <<>>
    /\ replies = <<>>
    /\ log = [ran |-> [n \in Acts |-> 0], stopped |-> {}, sent |-> {}, refused |-> {}, owed |-> {}]

-------------------------------------------------------------------------------
(* The badge's queues *)

HasRoom(a) == Queued(a) < Room

(* A release ends the newest hold of its button; it is a stop of its own    *)
(* only when no gesture of the button is queued.                            *)
Released(a, button) ==
    LET of == {i \in 1..Len(a.gestures) : a.gestures[i].button = button}
        open == {i \in of : ~a.gestures[i].released}
    IN  IF open # {} THEN [a EXCEPT !.gestures[Max(open)].released = TRUE]
        ELSE IF of # {} THEN a
        ELSE [a EXCEPT !.gestures = Append(@, [button |-> button, act |-> 0,
                                               pressed |-> TRUE, released |-> TRUE])]

ReleaseVolume(a) ==
    IF a.held = None THEN a ELSE [Released(a, a.held) EXCEPT !.held = None]

(* The gestures whose press was sent, in their order. *)
Begun(gestures) ==
    LET upTo[i \in 0..Len(gestures)] ==
            IF i = 0 THEN <<>>
            ELSE IF gestures[i].pressed THEN Append(upTo[i - 1], gestures[i])
            ELSE upTo[i - 1]
    IN  upTo[Len(gestures)]

(* Mutation: a hold whose press was dropped is kept. *)
DropKeepsHeld(a) == [a EXCEPT !.queue = <<>>, !.gestures = Begun(@)]

DropUnsent(a) ==
    LET kept == Begun(a.gestures)
    IN  [a EXCEPT !.queue = <<>>, !.gestures = kept,
                  !.held = IF \E g \in ToSet(kept) : g.button = @ /\ ~g.released THEN @ ELSE None]

Volume(button) ==
    LET a == ReleaseVolume(app)
        gesture == [button |-> button, act |-> app.acts + 1, pressed |-> FALSE, released |-> FALSE]
    IN  /\ ~app.closing /\ app.held # button /\ app.acts < MaxActs
        /\ app' = IF HasRoom(a)
                  THEN [a EXCEPT !.gestures = Append(@, gesture), !.held = button, !.acts = @ + 1]
                  ELSE a
        /\ UNCHANGED <<unit, requests, replies, log>>

Release ==
    /\ ~app.closing /\ app.held # None
    /\ app' = ReleaseVolume(app)
    /\ UNCHANGED <<unit, requests, replies, log>>

Tap(name) ==
    /\ ~app.closing /\ HasRoom(app) /\ app.acts < MaxActs
    /\ app' = [app EXCEPT !.queue = Append(@, Token(name, None, app.acts + 1)), !.acts = @ + 1]
    /\ UNCHANGED <<unit, requests, replies, log>>

-------------------------------------------------------------------------------
(* The badge's step *)

Releasing(a) == a.pending.type = "cmd" /\ a.pending.token.name = "R"

(* A rehello ends the session.  A release and a status query are sent       *)
(* again in the next one, up to a limit; any other command is unconfirmed.  *)
Rehelloed(a) ==
    LET token == a.pending.token
        again == a.rehellos < MaxRehellos
        gesture == [button |-> token.button, act |-> token.act, pressed |-> TRUE, released |-> TRUE]
    IN  [a EXCEPT !.pending = Nothing, !.stalled = FALSE, !.boot = 0, !.client = 0,
                  !.rehellos = IF again THEN @ + 1 ELSE @,
                  !.queue = IF token = Status /\ again THEN <<Status>> \o @ ELSE @,
                  !.gestures = IF Releasing(a) /\ again THEN <<gesture>> \o @ ELSE @]

Welcomes(a, m) == m.type = "welcome" /\ a.pending.type = "hello" /\ m.nonce = a.pending.nonce

Answers(a, m) ==
    /\ a.pending.type = "cmd" /\ m.type \in {"state", "rehello"}
    /\ m.client = a.client /\ m.seq = a.seq
    /\ m.type = "state" => m.boot = a.boot

Received(a, m) ==
    IF Welcomes(a, m)
    THEN [a EXCEPT !.boot = m.boot, !.client = m.client, !.seq = 0, !.pending = Nothing]
    ELSE IF ~Answers(a, m) THEN a
    ELSE IF m.type = "rehello" THEN Rehelloed(a)
    ELSE [a EXCEPT !.pending = Nothing, !.stalled = FALSE, !.rehellos = 0]

(* A release that a rehello did not put back, or that was answered, is      *)
(* owed no longer; an answer tells the user what became of the command.     *)
Noted(a, m) ==
    IF ~Answers(a, m) THEN log
    ELSE LET act == {a.pending.token.act}
             state == m.type = "state"
             over == Releasing(a) /\ (state \/ a.rehellos >= MaxRehellos)
             press == state /\ ~Releasing(a) /\ a.pending.token # Status
         IN  [log EXCEPT !.owed = IF over THEN @ \ act ELSE @,
                         !.sent = IF press /\ ~m.denied THEN @ \cup act ELSE @,
                         !.refused = IF press /\ m.denied THEN @ \cup act ELSE @]

Sent(a, wire) == app' = [a EXCEPT !.pending = wire] /\ requests' = Put(requests, wire)
Command(a, token) ==
    /\ a.seq < MaxSeq
    /\ Sent([a EXCEPT !.seq = @ + 1],
            [type |-> "cmd", boot |-> a.boot, client |-> a.client, seq |-> a.seq + 1, token |-> token])

(* A press owns its release: the first gesture goes before everything       *)
(* else, its press first and its release once the button is released; other *)
(* commands go while the button is down.                                    *)
Transact(a, noted) ==
    \/ /\ a.client = 0 /\ ~a.closing /\ a.hellos < MaxHellos
       /\ Sent([a EXCEPT !.hellos = @ + 1], [type |-> "hello", nonce |-> a.hellos + 1])
       /\ log' = noted
    \/ /\ a.client # 0 /\ a.gestures # <<>> /\ ~Head(a.gestures).pressed
       /\ LET g == Head(a.gestures)
          IN  /\ Command([a EXCEPT !.gestures[1].pressed = TRUE], Token("P", g.button, g.act))
              /\ log' = [noted EXCEPT !.owed = @ \cup {g.act}]
    \/ /\ a.client # 0 /\ a.gestures # <<>> /\ Head(a.gestures).pressed /\ Head(a.gestures).released
       /\ LET g == Head(a.gestures)
          IN  Command([a EXCEPT !.gestures = Tail(@)], Token("R", g.button, g.act))
       /\ log' = noted
    \/ /\ a.client # 0 /\ (a.closing => a.gestures # <<>>)
       /\ a.gestures # <<>> => Head(a.gestures).pressed /\ ~Head(a.gestures).released
       /\ IF a.queue # <<>> THEN Command([a EXCEPT !.queue = Tail(@)], Head(a.queue))
          ELSE ~a.closing /\ Command(a, Status)
       /\ log' = noted

(* Nothing is due, or its time has not come. *)
Rests(a, noted) == app' = a /\ requests' = requests /\ log' = noted

(* A command that is given up makes room for the next one.  A hello expires *)
(* by itself.  A release stalls: a newer sequence could make the controller *)
(* drop it.                                                                 *)
GivesWay(a) == a.pending.type # "hello" /\ ~Releasing(a)

Step(connected, m) ==
    LET a == IF connected THEN Received(app, m) ELSE DropUnsent(app)
        noted == IF connected THEN Noted(app, m) ELSE log
        idle == [a EXCEPT !.pending = Nothing]
    IN  /\ \/ Rests(a, noted)
           \/ Releasing(a) /\ ~a.stalled /\ Rests([a EXCEPT !.stalled = TRUE], noted)
           \/ GivesWay(a) /\ Rests(idle, noted)
           \/ GivesWay(a) /\ connected /\ Transact(idle, noted)
        /\ UNCHANGED <<unit, replies>>

(* A hello without an answer takes the unsent commands with it. *)
HelloExpires ==
    /\ app.pending.type = "hello"
    /\ app' = [DropUnsent(app) EXCEPT !.pending = Nothing]
    /\ UNCHANGED <<unit, requests, replies, log>>

(* HOME: no press begins any more, and every press sent is released. *)
Close ==
    LET a == ReleaseVolume(app)
        begun == Begun(a.gestures)
    IN  /\ ~app.closing
        /\ app' = [a EXCEPT !.closing = TRUE, !.queue = <<>>,
                            !.gestures = [i \in 1..Len(begun) |-> [begun[i] EXCEPT !.released = TRUE]]]
        /\ UNCHANGED <<unit, requests, replies, log>>

(* The app ends, after close's bounded wait or by a power loss, and is      *)
(* started again: a new Remote.                                             *)
AppRestart ==
    /\ app.hellos > 0
    /\ app' = InitApp(app.acts, app.hellos)
    /\ log' = [log EXCEPT !.owed = {}]
    /\ UNCHANGED <<unit, requests, replies>>

-------------------------------------------------------------------------------
(* The controller *)

ClientAt(id) == SelectInSeq(unit.clients, LAMBDA c : c.id = id)

Full(u) == Len(u.clients) >= MaxClients

(* A new session takes the place of the least recently used. *)
Admitted(u, nonce) ==
    LET kept == IF Full(u) THEN Tail(u.clients) ELSE u.clients
    IN  [u EXCEPT !.clients = Append(kept, [id |-> u.next, last |-> 0, nonce |-> nonce, denied |-> FALSE]),
                  !.next = @ + 1]

HandshakesLeft == Cardinality(unit.hellos) + unit.others < MaxHandshakes

FreshNonce(nonce) == HandshakesLeft /\ nonce \notin unit.hellos

Welcome(id, nonce) == [type |-> "welcome", nonce |-> nonce, boot |-> unit.boot, client |-> id]

HandleHello(m) ==
    /\ m.type = "hello"
    /\ LET at == SelectInSeq(unit.clients, LAMBDA c : c.nonce = m.nonce)
       IN  \/ /\ at > 0
              /\ replies' = Put(replies, Welcome(unit.clients[at].id, m.nonce))
              /\ unit' = unit
           \/ /\ at = 0 /\ FreshNonce(m.nonce)
              /\ replies' = Put(replies, Welcome(unit.next, m.nonce))
              /\ unit' = [Admitted(unit, m.nonce) EXCEPT !.hellos = @ \cup {m.nonce}]
    /\ UNCHANGED <<app, requests, log>>

OtherHello ==
    /\ HandshakesLeft /\ unit.others < MaxOthers
    /\ unit' = [Admitted(unit, 0) EXCEPT !.others = @ + 1]
    /\ UNCHANGED <<app, requests, replies, log>>

(* Mutation: only another boot is strange. *)
StrangeBoot(m) == m.boot # unit.boot
Strange(m) == m.boot # unit.boot \/ ClientAt(m.client) = 0

(* A command of a session the controller does not know. *)
HandleStray(m) ==
    /\ m.type = "cmd" /\ Strange(m)
    /\ replies' = Put(replies, [type |-> "rehello", client |-> m.client, seq |-> m.seq])
    /\ UNCHANGED <<app, unit, requests, log>>

Denied(token) == token.name = "BT_EBIND"

(* Mutations: anything but the last sequence is new; the answer to a repeat *)
(* forgets the refusal.                                                     *)
NewerUnlessLast(c, seq) == seq # c.last
RepeatAccepted(c) == FALSE

Newer(c, seq) == seq > c.last
RepeatDenied(c) == c.denied

(* main.py: a press starts a hold, the release of its button ends it.  The  *)
(* hold's own limit only ends it earlier and is left out.                   *)
Held(hold, token) ==
    CASE token.name = "P" -> [type |-> "hold", button |-> token.button, act |-> token.act]
      [] token.name = "R" /\ hold # Nothing /\ hold.button = token.button -> Nothing
      [] OTHER -> hold

Ran(token) ==
    IF token = Status \/ Denied(token) THEN log
    ELSE IF token.name = "R" THEN [log EXCEPT !.stopped = @ \cup {token.act}]
    ELSE [log EXCEPT !.ran[token.act] = @ + 1]

State(m, denied) ==
    [type |-> "state", boot |-> unit.boot, client |-> m.client, seq |-> m.seq, denied |-> denied]

(* The client is touched whatever its sequence; a new sequence is recorded, *)
(* answered and dispatched, the last one answered again, others are dropped.*)
HandleCommand(m) ==
    /\ m.type = "cmd" /\ m.boot = unit.boot /\ ClientAt(m.client) > 0
    /\ LET at == ClientAt(m.client)
           c == unit.clients[at]
           new == Newer(c, m.seq)
           touched == IF new THEN [c EXCEPT !.last = m.seq, !.denied = Denied(m.token)] ELSE c
       IN  /\ unit' = [unit EXCEPT !.clients = Append(RemoveAt(@, at), touched),
                                   !.hold = IF new THEN Held(@, m.token) ELSE @]
           /\ replies' = IF new THEN Put(replies, State(m, Denied(m.token)))
                         ELSE IF m.seq = c.last THEN Put(replies, State(m, RepeatDenied(c)))
                         ELSE replies
           /\ log' = IF new THEN Ran(m.token) ELSE log
    /\ UNCHANGED <<app, requests>>

Handle(m) == HandleHello(m) \/ HandleStray(m) \/ HandleCommand(m)

(* A boot draws a new unit and a new first client number. *)
UnitRestart ==
    /\ unit.boot < MaxBoots
    /\ unit' = [boot |-> unit.boot + 1, clients |-> <<>>, hellos |-> {}, others |-> 0,
                next |-> unit.next, hold |-> Nothing]
    /\ UNCHANGED <<app, requests, replies, log>>

-------------------------------------------------------------------------------

Next ==
    \/ \E b \in Buttons : Volume(b)
    \/ \E name \in Taps : Tap(name)
    \/ Release \/ Close \/ AppRestart \/ HelloExpires
    \/ \E m \in ToSet(replies) \cup {Nothing} : Step(TRUE, m)
    \/ Step(FALSE, Nothing)
    \/ \E m \in ToSet(requests) : Handle(m)
    \/ OtherHello \/ UnitRestart

Spec == Init /\ [][Next]_vars

(* A datagram that is repeated until it is answered arrives in the end, and *)
(* so does one of its answers.                                              *)
FairSpec ==
    /\ Spec
    /\ WF_vars(\E m \in ToSet(requests) : m = app.pending /\ Handle(m))
    /\ SF_vars(\E m \in ToSet(replies) : Answers(app, m) /\ Step(TRUE, m))

-------------------------------------------------------------------------------

Owing(a) ==
    {g.act : g \in {h \in ToSet(a.gestures) : h.pressed}}
        \cup (IF Releasing(a) THEN {a.pending.token.act} ELSE {})

TypeOK ==
    /\ Queued(app) <= Room + 1 /\ app.seq \in 0..MaxSeq /\ app.rehellos \in 0..MaxRehellos
    /\ app.held \in Buttons \cup {None} /\ (app.stalled => Releasing(app))
    /\ Len(unit.clients) <= MaxClients
    /\ \A i \in 1..Len(unit.clients) : unit.clients[i].last \in 0..MaxSeq
    /\ log.ran \in [Acts -> Nat] /\ log.stopped \subseteq Acts /\ log.owed \subseteq Acts

(* One press or key runs at most once and never after its own release: no   *)
(* volume hold is left that its user has already ended, however a datagram  *)
(* is repeated, delayed or replayed and whichever side restarts             *)
(* (badge_remote.py:475, 489, transport.py:276).                            *)
RunsOnce ==
    /\ \A n \in Acts : log.ran[n] <= 1
    /\ unit.hold # Nothing => unit.hold.act \notin log.stopped

(* What the badge tells its user of a command is what became of it, also    *)
(* when the first answer was lost (badge_remote.py:485).                    *)
AnswersAreTrue ==
    /\ \A n \in log.sent : log.ran[n] > 0
    /\ \A n \in log.refused : log.ran[n] = 0

(* The releases the badge will still send are those of the presses it sent: *)
(* none is forgotten by a give-up, a restart of the controller, Wi-Fi loss  *)
(* or HOME, and a press that was dropped leaves no stray stop               *)
(* (transport.py:98, 291, 326).                                             *)
ReleaseIsOwed == Owing(app) = log.owed

(* A stalled release is answered in the end (transport.py:273).             *)
StalledEnds == app.stalled ~> ~app.stalled
=============================================================================

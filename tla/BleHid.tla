-------------------------------- MODULE BleHid --------------------------------
(***************************************************************************)
(* The volume keyboard of a runtime without the native host policy         *)
(* (lib/blehid/ble.py): pausing and enabling it without losing bonds, and  *)
(* the staged wipe of the bond store, over a radio that connects and drops *)
(* computers on its own.                                                   *)
(*   - Every check reads the radio anew, so a computer that connects while *)
(*     a tick runs is one that connects right after it.                    *)
(*   - The settle time, the pause's deadline, the advertising back-off and *)
(*     the cool-down of wipes have passed or not.                          *)
(*   - Setup succeeded.  Pairing is only observed, and reports are left    *)
(*     out; the name is the number of its last change.                     *)
(***************************************************************************)
EXTENDS Naturals, FiniteSets

CONSTANTS
    MaxAttempts,    \* _MAX_PAUSE_CONNECTIONS
    MaxLinks,       \* bound on the connections
    MaxWipes,       \* bound on the wipes asked for
    MaxTroubles,    \* bound on what fails
    MaxBoots        \* bound on the power cycles

ASSUME BleAssumption == {MaxAttempts, MaxLinks, MaxWipes, MaxTroubles, MaxBoots} \subseteq Nat

VARIABLES
    ble,    \* BleHid
    radio,  \* links that are up, whether it advertises, a connection under way
    disk,   \* the counter in /ble_counter.txt
    log     \* counters of the bounds; the wipe the user still expects; the names of this boot

bleVars == <<ble, radio, disk, log>>

Blank(counter) ==
    [intent |-> TRUE, mode |-> "ENABLED", enabling |-> FALSE, armed |-> FALSE, tried |-> {},
     was |-> FALSE, stage |-> "IDLE", wiping |-> FALSE, due |-> FALSE, late |-> FALSE,
     inhibit |-> FALSE, cooling |-> FALSE, counter |-> counter, persisted |-> TRUE]

Connected(r) == r.links # {}
Quiet(r) == ~Connected(r) /\ ~r.adv

-------------------------------------------------------------------------------
(* Advertising: a step of the driver is a record [b |-> ble, r |-> radio]. *)

(* A computer may have answered the last advertisement before the stop.    *)
StopAdv(p, trouble) ==
    IF ~p.r.adv \/ trouble = "stop" THEN p
    ELSE [p EXCEPT !.r.adv = FALSE, !.r.under = TRUE]

Advertise(p, trouble) ==
    IF trouble = "start" \/ p.r.adv THEN [p EXCEPT !.b.inhibit = TRUE]
    ELSE [p EXCEPT !.r.adv = TRUE, !.b.inhibit = FALSE]

StartAdv(p, force, trouble) ==
    IF ~p.b.intent \/ p.b.inhibit \/ Connected(p.r) \/ (p.r.adv /\ ~force) THEN p
    ELSE Advertise(IF force THEN StopAdv(p, trouble) ELSE p, trouble)

-------------------------------------------------------------------------------
(* Pausing *)

Fail(p) == [p EXCEPT !.b.mode = "ERROR", !.b.armed = FALSE]

Arm(p, trouble) ==
    LET pausing == [p EXCEPT !.b.mode = "PAUSING", !.b.armed = TRUE, !.b.late = FALSE, !.b.due = FALSE]
        stopped == StopAdv(pausing, trouble)
    IN  IF trouble = "workflow" THEN Fail(pausing)
        ELSE IF stopped.r.adv THEN Fail(stopped) ELSE stopped

(* One link at a time is told to end, none twice. *)
Terminate(p, l, trouble) ==
    IF Cardinality(p.b.tried) >= MaxAttempts \/ trouble = "disconnect" THEN Fail(p)
    ELSE [p EXCEPT !.b.tried = @ \cup {l}]

(* A wipe that is still to come must not follow the pause's disconnect.     *)
(* Mutation: it may.                                                        *)
ReleasedOnly(b) ==
    [b EXCEPT !.intent = FALSE, !.enabling = FALSE, !.armed = FALSE, !.tried = {}, !.mode = "PAUSING"]
Released(b) == [ReleasedOnly(b) EXCEPT !.wiping = FALSE]

Confirmed(p) == [p EXCEPT !.b.mode = "PAUSED", !.b.armed = FALSE]

(* Mutation: the links that are told to end are waited for without a limit. *)
AwaitForever(p, trouble) ==
    LET open == p.r.links \ p.b.tried
    IN  IF Quiet(p.r) THEN {Confirmed(p)}
        ELSE IF p.r.adv THEN {Fail(p)}
        ELSE IF open = {} THEN {p} ELSE {Terminate(p, l, trouble) : l \in open}

Await(p, trouble) ==
    LET open == p.r.links \ p.b.tried
    IN  IF Quiet(p.r) THEN {Confirmed(p)}
        ELSE IF p.b.late \/ p.r.adv THEN {Fail(p)}
        ELSE IF open = {} THEN {p} ELSE {Terminate(p, l, trouble) : l \in open}

(* What _tick_pause() may leave: it picks any link that it has not told.    *)
TickPause(p, trouble) ==
    IF p.b.mode = "ERROR" \/ (p.b.mode = "PAUSED" /\ Quiet(p.r)) THEN {p}
    ELSE IF ~p.b.armed THEN {Arm(p, trouble)}
    ELSE IF ~p.b.due THEN {p} ELSE Await(p, trouble)

-------------------------------------------------------------------------------
(* The staged wipe *)

Stage(p, stage) == [p EXCEPT !.b.stage = stage, !.b.due = FALSE]

BeginErase(p, trouble) ==
    Stage(StopAdv([p EXCEPT !.b.wiping = FALSE, !.b.cooling = TRUE], trouble), "GC")

Greater(a, b) == IF a < b THEN b ELSE a
NextCounter(b, file) == Greater(IF b.persisted THEN file ELSE 0, b.counter) + 1

(* The bonds are gone, and the name is the next one, unless they are not.   *)
Wiped(p, trouble) ==
    LET counter == NextCounter(p.b, p.d)
        renamed == [p EXCEPT !.b.counter = counter, !.b.persisted = trouble # "write",
                             !.d = IF trouble # "write" THEN counter ELSE @, !.r.wipes = @ + 1]
    IN  Stage(IF trouble = "erase" THEN p ELSE renamed, "READV")

TickErase(p, trouble) ==
    IF ~p.b.due THEN p
    ELSE IF p.b.stage = "GC" THEN Stage(p, "WIPE")
    ELSE IF p.b.stage = "READV" THEN StartAdv([p EXCEPT !.b.stage = "IDLE"], TRUE, trouble)
    ELSE IF Connected(p.r) THEN [p EXCEPT !.b.stage = "IDLE", !.b.wiping = TRUE]
    ELSE Wiped(p, trouble)

-------------------------------------------------------------------------------
(* The tick: what it may leave, the first step that fails named by trouble. *)

Edge(p, trouble) ==
    IF Connected(p.r) = p.b.was THEN p
    ELSE IF p.b.was THEN StartAdv([p EXCEPT !.b.was = FALSE], TRUE, trouble)
    ELSE [p EXCEPT !.b.was = TRUE]

TickOff(p, trouble) ==
    {IF q.b.mode = "PAUSED" /\ q.b.wiping THEN BeginErase(q, trouble) ELSE q : q \in TickPause(p, trouble)}

Enabled(p) ==
    IF p.b.enabling THEN [p EXCEPT !.b.enabling = FALSE, !.b.inhibit = FALSE] ELSE p

(* Mutation: only an edge or a request starts the advertising. *)
IdleUnless(p, kick, trouble) == IF kick THEN StartAdv(p, kick, trouble) ELSE p
Idle(p, kick, trouble) == StartAdv(p, kick, trouble)

TickOn(p, kick, trouble) ==
    IF p.b.enabling /\ trouble = "workflow" THEN Fail([p EXCEPT !.b.enabling = FALSE])
    ELSE IF Connected(p.r) THEN Enabled(p)
    ELSE IF p.b.wiping THEN BeginErase(Enabled(p), trouble)
    ELSE Idle(Enabled(p), kick, trouble)

Ticked(p, kick, trouble) ==
    IF p.b.stage # "IDLE" THEN {TickErase(p, trouble)}
    ELSE IF trouble = "observe" THEN {Fail(p)}
    ELSE IF p.b.intent THEN {TickOn(Edge(p, trouble), kick, trouble)}
    ELSE TickOff(Edge(p, trouble), trouble)

Troubles == {"observe", "workflow", "stop", "start", "disconnect", "erase", "write"}

Tick(kick, trouble) ==
    /\ trouble \in Troubles => log.troubles < MaxTroubles
    /\ kick => ble.intent /\ radio.adv
    /\ \E p \in Ticked([b |-> ble, r |-> radio, d |-> disk], kick, trouble) :
          /\ ble' = p.b /\ radio' = p.r /\ disk' = p.d
          /\ log' = [log EXCEPT !.troubles = IF trouble \in Troubles THEN @ + 1 ELSE @,
                                !.owed = @ /\ p.b.stage # "READV",
                                !.names = @ \cup {p.b.counter}]

-------------------------------------------------------------------------------
(* The user *)

Busy == ble.stage # "IDLE"

RequestPause ==
    /\ Busy \/ ble.intent
    /\ ble' = IF Busy THEN [ble EXCEPT !.mode = "ERROR"]
              ELSE Released(ble)
    /\ log' = IF Busy THEN log ELSE [log EXCEPT !.owed = FALSE]
    /\ UNCHANGED <<radio, disk>>

RequestEnable ==
    /\ Busy \/ ~ble.intent \/ ble.mode # "ENABLED"
    /\ ble' = IF Busy THEN [ble EXCEPT !.mode = "ERROR"]
              ELSE [ble EXCEPT !.intent = TRUE, !.enabling = TRUE, !.mode = "ENABLED",
                               !.armed = FALSE, !.tried = {}]
    /\ UNCHANGED <<radio, disk, log>>

RequestEraseBonds ==
    /\ ~ble.wiping /\ ~ble.cooling /\ log.wipes < MaxWipes
    /\ ble' = [ble EXCEPT !.wiping = TRUE]
    /\ log' = [log EXCEPT !.wipes = @ + 1, !.owed = TRUE]
    /\ UNCHANGED <<radio, disk>>

-------------------------------------------------------------------------------
(* The radio, the computers, time and power *)

Connect ==
    /\ log.links < MaxLinks
    /\ \/ radio.adv /\ radio' = [radio EXCEPT !.links = @ \cup {log.links + 1}, !.adv = FALSE]
       \/ radio.under /\ radio' = [radio EXCEPT !.links = @ \cup {log.links + 1}, !.under = FALSE]
    /\ log' = [log EXCEPT !.links = @ + 1]
    /\ UNCHANGED <<ble, disk>>

Drop(l) ==
    /\ radio' = [radio EXCEPT !.links = @ \ {l}]
    /\ UNCHANGED <<ble, disk, log>>

Settle == ~ble.due /\ (ble.armed \/ Busy) /\ ble' = [ble EXCEPT !.due = TRUE] /\ UNCHANGED <<radio, disk, log>>
Deadline ==
    /\ ble.armed /\ ble.due /\ ~ble.late
    /\ ble' = [ble EXCEPT !.late = TRUE]
    /\ UNCHANGED <<radio, disk, log>>
BackedOff == ble.inhibit /\ ble' = [ble EXCEPT !.inhibit = FALSE] /\ UNCHANGED <<radio, disk, log>>
(* Thirty seconds are longer than the settle times of a wipe. *)
Cooled == ble.cooling /\ ~Busy /\ ble' = [ble EXCEPT !.cooling = FALSE] /\ UNCHANGED <<radio, disk, log>>

(* The counter read at power-on is zero if the file cannot be read.         *)
PowerCycle(counter) ==
    /\ log.boots < MaxBoots /\ counter \in {0, disk}
    /\ ble' = Blank(counter)
    /\ radio' = [radio EXCEPT !.links = {}, !.adv = TRUE, !.under = FALSE]
    /\ log' = [log EXCEPT !.boots = @ + 1, !.owed = FALSE, !.names = {counter}]
    /\ UNCHANGED disk

BleInit ==
    /\ ble = Blank(0) /\ disk = 0
    /\ radio = [links |-> {}, adv |-> TRUE, under |-> FALSE, wipes |-> 0]
    /\ log = [links |-> 0, wipes |-> 0, troubles |-> 0, boots |-> 0, owed |-> FALSE, names |-> {0}]

BleNext ==
    \/ \E kick \in BOOLEAN, trouble \in Troubles \cup {"none"} : Tick(kick, trouble)
    \/ RequestPause \/ RequestEnable \/ RequestEraseBonds
    \/ Connect \/ \E l \in radio.links : Drop(l)
    \/ Settle \/ Deadline \/ BackedOff \/ Cooled
    \/ \E counter \in {0, disk} : PowerCycle(counter)

BleSpec == BleInit /\ [][BleNext]_bleVars

(* The main loop ticks, and time passes. *)
FairBleSpec ==
    /\ BleSpec
    /\ WF_bleVars(Tick(FALSE, "none")) /\ WF_bleVars(Settle) /\ WF_bleVars(Deadline) /\ WF_bleVars(BackedOff)

-------------------------------------------------------------------------------
(* Properties *)

(* The bond store is wiped only while no computer is connected, for a       *)
(* request that no pause has come after, and the name it leaves is one that *)
(* no computer has seen since power-on, whatever became of the counter file. *)
WipeIsSafe ==
    [][radio'.wipes # radio.wipes =>
        ~Connected(radio) /\ log.owed /\ ble'.counter \notin log.names]_bleVars

(* Liveness: a pause ends, confirmed or as an error, although links that    *)
(* were told to end may stay and others may come.                           *)
PauseSettles ==
    ~ble.intent /\ ble.mode = "PAUSING" ~> ble.mode \in {"PAUSED", "ERROR"} \/ ble.intent

(* Liveness: while it is enabled a keyboard that nobody is connected to     *)
(* comes to advertise again, after whatever pause, wipe or failure.         *)
Reachable == ble.intent ~> Connected(radio) \/ radio.adv \/ ~ble.intent
===============================================================================

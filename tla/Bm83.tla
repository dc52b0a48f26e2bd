--------------------------------- MODULE Bm83 ---------------------------------
(***************************************************************************)
(* The controller's view of the BM83 Bluetooth module (bm83.py) and the    *)
(* part of the main loop that handles its reports (main.py): one record,   *)
(* and what a parsed frame, a BTM_Status report, a command or a tick makes *)
(* of it.  Metadata requests and the stream kick, which is off by default, *)
(* are left out; a timer counts down to 1, where it is due, and 0 is off.  *)
(***************************************************************************)
EXTENDS Naturals, Sequences, SequencesExt

CONSTANTS
    Hold,       \* _disconnect_hold_s, in units of time
    SuspendMax, \* _avrcp_suspend_max_s
    Queue       \* notification registrations of a session; the code has three

ASSUME HoldAssumption == Hold \in Nat \ {0} /\ SuspendMax \in Nat \ {0} /\ Queue \in Nat \ {0}

(* BTM_Status reports by their meaning; "ready" stands for every other one. *)
ConnectedStates == {"a2dp_up", "avrcp_up", "src_a2dp"}
AvrcpDownStates == {"off", "a2dp_down", "avrcp_down", "standby", "acl_down"}
LinkDownStates == {"off", "standby", "acl_down"}
LinkFlapStates == {"a2dp_down", "avrcp_down", "standby", "acl_down", "acl_up"}
AudioSources == {"src_none", "src_aux", "src_a2dp"}
BtmStates == ConnectedStates \cup AvrcpDownStates \cup LinkFlapStates \cup AudioSources \cup {"ready"}

(* AVRCP responses, of whatever content. *)
Response == "response"
Events == BtmStates \cup {Response}

InitBm83 ==
    [power_on |-> FALSE, power |-> "none", confirm |-> FALSE, explicit_off |-> FALSE,
     connected |-> FALSE, since |-> 0, deadline |-> 0, suspended |-> 0,
     source |-> "unknown", source_seen |-> FALSE,
     relinked |-> FALSE, registered |-> FALSE, pending |-> 0]

-------------------------------------------------------------------------------
(* poll(): every frame of a batch is parsed before the first is handled. *)

InTransition(bm) == bm.power # "none" \/ bm.confirm

(* Mutation: a link flap proves the module to be running. *)
AnyProof(bm, e) == e # "off"

(* What proves that the module is running. *)
PowerEvidence(bm, e) ==
    /\ e # "off"
    /\ e \in LinkFlapStates => ~bm.explicit_off /\ ~InTransition(bm) /\ bm.power_on

(* Mutation: an AVRCP response does not restore the link. *)
NeverRelinks(bm, e) == FALSE

Relinks(bm, e) == ~bm.connected /\ ~bm.explicit_off /\ e = Response

(* Mutation: traffic of the dying session cancels the debounce. *)
ParsedAlive(bm, e) ==
    IF Relinks(bm, e) THEN [bm EXCEPT !.connected = TRUE, !.deadline = 0, !.since = 0, !.relinked = TRUE]
    ELSE IF bm.connected /\ e = Response THEN [bm EXCEPT !.since = 0, !.deadline = 0]
    ELSE IF ~bm.connected /\ ~bm.explicit_off /\ PowerEvidence(bm, e)
         THEN [bm EXCEPT !.power_on = TRUE, !.confirm = FALSE]
         ELSE bm

Parsed(bm, e) ==
    LET proved == ~bm.connected /\ ~bm.explicit_off /\ PowerEvidence(bm, e)
        heard == [bm EXCEPT !.since = IF bm.connected /\ e = Response THEN 0 ELSE @,
                            !.power_on = @ \/ proved,
                            !.confirm = @ /\ ~proved]
    IN  IF Relinks(bm, e)
        THEN [heard EXCEPT !.connected = TRUE, !.deadline = 0, !.since = 0, !.relinked = TRUE]
        ELSE heard

-------------------------------------------------------------------------------
(* note_btm_state() *)

(* Mutation: a lost link forgets a live AUX source too. *)
ForgetsAux(bm) ==
    [bm EXCEPT !.connected = FALSE, !.deadline = 0, !.source = "unknown", !.pending = 0]

(* A live AUX source survives: the module does not announce it again. *)
MarkDisconnected(bm) ==
    [bm EXCEPT !.connected = FALSE, !.deadline = 0, !.pending = 0,
               !.source = IF @ = "src_aux" THEN @ ELSE "unknown"]

NotedPower(bm, s) ==
    IF s = "off" THEN [bm EXCEPT !.confirm = FALSE, !.power_on = FALSE, !.explicit_off = TRUE]
    ELSE IF ~PowerEvidence(bm, s) THEN bm
    ELSE [bm EXCEPT !.confirm = FALSE, !.power_on = TRUE, !.explicit_off = FALSE]

NotedSource(bm, s) ==
    IF s \in AudioSources THEN [bm EXCEPT !.source = s, !.source_seen = TRUE] ELSE bm

(* Only the first report starts the suspension and the debounce. *)
TornDown(bm, s) ==
    [bm EXCEPT !.suspended = IF @ = 0 THEN SuspendMax + 1 ELSE @, !.pending = 0,
               !.deadline = IF bm.connected /\ @ = 0 /\ s \in LinkDownStates THEN Hold + 1 ELSE @]

Reconnected(bm) ==
    [bm EXCEPT !.connected = TRUE, !.deadline = 0, !.since = 0, !.suspended = 0]

(* The "stale then teardown event" fast path. *)
Stale(bm) == bm.connected /\ bm.since > Hold

NotedBtm(bm, s) ==
    LET noted == NotedSource(NotedPower(bm, s), s)
        torn == IF s \in AvrcpDownStates THEN TornDown(noted, s) ELSE noted
    IN  IF s \in ConnectedStates THEN Reconnected(noted)
        ELSE IF s \in AudioSources THEN noted
        ELSE IF Stale(torn) THEN MarkDisconnected(torn) ELSE torn

-------------------------------------------------------------------------------
(* The main loop's handling of a batch *)

(* arm_avrcp_session: the registrations are queued, to be sent spaced out. *)
Armed(bm) == [bm EXCEPT !.pending = Queue, !.registered = TRUE]

HandledResponse(bm) ==
    LET consumed == [bm EXCEPT !.relinked = FALSE]
    IN  IF bm.relinked /\ ~bm.registered THEN Armed(consumed) ELSE consumed

HandledBtm(bm, s) ==
    LET noted == NotedBtm(bm, s)
        cleared == IF s \in AvrcpDownStates THEN [noted EXCEPT !.registered = FALSE] ELSE noted
        edge == noted.connected /\ ~bm.connected
    IN  IF (edge \/ s = "avrcp_up") /\ ~cleared.registered THEN Armed(cleared)
        ELSE IF bm.connected /\ ~noted.connected THEN [cleared EXCEPT !.registered = FALSE]
        ELSE cleared

Handled(bm, e) == IF e = Response THEN HandledResponse(bm) ELSE HandledBtm(bm, e)

(* The driver after the first i steps: the frames are parsed, then handled. *)
HandledBatch(bm, batch) ==
    LET n == Len(batch)
        after[i \in 0..2 * n] ==
            IF i = 0 THEN bm
            ELSE IF i <= n THEN Parsed(after[i - 1], batch[i]) ELSE Handled(after[i - 1], batch[i - n])
    IN  after[2 * n]

-------------------------------------------------------------------------------
(* Commands and ticks *)

(* A press during a sequence is ignored, one during a confirmation is not. *)
PowerOnCmd(bm) ==
    IF bm.power # "none" THEN bm
    ELSE [bm EXCEPT !.confirm = FALSE, !.power = "on_press", !.explicit_off = FALSE]

PowerOffCmd(bm) ==
    IF bm.power # "none" THEN bm ELSE [bm EXCEPT !.confirm = FALSE, !.power = "off_press"]

PowerToggle(bm) == IF bm.power_on THEN PowerOffCmd(bm) ELSE PowerOnCmd(bm)

PowerAdvanced(bm) ==
    CASE bm.power = "on_press" -> [bm EXCEPT !.power = "on_init"]
      [] bm.power = "on_init" -> [bm EXCEPT !.power = "none", !.confirm = TRUE]
      [] bm.power = "off_press" ->
            MarkDisconnected([bm EXCEPT !.power = "none", !.power_on = FALSE, !.explicit_off = TRUE])

(* The main loop forgets the registrations of a link the watchdog gave up. *)
GivenUp(bm) == [MarkDisconnected(bm) EXCEPT !.registered = FALSE]

(* tick_notif_regs: "sent" when the session is up, dropped with the link. *)
RegistrationDue(bm) == bm.pending > 0 /\ (bm.connected => bm.suspended = 0)
Registering(bm) == IF bm.connected THEN [bm EXCEPT !.pending = @ - 1] ELSE [bm EXCEPT !.pending = 0]

(* tick_link_recovery probes while nothing else is under way. *)
ProbeDue(bm) == ~bm.connected /\ bm.suspended = 0 /\ ~bm.explicit_off /\ ~InTransition(bm)

(* Without a source report ever the link state decides. *)
ShouldShowAux(bm) ==
    bm.power_on /\ (bm.source = "src_aux"
                    \/ (bm.source = "unknown" /\ ~bm.source_seen /\ ~bm.connected))

AgedBm83(bm) ==
    [bm EXCEPT !.since = IF bm.connected /\ @ <= Hold THEN @ + 1 ELSE @,
               !.deadline = IF @ > 1 THEN @ - 1 ELSE @,
               !.suspended = IF @ > 1 THEN @ - 1 ELSE @]
=============================================================================

------------------------------- MODULE Bm83Link -------------------------------
(***************************************************************************)
(* The controller's main loop with the BM83 module at the other end of the *)
(* UART.  The module is external: it may be switched on or off, connect    *)
(* and drop its profiles, change its audio source and answer AVRCP         *)
(* requests at any time, and a phone may try to reach it when it is off.   *)
(* What it reports arrives in order, a batch at a time.                    *)
(***************************************************************************)
EXTENDS Bm83

CONSTANTS
    Capacity,       \* bound on the reports not yet read
    Reported,       \* the audio sources the module may report
    Presses         \* the user may press the power button

ASSUME LinkAssumption == Reported \subseteq AudioSources /\ Presses \in BOOLEAN /\ Capacity \in Nat

VARIABLES
    bm,     \* the driver's and the main loop's state
    chip,   \* the module
    uart    \* reports not yet read, oldest first

vars == <<bm, chip, uart>>

Module(power, linked) ==
    [power |-> power, source |-> "unannounced",
     acl |-> linked, a2dp |-> linked, avrcp |-> linked]

(* The controller starts while the module is off, or running and linked. *)
Init ==
    /\ bm = InitBm83
    /\ chip \in {Module("off", FALSE), Module("on", TRUE)}
    /\ uart = <<>>

-------------------------------------------------------------------------------
(* The module *)

Reports(e) == Len(uart) < Capacity /\ uart' = Append(uart, e)

ChipBoot ==
    /\ chip.power = "off" /\ Reports("ready")
    /\ chip' = [chip EXCEPT !.power = "on"]
    /\ UNCHANGED bm

(* After its last report the module may still answer what it was asked. *)
ChipOff ==
    /\ chip.power = "on" /\ Reports("off")
    /\ chip' = [chip EXCEPT !.power = "dying", !.source = "unannounced"]
    /\ UNCHANGED bm

ChipDead ==
    /\ chip.power = "dying"
    /\ chip' = Module("off", FALSE)
    /\ UNCHANGED <<bm, uart>>

AclUp ==
    /\ chip.power = "on" /\ ~chip.acl /\ Reports("acl_up")
    /\ chip' = [chip EXCEPT !.acl = TRUE]
    /\ UNCHANGED bm

A2dpUp ==
    /\ chip.power = "on" /\ chip.acl /\ ~chip.a2dp /\ Reports("a2dp_up")
    /\ chip' = [chip EXCEPT !.a2dp = TRUE]
    /\ UNCHANGED bm

AvrcpUp ==
    /\ chip.power = "on" /\ chip.acl /\ ~chip.avrcp /\ Reports("avrcp_up")
    /\ chip' = [chip EXCEPT !.avrcp = TRUE]
    /\ UNCHANGED bm

A2dpDown ==
    /\ chip.power = "on" /\ chip.a2dp /\ Reports("a2dp_down")
    /\ chip' = [chip EXCEPT !.a2dp = FALSE]
    /\ UNCHANGED bm

AvrcpDown ==
    /\ chip.power = "on" /\ chip.avrcp /\ Reports("avrcp_down")
    /\ chip' = [chip EXCEPT !.avrcp = FALSE]
    /\ UNCHANGED bm

AclDown ==
    /\ chip.power = "on" /\ chip.acl /\ \E e \in {"acl_down", "standby"} : Reports(e)
    /\ chip' = [chip EXCEPT !.acl = FALSE, !.a2dp = FALSE, !.avrcp = FALSE]
    /\ UNCHANGED bm

ChipSource(s) ==
    /\ chip.power = "on" /\ (s = "src_a2dp" => chip.a2dp)
    /\ Reports(s)
    /\ chip' = [chip EXCEPT !.source = s]
    /\ UNCHANGED bm

ChipResponse ==
    /\ chip.avrcp /\ Reports(Response)
    /\ UNCHANGED <<bm, chip>>

(* A phone tries to connect to a module that is off. *)
OffFlap ==
    /\ chip.power = "off" /\ \E e \in {"acl_up", "acl_down"} : Reports(e)
    /\ UNCHANGED <<bm, chip>>
-------------------------------------------------------------------------------
(* The main loop *)

Poll(n) ==
    /\ bm' = HandledBatch(bm, SubSeq(uart, 1, n))
    /\ uart' = SubSeq(uart, n + 1, Len(uart))
    /\ UNCHANGED chip

(* BT_POWER and BT_POWEROFF.  A module that has reported OFF is dead, and   *)
(* its last answers are read, before anybody presses again.                 *)
PowerButton(command) ==
    /\ Presses /\ chip.power # "dying"
    /\ chip.power = "off" => Response \notin Range(uart)
    /\ bm' = IF command = "toggle" THEN PowerToggle(bm) ELSE PowerOffCmd(bm)
    /\ UNCHANGED <<chip, uart>>

TickPower ==
    /\ bm.power # "none"
    /\ bm' = PowerAdvanced(bm)
    /\ UNCHANGED <<chip, uart>>

ConfirmExpires ==
    /\ bm.confirm
    /\ bm' = [bm EXCEPT !.confirm = FALSE]
    /\ UNCHANGED <<chip, uart>>

TickNotifRegs ==
    /\ RegistrationDue(bm)
    /\ bm' = Registering(bm)
    /\ UNCHANGED <<chip, uart>>

TickAvrcpResume ==
    /\ bm.suspended = 1
    /\ bm' = [bm EXCEPT !.suspended = 0]
    /\ UNCHANGED <<chip, uart>>

(* The probe asks for the play status only if the module is known to run. *)
TickLinkRecovery ==
    /\ ProbeDue(bm) /\ bm.power_on /\ chip.avrcp /\ Reports(Response)
    /\ UNCHANGED <<bm, chip>>

DebounceExpires ==
    /\ bm.connected /\ bm.deadline = 1
    /\ bm' = GivenUp(bm)
    /\ UNCHANGED <<chip, uart>>

(* The module has not said anything for a long time. *)
SilenceExpires ==
    /\ Stale(bm) /\ uart = <<>>
    /\ bm' = GivenUp(bm)
    /\ UNCHANGED <<chip, uart>>

Elapse == bm' = AgedBm83(bm) /\ bm' # bm /\ UNCHANGED <<chip, uart>>

ModuleStep ==
    \/ ChipBoot \/ ChipOff \/ ChipDead
    \/ AclUp \/ A2dpUp \/ AvrcpUp \/ A2dpDown \/ AvrcpDown \/ AclDown
    \/ \E s \in Reported : ChipSource(s)
    \/ ChipResponse \/ OffFlap

LoopStep ==
    \/ \E n \in 1..Len(uart) : Poll(n)
    \/ TickPower \/ ConfirmExpires \/ TickNotifRegs \/ TickAvrcpResume
    \/ TickLinkRecovery \/ DebounceExpires

Next ==
    \/ ModuleStep
    \/ LoopStep
    \/ \E command \in {"toggle", "off"} : PowerButton(command)
    \/ SilenceExpires
    \/ Elapse

Spec == Init /\ [][Next]_vars

(* The main loop runs and time passes; the module and the user owe nothing. *)
(* That the UART is full is a bound of the model and cannot hold the probe  *)
(* up for ever.                                                             *)
FairSpec ==
    /\ Spec
    /\ WF_vars(\E n \in 1..Len(uart) : Poll(n))
    /\ WF_vars(TickPower) /\ WF_vars(ConfirmExpires)
    /\ WF_vars(TickAvrcpResume) /\ SF_vars(TickLinkRecovery) /\ WF_vars(DebounceExpires)
    /\ WF_vars(Elapse)

-------------------------------------------------------------------------------

TypeOK ==
    /\ bm \in [power_on : BOOLEAN, power : {"none", "on_press", "on_init", "off_press"},
               confirm : BOOLEAN, explicit_off : BOOLEAN, connected : BOOLEAN,
               since : 0..(Hold + 1), deadline : 0..(Hold + 1), suspended : 0..(SuspendMax + 1),
               source : AudioSources \cup {"unknown"}, source_seen : BOOLEAN,
               relinked : BOOLEAN, registered : BOOLEAN, pending : 0..Queue]
    /\ bm.relinked => bm.connected
    /\ bm.pending > 0 => bm.registered

(* The power button stays in phase with the module: once everything it has  *)
(* reported is read, a module that is off is not believed to be on, in      *)
(* spite of flaps, late answers and reports read in one batch.              *)
PowerInPhase == bm.power_on /\ uart = <<>> => chip.power = "on"

(* AUX is shown exactly while it is the announced source, also when the     *)
(* link is lost in the meantime and the announcement is not repeated.       *)
AuxIsLive ==
    bm.power_on /\ uart = <<>> /\ chip.source # "unannounced" =>
       (ShouldShowAux(bm) <=> chip.source = "src_aux")

ReconnectReported == \E i \in 1..Len(uart) : uart[i] \in ConnectedStates

(* Liveness: without a report of a new connection a suspension ends by      *)
(* itself, however often the profiles flap, and a torn down link is either  *)
(* reported up again or given up: the dying session's traffic and later     *)
(* reports cannot keep it.                                                  *)
TeardownSettles ==
    /\ []<>(bm.suspended = 0 \/ ReconnectReported)
    /\ bm.deadline > 0 ~> (~bm.connected \/ ReconnectReported)

(* Liveness: a running module with a live session is found again after any  *)
(* false disconnect, without any report of its own.                         *)
Running == bm.power_on /\ ~bm.explicit_off /\ chip.avrcp
Heals == (<>[]Running) => ([]<>bm.connected)
=============================================================================

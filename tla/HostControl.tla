------------------------------ MODULE HostControl ------------------------------
(***************************************************************************)
(* Host control end to end: the panel, the radio, the controller's main    *)
(* loop with its publisher and owner, and the policy's own task.           *)
(*   - The radio loses packets and commands, delays a command in the       *)
(*     controller's queue and delivers an earlier one again.               *)
(*   - The badge is the other client of the same policy.                   *)
(*   - Either end may restart.                                             *)
(*   - MaxFaults bounds, together, what goes wrong in one behaviour: the   *)
(*     losses, deadlines, repetitions, restarts, failing reads and the     *)
(*     other client's requests.                                            *)
(***************************************************************************)
EXTENDS HostPanel

CONSTANTS
    Asks,           \* the opcodes the user presses
    InitPeers,      \* the saved hosts at power-on
    Resumes,        \* whether flash holds an AUTO policy, for one of them
    Faults,         \* the faults that may happen
    MaxFaults, MaxPackets, MaxRequests,
    MaxQueue        \* commands waiting in the controller's receiver

ASSUME ControlAssumption ==
    /\ Asks \subseteq Opcodes \ {"LIST"} /\ InitPeers \in [Hosts -> Marks] /\ Resumes \in BOOLEAN
    /\ \A bound \in {MaxFaults, MaxPackets, MaxRequests, MaxQueue} : bound \in Nat

VARIABLES
    native,     \* the policy, its queue, and the history of its operations
    own,        \* the owner
    pub,        \* the publisher
    panel,
    queue,      \* _host_requests
    aired,      \* the commands sent so far
    halted,     \* an exception left the main loop
    faults

vars == <<native, own, pub, panel, queue, aired, halted, faults>>

Badge == [client |-> 0, request |-> 0, opcode |-> "SELECT", target |-> NoHost, gen |-> 0]

PowerOn == InitNative(InitPeers)
Flash == [PowerOn EXCEPT !.status.requested = "AUTO",
                         !.status.target = CHOOSE h \in Hosts : Resumable(InitPeers, h)]

(* The panel is new, or it has just restarted after the controller got to  *)
(* know it; what it sent before may then still be on its way.              *)
FirstCommand == [session |-> 1, client |-> 1, request |-> 1, opcode |-> "LIST", gen |-> 1, target |-> NoHost]
Introduced ==
    [InitPublisher(1) EXCEPT !.client = 1, !.request = 1, !.last = 1, !.result = Listed, !.established = TRUE,
                             !.handshake = [client |-> 1, request |-> 1, gen |-> 1], !.seq = 1]

Init ==
    /\ native = IF Resumes THEN [PowerOn EXCEPT !.status = Restarted(Flash.status)] ELSE PowerOn
    /\ own = InitOwner(native)
    /\ \/ pub = InitPublisher(1) /\ panel = InitPanel(1) /\ aired = {}
       \/ pub = Introduced /\ panel = InitPanel(2) /\ aired = {FirstCommand}
    /\ queue = <<>> /\ halted = FALSE /\ faults = 0

Fault(kind) == kind \in Faults /\ faults < MaxFaults /\ faults' = faults + 1

-------------------------------------------------------------------------------
(* The panel's loop. *)

(* espnow_send_host_request(): the frame joins the queue, or it is lost. *)
Send(command) ==
    /\ aired' = aired \cup {command}
    /\ \/ Len(queue) < MaxQueue /\ queue' = Append(queue, command) /\ UNCHANGED faults
       \/ Fault("loss") /\ UNCHANGED queue

Shake ==
    /\ CanShake(panel) /\ panel.counter < MaxRequests
    /\ Send(HandshakeCommand(panel)) /\ panel' = Handshake(panel)
    /\ UNCHANGED <<native, own, pub, halted>>

ShakeAgain ==
    /\ panel.waiting /\ panel.sfresh /\ ~CanManage(panel) /\ ~(panel.pending /\ panel.result = "PENDING")
    /\ Send(Command(panel, "LIST", panel.shake, NoHost, panel.challenge))
    /\ UNCHANGED <<native, own, pub, panel, halted>>

ShakeTimesOut ==
    /\ panel.waiting /\ Fault("late") /\ panel' = Tick(Defer(panel))
    /\ UNCHANGED <<native, own, pub, queue, aired, halted>>

Choose(h) ==
    /\ CanManage(panel) /\ Find(panel, h) /\ ~Holding(panel) /\ panel.selected # h
    /\ panel' = [panel EXCEPT !.selected = h]
    /\ UNCHANGED <<native, own, pub, queue, aired, halted, faults>>

Press(opcode) ==
    /\ CanBegin(panel, opcode) /\ panel.counter < MaxRequests
    /\ \/ Send(BeginCommand(panel, opcode)) /\ panel' = Begin(panel, opcode)
       \/ /\ Fault("loss") /\ panel' = Finish(Begin(panel, opcode), "NOT_SENT")
          /\ UNCHANGED <<queue, aired>>
    /\ UNCHANGED <<native, own, pub, halted>>

RequestTimesOut ==
    /\ panel.pending /\ panel.result # "WAITING_HOST" /\ Fault("late")
    /\ panel' = Finish(panel, "TIMED_OUT")
    /\ UNCHANGED <<native, own, pub, queue, aired, halted>>

GoStale ==
    /\ Fault("stale")
    /\ \E status, list \in BOOLEAN :
           /\ status \/ list
           /\ panel' = Tick([panel EXCEPT !.sfresh = @ /\ ~status, !.lfresh = @ /\ ~list])
    /\ UNCHANGED <<native, own, pub, queue, aired, halted>>

LinkInterrupted ==
    /\ Fault("link") /\ panel' = InvalidateLink(panel)
    /\ UNCHANGED <<native, own, pub, queue, aired, halted>>

PanelRestarts ==
    /\ Fault("panel") /\ panel' = InitPanel(panel.client + 1)
    /\ UNCHANGED <<native, own, pub, queue, aired, halted>>

(* A frame that is late or doubled does not outlive a boot of the panel: it *)
(* comes before the first command of the next boot, which waits for a whole *)
(* STATUS packet.                                                           *)
RadioRepeats ==
    /\ Fault("repeat") /\ Len(queue) < MaxQueue
    /\ \E command \in aired :
           /\ \A other \in aired : other.client <= command.client
           /\ queue' = Append(queue, command)
    /\ UNCHANGED <<native, own, pub, panel, aired, halted>>

-------------------------------------------------------------------------------
(* The controller's main loop: its inputs, then ble.tick() and the         *)
(* publisher.  The policy's task may run between the reads of ble.tick().  *)

(* "old": the challenges have passed their 3 seconds. *)
TakeRequest ==
    /\ ~halted /\ queue # <<>> /\ queue' = Tail(queue)
    /\ \E fate \in {"pending", pub.fate}, old \in BOOLEAN :
           LET known == ObserveCompletion(pub, fate)
               next == RequestHost(IF old THEN [known EXCEPT !.challenges = {}] ELSE known, own, Head(queue))
           IN  /\ pub' = next.pub /\ own' = next.own
               /\ IF old THEN Fault("late") ELSE UNCHANGED faults
    /\ UNCHANGED <<native, panel, aired, halted>>

BadgeAsks(h) ==
    /\ ~halted /\ Fault("badge") /\ Ready(own) /\ Coherent(own) /\ Resumable(own.peers, h)
    /\ own' = Request(own, "AUTO", h, [Badge EXCEPT !.target = h])
    /\ pub' = NoteLegacy(pub)
    /\ UNCHANGED <<native, panel, queue, aired, halted>>

VolumeKey ==
    /\ ~halted /\ own' = ValidateInput(own, native) /\ own' # own
    /\ UNCHANGED <<native, pub, panel, queue, aired, halted, faults>>

LoopTail ==
    /\ ~halted
    /\ \E called \in {AfterCall(own, native)}, kind \in {"status", "list", "nothing"},
          raises \in BOOLEAN, fate \in {"pending", pub.fate} :
       \E seen \in {called} \cup IF own.peerGen = called.status.bonds THEN {} ELSE NativeSteps(called) :
           LET look == IF CallRefused(own, native) THEN Called(own, native)
                       ELSE IF raises THEN Raised(Called(own, native), FALSE)
                       ELSE Look(Called(own, native), called, seen)
               observed == ObserveCompletion(pub, fate)
               publishes == observed.fate = "none"
           IN  /\ native' = seen /\ own' = look
               /\ IF raises THEN Fault("raise") ELSE UNCHANGED faults
               /\ kind # "nothing" => publishes /\ observed.out = NoPacket
               /\ pub' = IF publishes THEN Publish(Settle(observed, look), look, kind) ELSE observed
               /\ halted' = (publishes /\ ListRaises(observed, look, kind))
               /\ pub'.seq <= MaxPackets
    /\ UNCHANGED <<panel, queue, aired>>

(* The packet is on the air: whole, or in part; its acknowledgements come  *)
(* back, or they do not; the completion is still to be looked at.          *)
PacketSent ==
    /\ pub.out # NoPacket /\ pub.fate = "none"
    /\ \E arrives, acknowledged \in BOOLEAN :
           /\ IF arrives /\ acknowledged THEN UNCHANGED faults ELSE Fault("loss")
           /\ pub' = [pub EXCEPT !.fate = IF acknowledged THEN "acknowledged" ELSE "failed"]
           /\ panel' = IF arrives THEN Tick(Observe(panel, pub.out, pub.seq)) ELSE panel
    /\ UNCHANGED <<native, own, queue, aired, halted>>

(* The records and an AUTO policy survive.  The model's operations and     *)
(* generations go on counting; they are compared within one boot only.     *)
ControllerRestarts ==
    /\ Fault("controller")
    /\ native' = [native EXCEPT !.queue = NoCmd, !.status = Restarted(@)]
    /\ own' = InitOwner(native') /\ pub' = InitPublisher(pub.session + 1) /\ queue' = <<>>
    /\ halted' = FALSE /\ UNCHANGED <<panel, aired>>

Native ==
    /\ \/ native' \in NativeSteps(native) /\ UNCHANGED faults
       \/ native' \in NativeTroubles(native) /\ Fault("policy")
    /\ UNCHANGED <<own, pub, panel, queue, aired, halted>>

Next ==
    \/ Shake \/ ShakeAgain \/ ShakeTimesOut
    \/ \E h \in Hosts : Choose(h)
    \/ \E opcode \in Asks : Press(opcode)
    \/ RequestTimesOut \/ GoStale \/ LinkInterrupted \/ PanelRestarts \/ RadioRepeats
    \/ TakeRequest \/ (\E h \in Hosts : BadgeAsks(h)) \/ VolumeKey \/ LoopTail
    \/ PacketSent \/ ControllerRestarts \/ Native

Spec == Init /\ [][Next]_vars

-------------------------------------------------------------------------------
(* Properties. *)

TypeOK ==
    /\ native.status.state \in {"PAUSED", "SWITCHING", "WAITING", "ENROLLING", "CONNECTED", "ERROR"}
    /\ native.status.bonds = Len(native.peersAt) /\ Len(native.peersAt) <= MaxGen
    /\ own.peers \in [Hosts -> Marks] /\ own.peerGen \in 0..MaxGen /\ own.expected <= Len(native.asked)
    /\ pub.challenges \subseteq 1..pub.seq /\ pub.seq <= MaxPackets /\ pub.result \in 0..Listed
    /\ pub.fate # "none" => pub.out # NoPacket
    /\ panel.result \in Results /\ panel.selected \in Hosts \cup {NoHost}
    /\ panel.request <= panel.counter /\ panel.sseq <= MaxPackets
    /\ Len(queue) <= MaxQueue /\ faults <= MaxFaults

(* A request of a panel starts one operation of the policy at most,        *)
(* however often the radio delivers it, and whoever restarted in between.  *)
StartsOnce ==
    \A i, j \in DOMAIN native.asked :
        native.asked[i].client # 0 /\ i # j =>
            <<native.asked[i].client, native.asked[i].request>> #
            <<native.asked[j].client, native.asked[j].request>>

(* A request the panel reports as confirmed, waiting for its host or       *)
(* pairing was carried out for this very request, and for no other         *)
(* client's; confirmed, the policy had come to what was asked.             *)
ConfirmedIsOwn ==
    [][LET op == panel'.operation
       IN  panel'.result # panel.result /\ panel'.result \in {"CONFIRMED", "WAITING_HOST", "PAIRING"} =>
           /\ op \in DOMAIN native.asked
           /\ native.asked[op].client = panel'.client /\ native.asked[op].request = panel'.request
           /\ panel'.result = "CONFIRMED" => op \in native.done]_vars

(* The hosts the panel offers are those saved at the generation it names,  *)
(* although status and list travel in packets of their own and are read    *)
(* while the policy changes.                                               *)
OfferedWasSaved ==
    CoherentList(panel) => panel.list.peers = native.peersAt[panel.status.native.bonds]

(* host_policy.py:257: "A host-control failure must not stop the media and *)
(* UART loop."                                                             *)
LoopSurvives == ~halted
===============================================================================

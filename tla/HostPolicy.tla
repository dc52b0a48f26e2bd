------------------------------ MODULE HostPolicy ------------------------------
(***************************************************************************)
(* The host-policy core among its callers: the owner's requests, the 100   *)
(* ms service tick, the NimBLE link, security, subscription and bond-store *)
(* callbacks, faults latched by the port, and power cycles.  The radio     *)
(* side keeps the link really up (link) and the disconnect events NimBLE   *)
(* still has to deliver (lost): a link can be gone before its event comes, *)
(* which is when ble_gap_terminate answers "absent".                       *)
(***************************************************************************)
EXTENDS HostPolicyCore

CONSTANTS
    MaxOps,     \* bound on the operations a boot accepts
    MaxLinks    \* bound on the links a boot admits

VARIABLES
    core,       \* hp_core_t, with what it wrote through its backend
    bonds,      \* the NimBLE bond store
    link,       \* the admitted radio link: its host and generation
    lost        \* generations whose disconnect event is undelivered

vars == <<core, bonds, link, lost>>

NoLink == [host |-> NoHost, generation |-> 0]
Links == [host : Labels, generation : Nat]

TypeOK ==
    /\ core \in Cores
    /\ bonds \in Stores
    /\ link \in Links
    /\ lost \in SUBSET Nat

Init ==
    /\ core = InitCore(EmptyBlob, TRUE)
    /\ bonds = [h \in Hosts |-> {}]
    /\ link = NoLink
    /\ lost = {}

(* What the backend may answer now, of the calls a handler makes: the one   *)
(* that fails, and whether termination still finds the link.                *)
Answers(calls) ==
    {io \in Outcomes : /\ io.fails \in calls \cup {"none"}
                       /\ (io.term = "absent") <=> (link = NoLink)}

TickCalls == {"lost", "torn", "stop", "recheck", "filter"}

(* A tick that fails leaves nothing for the same run to serve. *)
ServedCalls(served) == IF served = "nothing" THEN TickCalls ELSE {"stop"}

(* What an encryption change may say of a link. *)
Securities == {security \in [encrypted : BOOLEAN, bonded : BOOLEAN, error : BOOLEAN] :
                  security.bonded => security.encrypted}

-------------------------------------------------------------------------------
(* One run of the service, on the 100 ms policy timer: a queued request or  *)
(* alias or a latched fault, the tick, then an advertising start or a       *)
(* report the runtime asked for.                                            *)

Intents == ({"PAUSED", "ENROLL"} \X {NoHost}) \cup ({"AUTO"} \X Labels)

RequestStep(intent, io) ==
    /\ core.operation_id < MaxOps
    /\ core' = Tick(Request(core, intent[1], intent[2], core.operation_id + 1, bonds, io),
                    FALSE, bonds, io)
    /\ UNCHANGED <<bonds, link, lost>>

AliasStep(h, io) ==
    /\ core.operation_id < MaxOps
    /\ core' = Tick(SetAlias(core, h, core.operation_id + 1, bonds, io), FALSE, bonds, io)
    /\ UNCHANGED <<bonds, link, lost>>

(* A fault the port latched: a store guard, the timer, an identity it could *)
(* not read.  A request already queued is not a recovery: it only lends its *)
(* operation and mode to the error.                                         *)
FaultStep(io) ==
    /\ core' = Fail(core, io)
    /\ UNCHANGED <<bonds, link, lost>>

FaultedRequestStep(mode, io) ==
    /\ core.operation_id < MaxOps
    /\ core' = [Fail(core, io) EXCEPT !.operation_id = core.operation_id + 1,
                                      !.requested_mode = mode]
    /\ UNCHANGED <<bonds, link, lost>>

(* What else the run serves: an advertising start that works, fails or was  *)
(* cancelled by its waiter, or a report the host stack does not take.       *)
Served == {"nothing", "started", "failed", "cancelled", "refused"}

ServeAdvertising(s, served, io) ==
    LET allowed == AdvertisingAllowed(s)
        on == [s EXCEPT !.advertising = @ \/ (allowed /\ served # "failed")]
        broken == served = "cancelled" \/ (served = "failed" /\ allowed) \/ io.fails = "stop"
    IN  IF served = "started" /\ allowed THEN on
        ELSE IF broken /\ s.state # "ERROR" THEN Fail(StopAdvertising(on, io), io)
        ELSE StopAdvertising(on, io)

(* Advertising starts in a run of its own, never in the one that stopped it *)
(* or is still switching.                                                   *)
ServeRequests(s, transitioning, served, io) ==
    IF served \in {"started", "failed", "cancelled"} /\ ~transitioning
    THEN ServeAdvertising(s, served, io)
    ELSE IF served = "refused" /\ InputAllowed(s) THEN Fail(s, io)
    ELSE s

(* Time is abstracted to whether the enrollment deadline has passed. *)
TickStep(expired, served, io) ==
    /\ expired => core.deadline
    /\ core' = ServeRequests(Tick(core, expired, bonds, io), core.state = "SWITCHING", served, io)
    /\ UNCHANGED <<bonds, link, lost>>

-------------------------------------------------------------------------------
(* Radio and security callbacks *)

(* A connectable advertiser stops when a central connects; a link the core *)
(* refuses is terminated and never becomes known.                          *)
ConnectStep(h, address) ==
    /\ core.advertising /\ link = NoLink /\ core.connection_generation < MaxLinks
    /\ core' = Connect([core EXCEPT !.advertising = FALSE], address)
    /\ link' = IF core'.handle /\ ~core.handle
               THEN [host |-> h, generation |-> core'.connection_generation] ELSE link
    /\ UNCHANGED <<bonds, lost>>

(* The address NimBLE knows the linked host by: its identity or an RPA.    *)
IdentityStep(address, io) ==
    /\ link # NoLink /\ address \in {link.host, Rpa}
    /\ core' = Identity(core, link.generation, address, io)
    /\ UNCHANGED <<bonds, link, lost>>

(* An encryption change reports the identity first. *)
SecurityStep(address, security, io) ==
    /\ link # NoLink /\ address \in {link.host, Rpa}
    /\ core' = Security(Identity(core, link.generation, address, io), link.generation,
                        security.encrypted, security.bonded, security.error, io)
    /\ UNCHANGED <<bonds, link, lost>>

(* A bonded host pairs again: an enrolling link is rejected, any other one  *)
(* latches a fault.                                                         *)
RepeatPairingStep(io) ==
    /\ link # NoLink /\ RejectApplies(core, link.generation)
    /\ core' = RejectEnrollmentLink(core, io)
    /\ UNCHANGED <<bonds, link, lost>>

SubscribeStep(enabled) ==
    /\ link # NoLink
    /\ core' = Subscribe(core, link.generation, enabled)
    /\ UNCHANGED <<bonds, link, lost>>

(* Pairing writes the key of the host at the other end; "durable" is left  *)
(* out of a record that does not read back.                                *)
StoreKeyStep(durable) ==
    LET h == link.host
        exists == "our_sec" \in bonds[h]
    IN  /\ link # NoLink
        /\ StoreAllowed(core, h, TRUE, exists, TRUE)
        /\ core' = StoreStarted(core, h, TRUE, exists)
        /\ bonds' = IF exists THEN bonds
                    ELSE [bonds EXCEPT ![h] = @ \cup (IF durable THEN {"our_sec", "durable"}
                                                      ELSE {"our_sec"})]
        /\ UNCHANGED <<link, lost>>

StoreCccdStep ==
    LET h == link.host
    IN  /\ link # NoLink /\ "cccd" \notin bonds[h]
        /\ StoreAllowed(core, h, FALSE, FALSE, FALSE)
        /\ core' = StoreStarted(core, h, FALSE, FALSE)
        /\ bonds' = [bonds EXCEPT ![h] = IF bonds[h] = {} THEN {"cccd", "durable"} ELSE @ \cup {"cccd"}]
        /\ UNCHANGED <<link, lost>>

LinkLost ==
    /\ link # NoLink
    /\ link' = NoLink
    /\ lost' = lost \cup {link.generation}
    /\ UNCHANGED <<core, bonds>>

DisconnectStep(generation) ==
    /\ generation \in lost
    /\ core' = Disconnect(core, generation)
    /\ lost' = lost \ {generation}
    /\ UNCHANGED <<bonds, link>>

(* A link lost before its callbacks were attached: a failed CONNECT event   *)
(* stands for the disconnect event.                                         *)
EarlyLossStep ==
    /\ link # NoLink
    /\ core' = Disconnect(core, link.generation)
    /\ link' = NoLink
    /\ UNCHANGED <<bonds, lost>>

-------------------------------------------------------------------------------
(* The stack restarts without a link; a power cycle also loses whatever was *)
(* not durable.                                                             *)

SyncStep(io) ==
    /\ link = NoLink /\ ~core.handle
    /\ core' = Sync(core, bonds, io)
    /\ UNCHANGED <<bonds, link, lost>>

BootStep(loaded, io) ==
    /\ bonds' = [h \in Hosts |-> IF "durable" \in bonds[h] THEN bonds[h] ELSE {}]
    /\ core' = Sync(InitCore(core.flash, loaded), bonds', io)
    /\ link' = NoLink
    /\ lost' = {}

Next ==
    \/ \E intent \in Intents, io \in Answers(Fails) : RequestStep(intent, io)
    \/ \E h \in Hosts, io \in Answers(TickCalls) : AliasStep(h, io)
    \/ \E io \in Answers({"stop"}) : FaultStep(io)
    \/ \E mode \in Modes, io \in Answers({"stop"}) : FaultedRequestStep(mode, io)
    \/ \E expired \in BOOLEAN, served \in Served :
          \E io \in Answers(ServedCalls(served)) : TickStep(expired, served, io)
    \/ \E h \in Hosts : \E address \in {h, Rpa} : ConnectStep(h, address)
    \/ \E address \in Addresses, io \in Answers({"stop"}) : IdentityStep(address, io)
    \/ \E address \in Addresses, security \in Securities, io \in Answers({"stop"}) :
          SecurityStep(address, security, io)
    \/ \E io \in Answers({}) : RepeatPairingStep(io)
    \/ \E enabled \in BOOLEAN : SubscribeStep(enabled)
    \/ \E durable \in BOOLEAN : StoreKeyStep(durable)
    \/ StoreCccdStep
    \/ LinkLost
    \/ \E generation \in lost : DisconnectStep(generation)
    \/ EarlyLossStep
    \/ \E io \in Answers({"refresh", "stop"}) : SyncStep(io)
    \/ \E loaded \in BOOLEAN, io \in Answers({"refresh"}) : BootStep(loaded, io)

Spec == Init /\ [][Next]_vars

(* The 100 ms timer re-arms itself, the enrollment clock advances, a        *)
(* terminated link ends by itself or by supervision timeout, and NimBLE     *)
(* delivers the event.  Owners, hosts and faults owe nothing.               *)
Fairness ==
    /\ \A expired \in BOOLEAN :
          WF_vars(\E served \in Served : \E io \in Answers(ServedCalls(served)) :
                     TickStep(expired, served, io))
    /\ WF_vars(core.terminate_sent /\ LinkLost)
    /\ \A generation \in 1..MaxLinks : WF_vars(DisconnectStep(generation))

FairSpec == Spec /\ Fairness

-------------------------------------------------------------------------------
(* Safety *)

(* A report may leave only towards the host whose selection is durable,     *)
(* whose key and subscription are in the store and read back, and which is  *)
(* the host really at the other end of the link.                            *)
InputOnlyToSelected ==
    InputAllowed(core) =>
        /\ core.flash.mode = "AUTO" /\ core.flash.selected = core.target_id
        /\ Complete(bonds, core.target_id)
        /\ core.input_subscribed
        /\ link # NoLink => link.host = core.target_id

(* A link the policy no longer admits is being terminated, and input stops  *)
(* with it: no pause, switch, timeout or fault leaves a forgotten link.     *)
UnadmittedLinkIsTerminating ==
    /\ core.handle /\ ~core.filter_ready => core.terminate_sent
    /\ InputAllowed(core) => ~core.terminate_sent

(* The live link is the one the core knows: a late disconnect event of an   *)
(* earlier generation never makes it forget the current one.                *)
LiveLinkTracked ==
    link # NoLink => core.handle /\ core.connection_generation = link.generation

(* The controller advertises only what admission allows, under the accept   *)
(* list of the selected host; after a refused stop only in the ERROR state. *)
AdvertisingFollowsAdmission ==
    core.advertising /\ core.state # "ERROR" =>
        /\ AdvertisingAllowed(core)
        /\ core.accept = IF core.applied_mode = "AUTO" THEN core.blob.selected ELSE NoHost

(* A reported durable pause is what a restart finds, enrollment is never    *)
(* what a restart resumes, and "persisted" means flash holds the RAM blob.  *)
DurableIntent ==
    /\ core.persisted => core.flash = core.blob
    /\ core.persisted /\ core.state = "PAUSED" => core.flash.mode = "PAUSED"
    /\ core.applied_mode = "ENROLL" => core.flash.mode = "PAUSED"
    /\ core.applied_mode = "AUTO" => core.flash = core.blob /\ core.blob.mode = "AUTO"

(* One enrollment window writes records for one new host at most, however   *)
(* often links drop, are rejected and come back under other addresses.      *)
OneNewcomer ==
    core.applied_mode = "ENROLL" =>
        Cardinality(Known(bonds) \ core.enrollment_existing) <= 1

(* Only a host without a record when the window opened can win it. *)
NewcomerWins ==
    [][core.applied_mode = "ENROLL" /\ core'.applied_mode = "AUTO"
          /\ core'.operation_id = core.operation_id
       => core'.target_id \notin core.enrollment_existing]_vars

(* An error is left by a new explicit intent or a restart, never by a tick, *)
(* a late link event or a resubscription.                                   *)
ErrorNeedsIntent ==
    [][core.state = "ERROR" /\ core'.state # "ERROR"
          /\ core'.operation_id = core.operation_id
       => \E loaded \in BOOLEAN, io \in Answers({"refresh"}) : BootStep(loaded, io)]_vars

(* Liveness: a pause, and any other loss of admission, ends with the link   *)
(* released or the termination reported as refused, and an enrollment       *)
(* window closes; none stays open for ever.                                 *)
UnadmittedLinkEnds ==
    /\ (core.handle /\ ~core.filter_ready) ~> (~core.handle \/ core.terminate_failed)
    /\ (core.applied_mode = "ENROLL") ~> (core.applied_mode # "ENROLL" \/ core.state = "ERROR")

-------------------------------------------------------------------------------
(* The inductive invariant behind the safety properties, in named parts.    *)

(* Losing admission and being terminated are the same thing for a link; a   *)
(* window that lost it rejected the link, whose callbacks are then ignored. *)
LinkCoherent(s) ==
    /\ s.handle /\ ~s.filter_ready => s.terminate_sent
    /\ s.terminate_sent => s.handle /\ ~s.filter_ready
    /\ s.applied_mode = "AUTO" => s.filter_ready /\ s.state # "ERROR"
    /\ s.applied_mode = "ENROLL" /\ s.handle /\ ~s.filter_ready => s.enrollment_rejected
    /\ s.enrollment_rejected /\ s.handle => ~s.input_subscribed

(* Unless it is closed by an error, the core works under the intent that is *)
(* in flash, towards the host selected there.                               *)
IntentCoherent(s) ==
    /\ s.persisted => s.flash = s.blob
    /\ s.state # "ERROR" \/ s.applied_mode # "PAUSED" =>
          /\ s.flash = s.blob /\ s.target_id = s.blob.selected
          /\ s.requested_mode = "AUTO" <=> s.blob.mode = "AUTO"
    /\ s.applied_mode # "PAUSED" => s.applied_mode = s.requested_mode
    /\ s.applied_mode = "AUTO" => s.target_id \in Hosts
    /\ s.state = "PAUSED" => s.requested_mode = "PAUSED"

(* Readiness was proved for the address the link has. *)
ProofCoherent(s, store) ==
    /\ s.hid_ready => s.handle /\ s.input_subscribed /\ Complete(store, s.connected_address)
    /\ s.handle /\ s.connected_id # NoHost => s.connected_id = s.connected_address

(* The controller advertises under the applied mode's accept list only. *)
AdvertiseCoherent(s) ==
    /\ s.advertising /\ s.state # "ERROR" => AdvertisingAllowed(s)
    /\ s.applied_mode = "AUTO" => s.accept = s.target_id
    /\ s.applied_mode = "ENROLL" => s.accept = NoHost

(* What an open window added to the store belongs to its latched candidate. *)
WindowCoherent(s, store) ==
    /\ s.candidate_store_started => s.candidate # NoHost
    /\ s.requested_mode = "ENROLL" /\ (s.state # "ERROR" \/ s.applied_mode # "PAUSED") =>
          \A h \in Known(store) \ s.enrollment_existing :
             s.candidate_store_started /\ h = s.candidate

CoreCoherent(s, store) ==
    /\ LinkCoherent(s) /\ IntentCoherent(s) /\ ProofCoherent(s, store)
    /\ AdvertiseCoherent(s) /\ WindowCoherent(s, store)

(* The core's link is the radio's, under a generation no event is owed for. *)
RadioCoherent ==
    /\ lost \subseteq 1..core.connection_generation
    /\ link # NoLink =>
          /\ core.handle /\ core.connection_generation = link.generation
          /\ link.host \in Hosts /\ link.generation > 0 /\ link.generation \notin lost
          /\ core.connected_address \in {link.host, Rpa}

IInv == TypeOK /\ CoreCoherent(core, bonds) /\ RadioCoherent

=============================================================================

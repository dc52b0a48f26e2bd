------------------------------- MODULE HostPort -------------------------------
(***************************************************************************)
(* The native host policy between its two threads (native/HostPolicy.c):   *)
(* the CircuitPython VM asks, arms and types; the NimBLE host task serves  *)
(* a request every 100 ms and handles the link's events.  They share what  *)
(* policy_mux protects; one action is what one thread does between two     *)
(* critical sections, with the first of them.                              *)
(*   - The policy (HostPolicyCore) is cut down to PAUSED and AUTO for one  *)
(*     host; what it does with the store is a step that may fail.          *)
(*   - An epoch is the numbers a report is labelled with; the policy's     *)
(*     own generation changes with an operation here.  A lease also keeps  *)
(*     the epoch the VM meant: history, which no code reads.               *)
(*   - A second advertising start is refused while one is active, so the   *)
(*     token never differs and is left out.                                *)
(*   - The store guards are intact and the timer runs.                     *)
(***************************************************************************)
EXTENDS Integers, Sequences

CONSTANTS
    InputCapacity, InputsPerTick,                       \* 8 and 4
    MaxOps, MaxLinks, MaxSubs, MaxStarts, MaxTroubles   \* bounds of the model

ASSUME PortAssumption ==
    /\ InputCapacity \in Nat \ {0} /\ InputsPerTick \in Nat \ {0}
    /\ \A bound \in {MaxOps, MaxLinks, MaxSubs, MaxStarts, MaxTroubles} : bound \in Nat

VARIABLES
    queue,      \* command_queue
    asked,      \* its next_operation
    fault,      \* fault_pending
    busy,       \* policy_busy
    observed,   \* the published copy of the core
    inputs,     \* input_queue
    origin,     \* input_origin, when valid
    start,      \* advertising_request
    core, lastInput,
    phase,      \* where the host task is
    taken,      \* the request and the fault it serves
    sent,       \* the reports it sent in this tick
    rc,         \* of the raw start
    air,        \* whether the controller advertises
    down,       \* whether the linked host holds a key down
    seen,       \* the epoch of the status the VM last read
    told,       \* what the VM's last start returned
    starts, troubles

shared == <<queue, asked, fault, busy, observed, inputs, origin, start>>
host == <<core, lastInput, phase, taken, sent, rc, air, down>>
vm == <<seen, told, starts>>
vars == <<shared, host, vm, troubles>>

Modes == {"PAUSED", "AUTO", "ALIAS"}
NoCmd == [op |-> 0, mode |-> "none"]
NoEpoch == [op |-> 0, conn |-> 0, sub |-> -1]
NoLease == [epoch |-> NoEpoch, gesture |-> NoEpoch]
NoReport == [lease |-> NoLease, down |-> FALSE]
NoStart == [active |-> FALSE, finished |-> FALSE, cancelled |-> FALSE, gone |-> FALSE, ok |-> FALSE]
NotTaken == [cmd |-> NoCmd, fault |-> FALSE]

Epoch(c) == [op |-> c.op, conn |-> c.conn, sub |-> c.sub]

AdvertisingAllowed(c) == c.filter /\ c.state # "ERROR" /\ c.applied # "PAUSED" /\ ~c.link
InputAllowed(c) == c.link /\ c.applied = "AUTO" /\ c.state = "CONNECTED" /\ c.ready

Init ==
    /\ queue = NoCmd /\ asked = 0 /\ fault = FALSE /\ busy = FALSE
    /\ core = [op |-> 0, want |-> "AUTO", applied |-> "PAUSED", state |-> "SWITCHING", filter |-> FALSE,
               ready |-> FALSE, link |-> FALSE, conn |-> 0, subbed |-> FALSE, sub |-> 0]
    /\ observed = core /\ inputs = <<>> /\ origin = NoLease /\ start = NoStart
    /\ lastInput = NoReport /\ phase = "idle" /\ taken = NotTaken /\ sent = 0 /\ rc = "none"
    /\ air = FALSE /\ down = FALSE /\ seen = NoEpoch /\ told = "none" /\ starts = 0 /\ troubles = 0

Trouble == troubles < MaxTroubles /\ troubles' = troubles + 1
Fine == UNCHANGED troubles

(* fault(): latched; the next tick of the host task serves it. *)
Latch == fault' = TRUE /\ observed' = [observed EXCEPT !.filter = FALSE, !.ready = FALSE] /\ inputs' = <<>>

-------------------------------------------------------------------------------
(* The VM. *)

(* The VM is one thread: it does nothing else while it waits for a start. *)
Free == told # "waiting"

Ask(mode) ==
    /\ Free /\ asked < MaxOps /\ (queue = NoCmd \/ mode = "PAUSED")
    /\ asked' = asked + 1 /\ queue' = [op |-> asked + 1, mode |-> mode]
    /\ inputs' = <<>> /\ origin' = NoLease
    /\ UNCHANGED <<fault, busy, observed, start, host, vm, troubles>>

Look ==
    /\ Free /\ seen' = Epoch(observed) /\ seen' # seen
    /\ UNCHANGED <<shared, host, told, starts, troubles>>

Quiet == queue = NoCmd /\ ~busy /\ ~fault

(* Mutation: the lease is taken on whatever is current. *)
LeaseNow ==
    IF Quiet /\ InputAllowed(observed) THEN [epoch |-> Epoch(observed), gesture |-> seen] ELSE NoLease
Lease ==
    IF Quiet /\ seen = Epoch(observed) /\ InputAllowed(observed)
    THEN [epoch |-> Epoch(observed), gesture |-> seen] ELSE NoLease

Arm ==
    /\ Free /\ origin' = Lease /\ origin' # origin
    /\ UNCHANGED <<queue, asked, fault, busy, observed, inputs, start, host, vm, troubles>>

Fits == Len(inputs) < InputCapacity

(* A report that does not fit is a fault. *)
Type(press) ==
    /\ Free /\ Quiet /\ origin.epoch = Epoch(observed) /\ observed.ready
    /\ \/ /\ Fits /\ Fine
          /\ inputs' = Append(inputs, [lease |-> origin, down |-> press])
          /\ UNCHANGED <<fault, observed>>
       \/ ~Fits /\ Trouble /\ Latch
    /\ UNCHANGED <<queue, asked, busy, origin, start, host, vm>>

StartAdvertising ==
    /\ Free /\ starts < MaxStarts /\ ~start.active
    /\ queue = NoCmd /\ ~fault
    /\ observed.filter /\ observed.applied # "PAUSED" /\ observed.state # "ERROR"
    /\ start' = [NoStart EXCEPT !.active = TRUE] /\ told' = "waiting" /\ starts' = starts + 1
    /\ UNCHANGED <<queue, asked, fault, busy, observed, inputs, origin, host, seen, troubles>>

StartReturns ==
    /\ told = "waiting" /\ start.finished
    /\ start' = [start EXCEPT !.active = FALSE] /\ told' = IF start.ok THEN "started" ELSE "refused"
    /\ UNCHANGED <<queue, asked, fault, busy, observed, inputs, origin, host, seen, starts, troubles>>

StartTimesOut ==
    /\ told = "waiting" /\ ~start.finished
    /\ start' = [start EXCEPT !.cancelled = TRUE, !.gone = TRUE] /\ told' = "timeout"
    /\ UNCHANGED <<queue, asked, fault, busy, observed, inputs, origin, host, seen, starts, troubles>>

-------------------------------------------------------------------------------
(* The policy, as service() drives it. *)

(* hp_fail() *)
Failed(c) ==
    [c EXCEPT !.state = "ERROR", !.applied = "PAUSED", !.filter = FALSE, !.ready = FALSE, !.subbed = FALSE]

Requested(c, cmd) ==
    [c EXCEPT !.op = cmd.op, !.want = cmd.mode, !.applied = "PAUSED", !.state = "SWITCHING",
              !.filter = FALSE, !.ready = FALSE, !.subbed = FALSE]

Ticked(c) ==
    CASE c.state = "SWITCHING" /\ ~c.link ->
             IF c.want = "PAUSED" THEN [c EXCEPT !.state = "PAUSED"]
             ELSE [c EXCEPT !.state = "WAITING", !.applied = "AUTO", !.filter = TRUE]
      [] c.state # "ERROR" /\ c.link /\ ~c.ready /\ c.subbed -> [c EXCEPT !.ready = TRUE, !.state = "CONNECTED"]
      [] OTHER -> c

CurrentInput(report) == InputAllowed(core) /\ report.lease.epoch = Epoch(core)

-------------------------------------------------------------------------------
(* service(), on the host task. *)

Busies == fault \/ queue # NoCmd

Take ==
    /\ phase = "idle" /\ phase' = "taken"
    /\ taken' = [cmd |-> queue, fault |-> fault] /\ queue' = NoCmd /\ fault' = FALSE
    /\ busy' = Busies
    /\ UNCHANGED <<asked, observed, inputs, origin, start, core, lastInput, sent, rc, air, down, vm, troubles>>

(* Mutation: an alias keeps the number of the operation before it. *)
NamedForPolicy(c) == IF taken.cmd.mode \in {"none", "ALIAS"} THEN c ELSE [c EXCEPT !.op = taken.cmd.op]
Named(c) == IF taken.cmd = NoCmd THEN c ELSE [c EXCEPT !.op = taken.cmd.op]
Wanted(c) == IF taken.cmd.mode \in {"PAUSED", "AUTO"} THEN [c EXCEPT !.want = taken.cmd.mode] ELSE c

(* The controller's advertising is stopped with it, or that fails as well. *)
Stops == (Fine /\ air' = FALSE) \/ (Trouble /\ UNCHANGED air)

(* Mutation: the operation that was taken with the fault is not named. *)
ServeFaultOnly == core' = Wanted(Failed(core)) /\ Stops
ServeFault == core' = Wanted(Named(Failed(core))) /\ Stops

ServeRequest ==
    \/ core' = Failed(Named(core)) /\ Trouble /\ air' \in {air, FALSE}
    \/ taken.cmd.mode = "ALIAS" /\ core' = Ticked(Named(core)) /\ Fine /\ UNCHANGED air
    \/ taken.cmd.mode # "ALIAS" /\ core' = Ticked(Requested(core, taken.cmd)) /\ Fine /\ air' = FALSE

(* Mutation: the operation that was taken with the fault is begun. *)
ServeBegun == IF taken.cmd # NoCmd THEN ServeRequest ELSE ServeFault
ServeTaken == IF taken.fault THEN ServeFault ELSE ServeRequest

(* Mutation: an alias does not interrupt the input. *)
ReleasesForPolicy == lastInput.down /\ taken.cmd.mode # "ALIAS"
Releases == lastInput.down

(* release_old_input() first, which may fail as well. *)
Serve ==
    LET active == taken.fault \/ taken.cmd # NoCmd
        due == active /\ Releases /\ CurrentInput(lastInput)
    IN  /\ phase = "taken"
        /\ phase' = IF active \/ core.state = "SWITCHING" THEN "inputs" ELSE "start"
        /\ \/ active /\ ServeTaken
           \/ ~active /\ core' = Ticked(core) /\ Fine /\ UNCHANGED air
           \/ ~active /\ core.state = "SWITCHING" /\ ~core.link /\ core' = Failed(core) /\ Trouble /\ air' = FALSE
        /\ inputs' = (IF active THEN <<>> ELSE inputs) /\ origin' = (IF active THEN NoLease ELSE origin)
        /\ \E letgo \in {due, due /\ troubles' = troubles} :
               /\ down' = (down /\ ~letgo)
               /\ lastInput' = [lastInput EXCEPT !.down = @ /\ ~letgo]
        /\ UNCHANGED <<queue, asked, fault, busy, observed, start, taken, sent, rc, vm>>

(* The raw start, on the host task, after a look at the policy. *)
RawStart ==
    /\ phase = "start" /\ phase' = "check"
    /\ IF ~start.active \/ start.finished THEN rc' = "none" /\ Fine /\ UNCHANGED air
       ELSE IF start.cancelled \/ ~AdvertisingAllowed(core) THEN rc' = "rejected" /\ Fine /\ UNCHANGED air
       ELSE \/ rc' = "ok" /\ Fine /\ air' = TRUE
            \/ rc' = "failed" /\ Trouble /\ UNCHANGED air
    /\ UNCHANGED <<shared, core, lastInput, taken, sent, down, vm>>

CheckStart ==
    /\ phase = "check" /\ phase' = IF rc = "none" THEN "inputs" ELSE "finish"
    /\ LET stops == rc # "none" /\ (start.cancelled \/ rc # "ok")
       IN  /\ rc' = IF stops /\ start.cancelled THEN "timeout" ELSE rc
           /\ air' = (air /\ ~stops)
           /\ core' = IF stops /\ (start.cancelled \/ rc # "rejected") /\ core.state # "ERROR"
                      THEN Failed(core) ELSE core
    /\ UNCHANGED <<shared, lastInput, taken, sent, down, vm, troubles>>

FinishStart ==
    /\ phase = "finish" /\ phase' = "inputs" /\ rc' = "none"
    /\ start' = [start EXCEPT !.finished = TRUE, !.ok = (rc = "ok"), !.active = ~start.gone]
    /\ UNCHANGED <<queue, asked, fault, busy, observed, inputs, origin,
                   core, lastInput, taken, sent, air, down, vm, troubles>>

HasInput == sent < InputsPerTick /\ queue = NoCmd /\ ~fault /\ inputs # <<>>

(* A report of another epoch is dropped; one that cannot be sent fails. *)
SendInput ==
    /\ phase = "inputs" /\ HasInput
    /\ LET report == Head(inputs)
       IN  \/ /\ ~CurrentInput(report) /\ Fine /\ inputs' = Tail(inputs) /\ sent' = sent + 1
              /\ UNCHANGED <<core, lastInput, down, origin, air>>
           \/ /\ CurrentInput(report) /\ Fine /\ inputs' = Tail(inputs) /\ sent' = sent + 1
              /\ lastInput' = report /\ down' = report.down /\ UNCHANGED <<core, origin, air>>
           \/ /\ CurrentInput(report) /\ Trouble /\ inputs' = <<>> /\ sent' = InputsPerTick
              /\ origin' = NoLease /\ core' = Failed(core) /\ air' = FALSE /\ UNCHANGED <<lastInput, down>>
    /\ UNCHANGED <<queue, asked, fault, busy, observed, start, phase, taken, rc, vm>>

Publish ==
    /\ phase = "inputs" /\ ~HasInput /\ phase' = "published" /\ observed' = core
    /\ UNCHANGED <<queue, asked, fault, busy, inputs, origin, start, core, lastInput, taken, sent, rc,
                   air, down, vm, troubles>>

Rest ==
    /\ phase = "published" /\ phase' = "idle" /\ busy' = FALSE /\ taken' = NotTaken /\ sent' = 0
    /\ UNCHANGED <<queue, asked, fault, observed, inputs, origin, start, core, lastInput, rc, air, down,
                   vm, troubles>>

-------------------------------------------------------------------------------
(* The link's events, on the host task as well. *)

Happens ==
    /\ phase = "idle" /\ phase' = "event" /\ inputs' = <<>> /\ origin' = NoLease /\ down' = FALSE
    /\ UNCHANGED <<queue, asked, fault, busy, observed, start, lastInput, taken, sent, rc, vm, troubles>>

Connect ==
    /\ air /\ AdvertisingAllowed(core) /\ core.conn < MaxLinks /\ Happens /\ air' = FALSE
    /\ core' = [core EXCEPT !.link = TRUE, !.conn = @ + 1, !.ready = FALSE, !.subbed = FALSE]

(* A host that subscribes anew reads the report's value, which is neutral. *)
Subscribe ==
    /\ core.link /\ core.sub < MaxSubs /\ Happens /\ UNCHANGED air
    /\ core' = [core EXCEPT !.subbed = ~@, !.sub = @ + 1, !.ready = FALSE]

Disconnect ==
    /\ core.link /\ Happens /\ UNCHANGED air
    /\ core' = [core EXCEPT !.link = FALSE, !.ready = FALSE, !.subbed = FALSE,
                            !.state = IF @ = "ERROR" THEN @ ELSE "SWITCHING"]

PublishEvent ==
    /\ phase = "event" /\ phase' = "idle" /\ observed' = core
    /\ UNCHANGED <<queue, asked, fault, busy, inputs, origin, start, core, lastInput, taken, sent, rc,
                   air, down, vm, troubles>>

(* A record that must not be written: another operation waits, or it is of *)
(* a host that is not selected, or the store fails.                        *)
StoreFails ==
    /\ phase = "idle" /\ core.link /\ Trouble /\ Latch
    /\ UNCHANGED <<queue, asked, busy, origin, start, host, vm>>

-------------------------------------------------------------------------------
Service == Take \/ Serve \/ RawStart \/ CheckStart \/ FinishStart \/ SendInput \/ Publish \/ Rest \/ PublishEvent

Next ==
    \/ \E mode \in Modes : Ask(mode)
    \/ Look \/ Arm \/ (\E press \in BOOLEAN : Type(press))
    \/ StartAdvertising \/ StartReturns \/ StartTimesOut
    \/ Service \/ Connect \/ Subscribe \/ Disconnect \/ StoreFails

Spec == Init /\ [][Next]_vars

(* The timer calls service() again; the links' events are bounded. *)
FairSpec == Spec /\ WF_vars(Service)

-------------------------------------------------------------------------------
(* Properties. *)

TypeOK ==
    /\ queue \in [op : 0..MaxOps, mode : Modes \cup {"none"}] /\ asked \in 0..MaxOps
    /\ fault \in BOOLEAN /\ busy \in BOOLEAN /\ Len(inputs) <= InputCapacity /\ sent \in 0..InputsPerTick
    /\ core.state \in {"PAUSED", "SWITCHING", "WAITING", "CONNECTED", "ERROR"}
    /\ core.conn <= MaxLinks /\ core.sub <= MaxSubs
    /\ start.active => starts > 0
    /\ told = "waiting" => start.active /\ ~start.gone
    /\ start.gone => ~start.finished \/ ~start.active

(* A report goes out under the operation, the connection and the           *)
(* subscription of the status its gesture was meant for, whatever either   *)
(* thread did in between.                                                  *)
SentWhereArmed ==
    [][lastInput' # lastInput => lastInput'.lease.gesture = Epoch(core) /\ InputAllowed(core)]_vars

(* A key the host holds down on a link that takes input is one that the    *)
(* next request's release finds, so no request leaves it down.             *)
HeldIsCurrent == down /\ InputAllowed(core) => lastInput.down /\ CurrentInput(lastInput)

(* A fault ends in an error the VM sees, also when a request waited with it. *)
FaultIsShown == phase = "published" /\ taken.fault => observed.state = "ERROR"

(* The controller advertises only while the policy waits for a host, or    *)
(* where stopping it failed.                                               *)
AirIsAdmitted == air => core.state = "ERROR" \/ (core.state = "WAITING" /\ core.filter /\ ~core.link)

(* A status that does not read as a switch is about the last operation.    *)
SettledIsLast == queue = NoCmd /\ ~busy => observed.op = asked

(* The two threads together are a mailbox of one operation.                *)
Mailbox == INSTANCE HostMailbox
    WITH last <- asked, waiting <- queue.op, serving <- taken.cmd.op, shown <- observed.op
ImplementsMailbox == Mailbox!Spec

(* Every request comes to an answer, its own or that of a later one.       *)
Served == \A n \in 1..MaxOps : (queue.op = n) ~> (observed.op >= n /\ ~busy)
===============================================================================

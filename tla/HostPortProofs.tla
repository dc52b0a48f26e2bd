---------------------------- MODULE HostPortProofs ----------------------------
(***************************************************************************)
(* The two threads of the native host policy, for every capacity and every *)
(* bound: they are a mailbox of one operation, and the safety properties   *)
(* of HostPort hold.  One inductive invariant carries all of them; its     *)
(* parts say where the number of the last operation is (InOrder), what the *)
(* policy's state admits (Admitted), that a served fault stays an error    *)
(* (Faulty), that a lease was taken in the epoch it was meant for (Leased) *)
(* and that the policy forgets a held key only with a subscription (Held). *)
(***************************************************************************)
EXTENDS HostPort, SequenceTheorems, TLAPS

Commands == {NoCmd} \cup [op : Nat \ {0}, mode : Modes]
Cores == [op : Nat, want : Modes, applied : {"PAUSED", "AUTO"},
          state : {"PAUSED", "SWITCHING", "WAITING", "CONNECTED", "ERROR"}, filter : BOOLEAN,
          ready : BOOLEAN, link : BOOLEAN, conn : Nat, subbed : BOOLEAN, sub : Nat]
Epochs == [op : Nat, conn : Nat, sub : Int]
Leases == [epoch : Epochs, gesture : Epochs]
Reports == [lease : Leases, down : BOOLEAN]
Starts == [active : BOOLEAN, finished : BOOLEAN, cancelled : BOOLEAN, gone : BOOLEAN, ok : BOOLEAN]
Phases == {"idle", "taken", "start", "check", "finish", "inputs", "published", "event"}

TypeInv ==
    /\ queue \in Commands /\ asked \in Nat /\ fault \in BOOLEAN /\ busy \in BOOLEAN
    /\ observed \in Cores /\ inputs \in Seq(Reports) /\ origin \in Leases /\ start \in Starts
    /\ core \in Cores /\ lastInput \in Reports /\ phase \in Phases
    /\ taken \in [cmd : Commands, fault : BOOLEAN] /\ sent \in Nat
    /\ air \in BOOLEAN /\ down \in BOOLEAN /\ seen \in Epochs /\ starts \in Nat /\ troubles \in Nat

(* The last operation waits, or is taken, or is the one that is shown; the *)
(* core has it from the moment it is served.                               *)
InOrder ==
    /\ asked = IF queue # NoCmd THEN queue.op
               ELSE IF taken.cmd # NoCmd THEN taken.cmd.op ELSE observed.op
    /\ taken.cmd # NoCmd => busy
    /\ phase \in {"idle", "event"} => taken = NotTaken
    /\ taken.cmd # NoCmd /\ phase # "taken" => core.op = taken.cmd.op
    /\ taken.cmd = NoCmd \/ phase \in {"taken", "published"} => observed.op = core.op

Admitted ==
    /\ core.state = "CONNECTED" => core.link
    /\ core.state = "PAUSED" \/ core.want = "PAUSED" => ~core.filter
    /\ phase = "start" => core.state # "SWITCHING"
    /\ air => core.state = "ERROR" \/ (core.state = "WAITING" /\ core.filter /\ ~core.link)

Faulty ==
    /\ phase \in {"start", "check", "finish", "idle", "event"} => ~taken.fault
    /\ phase = "inputs" /\ taken.fault => core.state = "ERROR"
    /\ phase = "published" /\ taken.fault => observed.state = "ERROR"

Leased ==
    /\ origin.gesture = origin.epoch /\ lastInput.lease.gesture = lastInput.lease.epoch
    /\ \A i \in 1..Len(inputs) : inputs[i].lease.gesture = inputs[i].lease.epoch

Held == down => (lastInput.down /\ CurrentInput(lastInput)) \/ (~core.ready /\ ~core.subbed)

IInv == TypeInv /\ InOrder /\ Admitted /\ Faulty /\ Leased /\ Held

-------------------------------------------------------------------------------
(* The operators of the policy: types, and what each keeps of the core.    *)

LEMMA FailedFacts ==
    ASSUME NEW c \in Cores
    PROVE  /\ Failed(c) \in Cores /\ Failed(c).op = c.op /\ Failed(c).state = "ERROR"
           /\ ~Failed(c).filter /\ ~Failed(c).ready /\ ~Failed(c).subbed
           /\ Failed(c).conn = c.conn /\ Failed(c).sub = c.sub
  BY DEF Failed, Cores

LEMMA RequestedFacts ==
    ASSUME NEW c \in Cores, NEW cmd \in Commands, cmd # NoCmd
    PROVE  /\ Requested(c, cmd) \in Cores /\ Requested(c, cmd).op = cmd.op
           /\ Requested(c, cmd).state = "SWITCHING"
           /\ Requested(c, cmd).conn = c.conn /\ Requested(c, cmd).sub = c.sub
           /\ ~Requested(c, cmd).filter /\ ~Requested(c, cmd).ready /\ ~Requested(c, cmd).subbed
  <1>1. cmd.op \in Nat /\ cmd.mode \in Modes
    BY DEF Commands
  <1>2. QED
    BY <1>1 DEF Requested, Cores

(* What a tick may do to a core that is not in error. *)
LEMMA TickedFacts ==
    ASSUME NEW c \in Cores
    PROVE  /\ Ticked(c) \in Cores /\ Ticked(c).op = c.op
           /\ Ticked(c).link = c.link /\ Ticked(c).conn = c.conn /\ Ticked(c).sub = c.sub
           /\ Ticked(c).want = c.want
           /\ \/ Ticked(c) = c
              \/ /\ c.state = "SWITCHING" /\ ~c.link
                 /\ Ticked(c).ready = c.ready /\ Ticked(c).subbed = c.subbed
                 /\ \/ c.want = "PAUSED" /\ Ticked(c).state = "PAUSED" /\ Ticked(c).filter = c.filter
                    \/ c.want # "PAUSED" /\ Ticked(c).state = "WAITING" /\ Ticked(c).filter
              \/ /\ c.state # "ERROR" /\ c.link /\ c.subbed /\ ~c.ready
                 /\ Ticked(c).state = "CONNECTED" /\ Ticked(c).filter = c.filter
  BY DEF Ticked, Cores

(* Naming the operation, and the mode a failed core is left to want.       *)
LEMMA NamedFacts ==
    ASSUME NEW c \in Cores, taken.cmd \in Commands
    PROVE  /\ Named(c) \in Cores
           /\ taken.cmd = NoCmd => Named(c) = c
           /\ taken.cmd # NoCmd => Named(c).op = taken.cmd.op
           /\ Named(c).want = c.want /\ Named(c).state = c.state /\ Named(c).filter = c.filter
           /\ Named(c).ready = c.ready /\ Named(c).link = c.link /\ Named(c).subbed = c.subbed
           /\ Named(c).conn = c.conn /\ Named(c).sub = c.sub
  <1>1. taken.cmd = NoCmd \/ taken.cmd.op \in Nat
    BY DEF Commands
  <1>2. QED
    BY <1>1 DEF Named, Cores

LEMMA WantedFacts ==
    ASSUME NEW c \in Cores, taken.cmd \in Commands
    PROVE  /\ Wanted(c) \in Cores /\ Wanted(c).op = c.op /\ Wanted(c).state = c.state
           /\ Wanted(c).filter = c.filter /\ Wanted(c).ready = c.ready /\ Wanted(c).link = c.link
           /\ Wanted(c).subbed = c.subbed /\ Wanted(c).conn = c.conn /\ Wanted(c).sub = c.sub
  BY DEF Wanted, Cores, Modes

(* Serving what was taken ends in an error where a fault was taken; else   *)
(* in the requested switch, its first tick or an error.                    *)
LEMMA ServeTakenFacts ==
    ASSUME core \in Cores, taken.cmd \in Commands, taken.fault \in BOOLEAN, air \in BOOLEAN,
           taken.fault \/ taken.cmd # NoCmd, ServeTaken
    PROVE  /\ core' \in Cores /\ air' \in BOOLEAN
           /\ core'.op = IF taken.cmd = NoCmd THEN core.op ELSE taken.cmd.op
           /\ core'.conn = core.conn /\ core'.sub = core.sub
           /\ taken.fault => core'.state = "ERROR"
           /\ troubles' = troubles \/ Trouble
           /\ \/ core'.state = "ERROR" /\ ~core'.filter /\ ~core'.ready /\ ~core'.subbed
              \/ ~air' /\ taken.cmd # NoCmd /\ core' = Ticked(Requested(core, taken.cmd)) /\ Fine
              \/ core' = Ticked(Named(core)) /\ air' = air /\ Fine
  <1> DEFINE failed == Failed(core)  named == Named(core)
  <1>1. failed \in Cores /\ failed.op = core.op /\ failed.state = "ERROR"
        /\ ~failed.filter /\ ~failed.ready /\ ~failed.subbed
        /\ failed.conn = core.conn /\ failed.sub = core.sub
    BY FailedFacts
  <1>2. named \in Cores /\ named.conn = core.conn /\ named.sub = core.sub
        /\ named.op = IF taken.cmd = NoCmd THEN core.op ELSE taken.cmd.op
    BY NamedFacts
  <1> HIDE DEF failed, named
  <1>3. CASE taken.fault
    <2> DEFINE answer == Named(failed)
    <2>1. answer \in Cores /\ answer.state = "ERROR" /\ ~answer.filter /\ ~answer.ready /\ ~answer.subbed
          /\ answer.conn = core.conn /\ answer.sub = core.sub
          /\ answer.op = IF taken.cmd = NoCmd THEN core.op ELSE taken.cmd.op
      BY <1>1, NamedFacts
    <2> HIDE DEF answer
    <2>2. core' = Wanted(answer)
      BY <1>3 DEF ServeTaken, ServeFault, answer, failed
    <2>3. air' \in BOOLEAN /\ (troubles' = troubles \/ Trouble)
      BY <1>3 DEF ServeTaken, ServeFault, Stops, Fine
    <2>4. QED
      BY <1>3, <2>1, <2>2, <2>3, WantedFacts
  <1>4. CASE ~taken.fault
    <2>1. taken.cmd # NoCmd /\ ServeRequest
      BY <1>4 DEF ServeTaken
    <2>2. CASE core' = Failed(named) /\ Trouble /\ air' \in {air, FALSE}
      BY <1>2, <1>4, <2>2, FailedFacts
    <2>3. CASE core' = Ticked(named) /\ Fine /\ UNCHANGED air
      <3>1. core' \in Cores /\ core'.op = named.op /\ core'.conn = named.conn /\ core'.sub = named.sub
        BY <1>2, <2>3, TickedFacts
      <3>2. QED
        BY <1>2, <1>4, <2>3, <3>1 DEF Fine, named
    <2>4. CASE core' = Ticked(Requested(core, taken.cmd)) /\ Fine /\ air' = FALSE
      <3> DEFINE asks == Requested(core, taken.cmd)
      <3>1. asks \in Cores /\ asks.op = taken.cmd.op /\ asks.conn = core.conn /\ asks.sub = core.sub
        BY <2>1, RequestedFacts
      <3> HIDE DEF asks
      <3>2. core' = Ticked(asks)
        BY <2>4 DEF asks
      <3>3. core' \in Cores /\ core'.op = asks.op /\ core'.conn = asks.conn /\ core'.sub = asks.sub
        BY <3>1, <3>2, TickedFacts
      <3>4. QED
        BY <1>4, <2>1, <2>4, <3>1, <3>3 DEF Fine
    <2>5. QED
      BY <2>1, <2>2, <2>3, <2>4 DEF ServeRequest, named
  <1>5. QED
    BY <1>3, <1>4

-------------------------------------------------------------------------------
(* What one step of the host task does to the core: the step facts the     *)
(* parts of the invariant share.                                           *)

LEMMA ConstantTypes ==
    /\ InputCapacity \in Nat \ {0} /\ InputsPerTick \in Nat \ {0}
    /\ MaxOps \in Nat /\ MaxLinks \in Nat /\ MaxSubs \in Nat /\ MaxStarts \in Nat /\ MaxTroubles \in Nat
  BY PortAssumption

LEMMA NoneTypes ==
    /\ NoCmd \in Commands /\ NoEpoch \in Epochs /\ NoLease \in Leases /\ NoReport \in Reports
    /\ NoStart \in Starts /\ NotTaken \in [cmd : Commands, fault : BOOLEAN]
  <1>1. NoCmd \in Commands
    BY DEF Commands
  <1>2. NoEpoch \in Epochs
    BY DEF NoEpoch, Epochs
  <1>3. NoLease \in Leases
    BY <1>2 DEF NoLease, Leases
  <1>4. NoReport \in Reports
    BY <1>3 DEF NoReport, Reports
  <1>5. NoStart \in Starts
    BY DEF NoStart, Starts
  <1>6. NotTaken \in [cmd : Commands, fault : BOOLEAN]
    BY <1>1 DEF NotTaken
  <1>7. QED
    BY <1>1, <1>2, <1>3, <1>4, <1>5, <1>6

LEMMA EpochType ==
    ASSUME NEW c \in Cores
    PROVE  Epoch(c) \in Epochs
  BY DEF Epoch, Epochs, Cores

LEMMA TroubleType ==
    ASSUME troubles \in Nat, Trouble \/ Fine \/ troubles' = troubles
    PROVE  troubles' \in Nat
  BY DEF Trouble, Fine

(* A latched fault shows in the published copy and keeps its number.       *)
LEMMA LatchFacts ==
    ASSUME observed \in Cores, Latch
    PROVE  /\ fault' = TRUE /\ inputs' = <<>>
           /\ observed' \in Cores /\ observed'.op = observed.op /\ observed'.state = observed.state
  BY DEF Latch, Cores

(* Serving: the core's type and number, what it serves, and what is left.  *)
LEMMA ServeFacts ==
    ASSUME TypeInv, Serve
    PROVE  LET active == taken.fault \/ taken.cmd # NoCmd
           IN  /\ phase = "taken" /\ phase' \in {"inputs", "start"}
               /\ phase' = "start" => ~active /\ core.state # "SWITCHING"
               /\ core' \in Cores /\ air' \in BOOLEAN /\ troubles' \in Nat
               /\ core'.op = IF taken.cmd = NoCmd THEN core.op ELSE taken.cmd.op
               /\ core'.conn = core.conn /\ core'.sub = core.sub
               /\ taken.fault => core'.state = "ERROR"
               /\ \/ core'.state = "ERROR" /\ ~core'.filter /\ ~core'.ready /\ ~core'.subbed
                  \/ ~air' /\ taken.cmd # NoCmd /\ core' = Ticked(Requested(core, taken.cmd)) /\ Fine
                  \/ core' = Ticked(Named(core)) /\ air' = air /\ Fine
               /\ (active /\ inputs' = <<>> /\ origin' = NoLease) \/ (~active /\ inputs' = inputs /\ origin' = origin)
               /\ UNCHANGED <<queue, asked, fault, busy, observed, start, taken, sent, rc, vm>>
  <1>1. core \in Cores /\ taken.cmd \in Commands /\ taken.fault \in BOOLEAN /\ air \in BOOLEAN /\ troubles \in Nat
    BY DEF TypeInv
  <1>2. /\ phase = "taken" /\ UNCHANGED <<queue, asked, fault, busy, observed, start, taken, sent, rc, vm>>
        /\ phase' = IF taken.fault \/ taken.cmd # NoCmd \/ core.state = "SWITCHING" THEN "inputs" ELSE "start"
    BY DEF Serve
  <1>3. CASE taken.fault \/ taken.cmd # NoCmd
    <2>1. ServeTaken /\ inputs' = <<>> /\ origin' = NoLease
      BY <1>3 DEF Serve
    <2>2. /\ core' \in Cores /\ air' \in BOOLEAN /\ (troubles' = troubles \/ Trouble)
          /\ core'.op = IF taken.cmd = NoCmd THEN core.op ELSE taken.cmd.op
          /\ core'.conn = core.conn /\ core'.sub = core.sub
          /\ taken.fault => core'.state = "ERROR"
          /\ \/ core'.state = "ERROR" /\ ~core'.filter /\ ~core'.ready /\ ~core'.subbed
             \/ ~air' /\ taken.cmd # NoCmd /\ core' = Ticked(Requested(core, taken.cmd)) /\ Fine
             \/ core' = Ticked(Named(core)) /\ air' = air /\ Fine
      BY <1>1, <1>3, <2>1, ServeTakenFacts
    <2>3. troubles' \in Nat
      BY <1>1, <2>2, TroubleType
    <2>4. QED
      BY <1>2, <1>3, <2>1, <2>2, <2>3
  <1>4. CASE ~(taken.fault \/ taken.cmd # NoCmd)
    <2>1. inputs' = inputs /\ origin' = origin
      BY <1>4 DEF Serve
    <2>2. \/ core' = Ticked(core) /\ Fine /\ UNCHANGED air
          \/ core' = Failed(core) /\ Trouble /\ air' = FALSE
      BY <1>4 DEF Serve
    <2>3. CASE core' = Ticked(core) /\ Fine /\ UNCHANGED air
      <3>1. Named(core) = core
        BY <1>1, <1>4, NamedFacts
      <3>2. core' \in Cores /\ core'.op = core.op /\ core'.conn = core.conn /\ core'.sub = core.sub
        BY <1>1, <2>3, TickedFacts
      <3>3. troubles' \in Nat
        BY <1>1, <2>3, TroubleType
      <3>4. QED
        BY <1>1, <1>2, <1>4, <2>1, <2>3, <3>1, <3>2, <3>3
    <2>4. CASE core' = Failed(core) /\ Trouble /\ air' = FALSE
      <3>1. troubles' \in Nat
        BY <1>1, <2>4, TroubleType
      <3>2. QED
        BY <1>1, <1>2, <1>4, <2>1, <2>4, <3>1, FailedFacts
    <2>5. QED
      BY <2>2, <2>3, <2>4
  <1>5. QED
    BY <1>3, <1>4

(* The check after a raw start leaves the core alone or fails it.          *)
LEMMA CheckStartFacts ==
    ASSUME TypeInv, CheckStart
    PROVE  /\ phase = "check" /\ phase' \in {"inputs", "finish"}
           /\ core' = core \/ core' = Failed(core)
           /\ air' \in BOOLEAN /\ (air' => air)
           /\ UNCHANGED <<shared, lastInput, taken, sent, down, vm, troubles>>
  BY DEF CheckStart, TypeInv

(* Sending takes one report off, or fails the policy and drops them all.   *)
LEMMA SendInputFacts ==
    ASSUME TypeInv, SendInput
    PROVE  /\ phase = "inputs" /\ inputs # <<>> /\ sent < InputsPerTick
           /\ UNCHANGED <<queue, asked, fault, busy, observed, start, phase, taken, rc, vm>>
           /\ \/ /\ inputs' = Tail(inputs) /\ sent' = sent + 1 /\ core' = core /\ origin' = origin
                 /\ air' = air /\ troubles' = troubles
                 /\ \/ lastInput' = lastInput /\ down' = down
                    \/ CurrentInput(Head(inputs)) /\ lastInput' = Head(inputs) /\ down' = Head(inputs).down
              \/ /\ CurrentInput(Head(inputs)) /\ Trouble /\ inputs' = <<>> /\ sent' = InputsPerTick
                 /\ origin' = NoLease /\ core' = Failed(core) /\ air' = FALSE
                 /\ lastInput' = lastInput /\ down' = down
  BY DEF SendInput, HasInput, Fine

-------------------------------------------------------------------------------
(* The type invariant. *)

LEMMA InitTypes == Init => TypeInv
  <1> DEFINE first == [op |-> 0, want |-> "AUTO", applied |-> "PAUSED", state |-> "SWITCHING", filter |-> FALSE,
                       ready |-> FALSE, link |-> FALSE, conn |-> 0, subbed |-> FALSE, sub |-> 0]
  <1>1. first \in Cores
    BY DEF Cores, Modes
  <1> HIDE DEF first
  <1>2. Init => core = first /\ observed = first
    BY DEF Init, first
  <1>3. SUFFICES ASSUME Init PROVE TypeInv
    OBVIOUS
  <1>4. core \in Cores /\ observed \in Cores
    BY <1>1, <1>2, <1>3
  <1>5. inputs \in Seq(Reports)
    BY <1>3, EmptySeq DEF Init
  <1>6. /\ queue \in Commands /\ origin \in Leases /\ start \in Starts /\ lastInput \in Reports
        /\ taken \in [cmd : Commands, fault : BOOLEAN] /\ seen \in Epochs
    BY <1>3, NoneTypes DEF Init
  <1>7. /\ asked = 0 /\ fault = FALSE /\ busy = FALSE /\ phase = "idle" /\ sent = 0
        /\ air = FALSE /\ down = FALSE /\ starts = 0 /\ troubles = 0
    BY <1>3 DEF Init
  <1>8. QED
    BY <1>4, <1>5, <1>6, <1>7 DEF TypeInv, Phases

LEMMA TypesKept ==
    ASSUME TypeInv, Next
    PROVE  TypeInv'
  <1> USE DEF shared, host, vm
  <1>1. ASSUME NEW mode \in Modes, Ask(mode) PROVE TypeInv'
    <2>1. asked' \in Nat /\ queue' \in Commands
      <3>1. asked + 1 \in Nat \ {0}
        BY DEF TypeInv
      <3>2. QED
        BY <1>1, <3>1 DEF Ask, Commands
    <2>2. inputs' \in Seq(Reports) /\ origin' \in Leases
      BY <1>1, NoneTypes, EmptySeq DEF Ask
    <2>3. QED
      BY <1>1, <2>1, <2>2 DEF Ask, TypeInv
  <1>2. CASE Look
    <2>1. seen' \in Epochs
      BY <1>2, EpochType DEF Look, TypeInv
    <2>2. QED
      BY <1>2, <2>1 DEF Look, TypeInv
  <1>3. CASE Arm
    <2>1. Epoch(observed) \in Epochs /\ seen \in Epochs
      BY EpochType DEF TypeInv
    <2>2. [epoch |-> Epoch(observed), gesture |-> seen] \in Leases
      BY <2>1 DEF Leases
    <2>3. origin' \in Leases
      BY <1>3, <2>2, NoneTypes DEF Arm, Lease
    <2>4. QED
      BY <1>3, <2>3 DEF Arm, TypeInv
  <1>4. ASSUME NEW press \in BOOLEAN, Type(press) PROVE TypeInv'
    <2>1. CASE inputs' = Append(inputs, [lease |-> origin, down |-> press])
               /\ UNCHANGED <<fault, observed>> /\ Fine
      <3>1. [lease |-> origin, down |-> press] \in Reports
        BY DEF Reports, TypeInv
      <3>2. inputs' \in Seq(Reports)
        BY <2>1, <3>1, AppendProperties DEF TypeInv
      <3>3. QED
        BY <1>4, <2>1, <3>2 DEF Type, Fine, TypeInv
    <2>2. CASE Trouble /\ Latch
      <3>1. troubles' \in Nat
        BY <2>2, TroubleType DEF TypeInv
      <3>2. fault' \in BOOLEAN /\ observed' \in Cores /\ inputs' \in Seq(Reports)
        BY <2>2, LatchFacts, EmptySeq DEF TypeInv
      <3>3. QED
        BY <1>4, <3>1, <3>2 DEF Type, TypeInv
    <2>3. QED
      BY <1>4, <2>1, <2>2 DEF Type
  <1>5. CASE StartAdvertising
    <2>1. start' \in Starts
      BY <1>5, NoneTypes DEF StartAdvertising, NoStart, Starts
    <2>2. starts' \in Nat
      BY <1>5 DEF StartAdvertising, TypeInv
    <2>3. QED
      BY <1>5, <2>1, <2>2 DEF StartAdvertising, TypeInv
  <1>6. CASE StartReturns
    <2>1. start' \in Starts
      BY <1>6 DEF StartReturns, Starts, TypeInv
    <2>2. QED
      BY <1>6, <2>1 DEF StartReturns, TypeInv
  <1>7. CASE StartTimesOut
    <2>1. start' \in Starts
      BY <1>7 DEF StartTimesOut, Starts, TypeInv
    <2>2. QED
      BY <1>7, <2>1 DEF StartTimesOut, TypeInv
  <1>8. CASE Take
    <2>1. taken' \in [cmd : Commands, fault : BOOLEAN] /\ queue' \in Commands /\ busy' \in BOOLEAN
      BY <1>8, NoneTypes DEF Take, Busies, TypeInv
    <2>2. QED
      BY <1>8, <2>1 DEF Take, TypeInv, Phases
  <1>9. CASE Serve
    <2>1. core' \in Cores /\ air' \in BOOLEAN /\ troubles' \in Nat /\ phase' \in Phases
      BY <1>9, ServeFacts DEF Phases
    <2>2. inputs' \in Seq(Reports) /\ origin' \in Leases
      BY <1>9, ServeFacts, NoneTypes, EmptySeq DEF TypeInv
    <2>3. lastInput' \in Reports /\ down' \in BOOLEAN
      <3>1. PICK letgo \in BOOLEAN : /\ down' = (down /\ ~letgo)
                                     /\ lastInput' = [lastInput EXCEPT !.down = @ /\ ~letgo]
        BY <1>9 DEF Serve
      <3>2. QED
        BY <3>1 DEF TypeInv, Reports
    <2>4. UNCHANGED <<queue, asked, fault, busy, observed, start, taken, sent, rc, vm>>
      BY <1>9, ServeFacts
    <2>5. QED
      BY <2>1, <2>2, <2>3, <2>4 DEF TypeInv
  <1>10. CASE RawStart
    <2>1. troubles' \in Nat /\ air' \in BOOLEAN
      BY <1>10, TroubleType DEF RawStart, TypeInv
    <2>2. QED
      BY <1>10, <2>1 DEF RawStart, TypeInv, Phases
  <1>11. CASE CheckStart
    <2>1. core' \in Cores
      BY <1>11, CheckStartFacts, FailedFacts DEF TypeInv
    <2>2. QED
      BY <1>11, <2>1, CheckStartFacts DEF TypeInv, Phases
  <1>12. CASE FinishStart
    <2>1. start' \in Starts
      BY <1>12 DEF FinishStart, Starts, TypeInv
    <2>2. QED
      BY <1>12, <2>1 DEF FinishStart, TypeInv, Phases
  <1>13. CASE SendInput
    <2>1. inputs \in Seq(Reports) /\ inputs # <<>>
      BY <1>13, SendInputFacts DEF TypeInv
    <2>2. Tail(inputs) \in Seq(Reports) /\ Head(inputs) \in Reports
      BY <2>1, HeadTailProperties
    <2>3. Head(inputs).down \in BOOLEAN
      BY <2>2 DEF Reports
    <2>4. /\ inputs' \in Seq(Reports) /\ lastInput' \in Reports /\ down' \in BOOLEAN
          /\ sent' \in Nat
      <3>1. inputs' \in {Tail(inputs), <<>>} /\ sent' \in {sent + 1, InputsPerTick}
            /\ lastInput' \in {Head(inputs), lastInput} /\ down' \in {Head(inputs).down, down}
        BY <1>13, SendInputFacts
      <3>2. <<>> \in Seq(Reports) /\ sent + 1 \in Nat /\ InputsPerTick \in Nat
        BY EmptySeq, ConstantTypes DEF TypeInv
      <3>3. QED
        BY <2>2, <2>3, <3>1, <3>2 DEF TypeInv
    <2>5. core' \in Cores /\ air' \in BOOLEAN /\ origin' \in Leases
      BY <1>13, SendInputFacts, FailedFacts, NoneTypes DEF TypeInv
    <2>6. troubles' \in Nat
      BY <1>13, SendInputFacts, TroubleType DEF TypeInv
    <2>7. UNCHANGED <<queue, asked, fault, busy, observed, start, phase, taken, rc, vm>>
      BY <1>13, SendInputFacts
    <2>8. QED
      BY <2>4, <2>5, <2>6, <2>7 DEF TypeInv
  <1>14. CASE Publish
    BY <1>14 DEF Publish, TypeInv, Phases
  <1>15. CASE Rest
    BY <1>15, NoneTypes DEF Rest, TypeInv, Phases
  <1>16. CASE PublishEvent
    BY <1>16 DEF PublishEvent, TypeInv, Phases
  <1>17. CASE Connect
    <2>1. core' \in Cores
      <3>1. core \in Cores /\ core.conn + 1 \in Nat
        BY DEF TypeInv, Cores
      <3>2. QED
        BY <1>17, <3>1 DEF Connect, Cores
    <2>2. /\ phase' = "event" /\ inputs' = <<>> /\ origin' = NoLease /\ down' = FALSE /\ air' \in BOOLEAN
          /\ UNCHANGED <<queue, asked, fault, busy, observed, start, lastInput, taken, sent, rc, vm, troubles>>
      BY <1>17 DEF Connect, Happens, TypeInv
    <2>3. QED
      BY <2>1, <2>2, NoneTypes, EmptySeq DEF TypeInv, Phases
  <1>18. CASE Subscribe
    <2>1. core' \in Cores
      <3>1. core \in Cores /\ core.sub + 1 \in Nat /\ (~core.subbed) \in BOOLEAN
        BY DEF TypeInv, Cores
      <3>2. QED
        BY <1>18, <3>1 DEF Subscribe, Cores
    <2>2. /\ phase' = "event" /\ inputs' = <<>> /\ origin' = NoLease /\ down' = FALSE /\ air' \in BOOLEAN
          /\ UNCHANGED <<queue, asked, fault, busy, observed, start, lastInput, taken, sent, rc, vm, troubles>>
      BY <1>18 DEF Subscribe, Happens, TypeInv
    <2>3. QED
      BY <2>1, <2>2, NoneTypes, EmptySeq DEF TypeInv, Phases
  <1>19. CASE Disconnect
    <2>1. core' \in Cores
      <3>1. core \in Cores
        BY DEF TypeInv
      <3>2. QED
        BY <1>19, <3>1 DEF Disconnect, Cores
    <2>2. /\ phase' = "event" /\ inputs' = <<>> /\ origin' = NoLease /\ down' = FALSE /\ air' \in BOOLEAN
          /\ UNCHANGED <<queue, asked, fault, busy, observed, start, lastInput, taken, sent, rc, vm, troubles>>
      BY <1>19 DEF Disconnect, Happens, TypeInv
    <2>3. QED
      BY <2>1, <2>2, NoneTypes, EmptySeq DEF TypeInv, Phases
  <1>20. CASE StoreFails
    <2>1. troubles' \in Nat
      BY <1>20, TroubleType DEF StoreFails, TypeInv
    <2>2. fault' \in BOOLEAN /\ observed' \in Cores /\ inputs' \in Seq(Reports)
      BY <1>20, LatchFacts, EmptySeq DEF StoreFails, TypeInv
    <2>3. QED
      BY <1>20, <2>1, <2>2 DEF StoreFails, TypeInv
  <1>21. QED
    BY <1>1, <1>2, <1>3, <1>4, <1>5, <1>6, <1>7, <1>8, <1>9, <1>10, <1>11, <1>12, <1>13, <1>14, <1>15, <1>16,
       <1>17, <1>18, <1>19, <1>20 DEF Next, Service

-------------------------------------------------------------------------------
(* Where the last operation's number is. *)

(* The steps of the VM that ask for no operation and the events they share *)
(* their frame with: requests, core and service are left alone.            *)
LEMMA VmFrame ==
    ASSUME Look \/ Arm \/ StartAdvertising \/ StartReturns \/ StartTimesOut
    PROVE  UNCHANGED <<queue, asked, fault, busy, observed, inputs, core, lastInput, phase, taken, sent,
                       air, down, troubles>>
  BY DEF Look, Arm, StartAdvertising, StartReturns, StartTimesOut, shared, host, vm

LEMMA TypeFrame ==
    ASSUME TypeInv, NEW press \in BOOLEAN, Type(press)
    PROVE  /\ UNCHANGED <<queue, asked, busy, core, lastInput, phase, taken, sent, air, down, origin>>
           /\ observed'.op = observed.op /\ observed'.state = observed.state
           /\ \/ inputs' = <<>>
              \/ inputs' = Append(inputs, [lease |-> origin, down |-> press])
  BY LatchFacts DEF Type, TypeInv, host, vm

LEMMA StoreFrame ==
    ASSUME TypeInv, StoreFails
    PROVE  /\ UNCHANGED <<queue, asked, busy, core, lastInput, phase, taken, sent, air, down, origin>>
           /\ observed'.op = observed.op /\ observed'.state = observed.state /\ inputs' = <<>>
  BY LatchFacts DEF StoreFails, TypeInv, host, vm

(* The link's events: the core keeps its number, and takes no held key.    *)
LEMMA EventFacts ==
    ASSUME TypeInv, Connect \/ Subscribe \/ Disconnect
    PROVE  /\ phase = "idle" /\ phase' = "event" /\ inputs' = <<>> /\ origin' = NoLease /\ down' = FALSE
           /\ UNCHANGED <<queue, asked, fault, busy, observed, lastInput, taken, sent, rc>>
           /\ core'.op = core.op /\ core'.want = core.want /\ core'.filter = core.filter
           /\ \/ air' = FALSE /\ core'.link /\ core'.state = core.state
              \/ air' = air /\ core.link /\ core'.link = core.link /\ core'.state = core.state
              \/ air' = air /\ core.link /\ core'.state = IF core.state = "ERROR" THEN "ERROR" ELSE "SWITCHING"
  <1>1. core \in Cores
    BY DEF TypeInv
  <1>2. Happens
    BY DEF Connect, Subscribe, Disconnect
  <1>3. CASE Connect
    BY <1>1, <1>2, <1>3 DEF Connect, Happens, Cores
  <1>4. CASE Subscribe
    BY <1>1, <1>2, <1>4 DEF Subscribe, Happens, Cores
  <1>5. CASE Disconnect
    BY <1>1, <1>2, <1>5 DEF Disconnect, Happens, Cores
  <1>6. QED
    BY <1>3, <1>4, <1>5

LEMMA OrderKept ==
    ASSUME TypeInv, InOrder, Next
    PROVE  InOrder'
  <1>1. ASSUME NEW mode \in Modes, Ask(mode) PROVE InOrder'
    <2>1. queue' = [op |-> asked + 1, mode |-> mode] /\ asked' = asked + 1
          /\ UNCHANGED <<busy, taken, phase, core, observed>>
      BY <1>1 DEF Ask, host, vm
    <2>2. queue' # NoCmd /\ queue'.op = asked'
      BY <2>1 DEF NoCmd, TypeInv
    <2>3. QED
      BY <2>1, <2>2 DEF InOrder
  <1>2. CASE Look \/ Arm \/ StartAdvertising \/ StartReturns \/ StartTimesOut
    BY <1>2, VmFrame DEF InOrder
  <1>3. ASSUME NEW press \in BOOLEAN, Type(press) PROVE InOrder'
    BY <1>3, TypeFrame DEF InOrder
  <1>4. CASE StoreFails
    BY <1>4, StoreFrame DEF InOrder
  <1>5. CASE Take
    <2>1. /\ phase = "idle" /\ phase' = "taken" /\ queue' = NoCmd /\ taken'.cmd = queue
          /\ (queue # NoCmd => busy') /\ UNCHANGED <<asked, observed, core>>
      BY <1>5 DEF Take, Busies, vm
    <2>2. QED
      BY <2>1 DEF InOrder, NotTaken
  <1>6. CASE Serve
    <2>1. /\ phase = "taken" /\ phase' \in {"inputs", "start"}
          /\ core'.op = IF taken.cmd = NoCmd THEN core.op ELSE taken.cmd.op
          /\ UNCHANGED <<queue, asked, busy, observed, taken>>
      BY <1>6, ServeFacts
    <2>2. QED
      BY <2>1 DEF InOrder
  <1>7. CASE RawStart
    <2>1. phase = "start" /\ phase' = "check" /\ UNCHANGED <<queue, asked, busy, observed, taken, core>>
      BY <1>7 DEF RawStart, shared
    <2>2. QED
      BY <2>1 DEF InOrder
  <1>8. CASE CheckStart
    <2>1. /\ phase = "check" /\ phase' \in {"inputs", "finish"} /\ core'.op = core.op
          /\ UNCHANGED <<queue, asked, busy, observed, taken>>
      BY <1>8, CheckStartFacts, FailedFacts DEF TypeInv, shared
    <2>2. QED
      BY <2>1 DEF InOrder
  <1>9. CASE FinishStart
    <2>1. phase = "finish" /\ phase' = "inputs" /\ UNCHANGED <<queue, asked, busy, observed, taken, core>>
      BY <1>9 DEF FinishStart
    <2>2. QED
      BY <2>1 DEF InOrder
  <1>10. CASE SendInput
    <2>1. core'.op = core.op /\ UNCHANGED <<queue, asked, busy, observed, taken, phase>>
      BY <1>10, SendInputFacts, FailedFacts DEF TypeInv
    <2>2. QED
      BY <2>1 DEF InOrder
  <1>11. CASE Publish
    <2>1. phase = "inputs" /\ phase' = "published" /\ observed' = core
          /\ UNCHANGED <<queue, asked, busy, taken, core>>
      BY <1>11 DEF Publish
    <2>2. taken.cmd = NoCmd => core.op = observed.op
      BY DEF InOrder
    <2>3. taken.cmd # NoCmd => core.op = taken.cmd.op
      BY <2>1 DEF InOrder
    <2>4. QED
      BY <2>1, <2>2, <2>3 DEF InOrder
  <1>12. CASE Rest
    <2>1. phase = "published" /\ phase' = "idle" /\ taken' = NotTaken
          /\ UNCHANGED <<queue, asked, observed, core>>
      BY <1>12 DEF Rest
    <2>2. taken'.cmd = NoCmd
      BY <2>1 DEF NotTaken
    <2>3. observed.op = core.op /\ (taken.cmd # NoCmd => taken.cmd.op = core.op)
      BY <2>1 DEF InOrder
    <2>4. QED
      BY <2>1, <2>2, <2>3 DEF InOrder
  <1>13. CASE PublishEvent
    <2>1. phase = "event" /\ phase' = "idle" /\ observed' = core
          /\ UNCHANGED <<queue, asked, busy, taken, core>>
      BY <1>13 DEF PublishEvent
    <2>2. taken = NotTaken /\ taken.cmd = NoCmd /\ observed.op = core.op
      BY <2>1 DEF InOrder, NotTaken
    <2>3. QED
      BY <2>1, <2>2 DEF InOrder
  <1>14. CASE Connect \/ Subscribe \/ Disconnect
    <2>1. phase = "idle" /\ phase' = "event" /\ core'.op = core.op
          /\ UNCHANGED <<queue, asked, busy, observed, taken>>
      BY <1>14, EventFacts
    <2>2. QED
      BY <2>1 DEF InOrder
  <1>15. QED
    BY <1>1, <1>2, <1>3, <1>4, <1>5, <1>6, <1>7, <1>8, <1>9, <1>10, <1>11, <1>12, <1>13, <1>14 DEF Next, Service

-------------------------------------------------------------------------------
(* What the policy's state admits. *)

LEMMA AdmittedKept ==
    ASSUME TypeInv, Admitted, Next
    PROVE  Admitted'
  <1>0. core \in Cores /\ taken.cmd \in Commands
    BY DEF TypeInv
  <1>1. ASSUME NEW mode \in Modes, Ask(mode) PROVE Admitted'
    BY <1>1 DEF Ask, host, Admitted
  <1>2. CASE Look \/ Arm \/ StartAdvertising \/ StartReturns \/ StartTimesOut
    BY <1>2, VmFrame DEF Admitted
  <1>3. ASSUME NEW press \in BOOLEAN, Type(press) PROVE Admitted'
    BY <1>3, TypeFrame DEF Admitted
  <1>4. CASE StoreFails
    BY <1>4, StoreFrame DEF Admitted
  <1>5. CASE Take \/ FinishStart \/ Publish \/ Rest \/ PublishEvent
    BY <1>5 DEF Take, FinishStart, Publish, Rest, PublishEvent, Admitted
  <1>6. CASE Serve
    <2>1. /\ phase' \in {"inputs", "start"}
          /\ phase' = "start" => taken.cmd = NoCmd /\ core.state # "SWITCHING"
      BY <1>6, ServeFacts
    <2>2. CASE core'.state = "ERROR" /\ ~core'.filter
      BY <2>2 DEF Admitted
    <2>3. CASE ~air' /\ taken.cmd # NoCmd /\ core' = Ticked(Requested(core, taken.cmd))
      <3> DEFINE asks == Requested(core, taken.cmd)
      <3>1. asks \in Cores /\ asks.state = "SWITCHING" /\ ~asks.filter
        BY <1>0, <2>3, RequestedFacts
      <3> HIDE DEF asks
      <3>2. core' = Ticked(asks)
        BY <2>3 DEF asks
      <3>3. QED
        BY <2>1, <2>3, <3>1, <3>2, TickedFacts DEF Admitted
    <2>4. CASE core' = Ticked(Named(core)) /\ air' = air
      <3> DEFINE named == Named(core)
      <3>1. named \in Cores /\ named.want = core.want /\ named.state = core.state
            /\ named.filter = core.filter /\ named.link = core.link
        BY <1>0, NamedFacts
      <3> HIDE DEF named
      <3>2. core' = Ticked(named)
        BY <2>4 DEF named
      <3>3. QED
        BY <2>1, <2>4, <3>1, <3>2, TickedFacts DEF Admitted
    <2>5. QED
      BY <1>6, <2>2, <2>3, <2>4, ServeFacts
  <1>7. CASE RawStart
    <2>1. phase = "start" /\ phase' = "check" /\ core' = core
      BY <1>7 DEF RawStart
    <2>2. air' => air \/ AdvertisingAllowed(core)
      BY <1>7 DEF RawStart
    <2>3. AdvertisingAllowed(core) => core.state = "WAITING" /\ core.filter /\ ~core.link
      BY <1>0, <2>1 DEF AdvertisingAllowed, Admitted, Cores
    <2>4. QED
      BY <2>1, <2>2, <2>3 DEF Admitted
  <1>8. CASE CheckStart
    <2>1. phase' # "start" /\ (core' = core \/ core' = Failed(core)) /\ (air' => air)
      BY <1>8, CheckStartFacts
    <2>2. QED
      BY <1>0, <2>1, FailedFacts DEF Admitted
  <1>9. CASE SendInput
    <2>1. /\ phase = "inputs" /\ phase' = phase
          /\ \/ core' = core /\ air' = air
             \/ core' = Failed(core) /\ air' = FALSE
      BY <1>9, SendInputFacts
    <2>2. QED
      BY <1>0, <2>1, FailedFacts DEF Admitted
  <1>10. CASE Connect \/ Subscribe \/ Disconnect
    <2>1. /\ phase' = "event" /\ core'.want = core.want /\ core'.filter = core.filter
          /\ \/ air' = FALSE /\ core'.link /\ core'.state = core.state
             \/ air' = air /\ core.link /\ core'.link = core.link /\ core'.state = core.state
             \/ air' = air /\ core.link /\ core'.state = IF core.state = "ERROR" THEN "ERROR" ELSE "SWITCHING"
      BY <1>10, EventFacts
    <2>2. QED
      BY <2>1 DEF Admitted
  <1>11. QED
    BY <1>1, <1>2, <1>3, <1>4, <1>5, <1>6, <1>7, <1>8, <1>9, <1>10 DEF Next, Service

-------------------------------------------------------------------------------
(* A fault that was taken stays an error until it is shown. *)

LEMMA FaultyKept ==
    ASSUME TypeInv, InOrder, Faulty, Next
    PROVE  Faulty'
  <1>0. core \in Cores
    BY DEF TypeInv
  <1>1. ASSUME NEW mode \in Modes, Ask(mode) PROVE Faulty'
    BY <1>1 DEF Ask, host, Faulty
  <1>2. CASE Look \/ Arm \/ StartAdvertising \/ StartReturns \/ StartTimesOut
    BY <1>2, VmFrame DEF Faulty
  <1>3. ASSUME NEW press \in BOOLEAN, Type(press) PROVE Faulty'
    BY <1>3, TypeFrame DEF Faulty
  <1>4. CASE StoreFails
    BY <1>4, StoreFrame DEF Faulty
  <1>5. CASE Take
    BY <1>5 DEF Take, Faulty
  <1>6. CASE Serve
    <2>1. /\ phase' \in {"inputs", "start"} /\ (phase' = "start" => ~taken.fault) /\ taken' = taken
          /\ taken.fault => core'.state = "ERROR"
      BY <1>6, ServeFacts
    <2>2. QED
      BY <2>1 DEF Faulty
  <1>7. CASE RawStart \/ FinishStart
    BY <1>7 DEF RawStart, FinishStart, Faulty
  <1>8. CASE CheckStart
    <2>1. phase = "check" /\ phase' \in {"inputs", "finish"} /\ taken' = taken
      BY <1>8, CheckStartFacts
    <2>2. QED
      BY <2>1 DEF Faulty
  <1>9. CASE SendInput
    <2>1. phase = "inputs" /\ phase' = phase /\ taken' = taken /\ (core' = core \/ core' = Failed(core))
      BY <1>9, SendInputFacts
    <2>2. QED
      BY <1>0, <2>1, FailedFacts DEF Faulty
  <1>10. CASE Publish
    BY <1>10 DEF Publish, Faulty
  <1>11. CASE Rest \/ PublishEvent
    <2>1. ~taken'.fault /\ phase' = "idle"
      BY <1>11 DEF Rest, PublishEvent, InOrder, NotTaken
    <2>2. QED
      BY <2>1 DEF Faulty
  <1>12. CASE Connect \/ Subscribe \/ Disconnect
    <2>1. phase = "idle" /\ phase' = "event" /\ taken' = taken
      BY <1>12, EventFacts
    <2>2. QED
      BY <2>1 DEF Faulty
  <1>13. QED
    BY <1>1, <1>2, <1>3, <1>4, <1>5, <1>6, <1>7, <1>8, <1>9, <1>10, <1>11, <1>12 DEF Next, Service

-------------------------------------------------------------------------------
(* A lease was taken in the epoch it was meant for, a report keeps it.     *)

LEMMA LeasedKept ==
    ASSUME TypeInv, Leased, Next
    PROVE  Leased'
  <1>0. /\ NoLease.gesture = NoLease.epoch
        /\ inputs \in Seq(Reports)
    BY DEF NoLease, TypeInv
  <1>1. ASSUME NEW mode \in Modes, Ask(mode) PROVE Leased'
    <2>1. inputs' = <<>> /\ origin' = NoLease /\ lastInput' = lastInput
      BY <1>1 DEF Ask, host
    <2>2. QED
      BY <1>0, <2>1 DEF Leased
  <1>2. CASE Look \/ StartAdvertising \/ StartReturns \/ StartTimesOut
    BY <1>2 DEF Look, StartAdvertising, StartReturns, StartTimesOut, shared, host, Leased
  <1>3. CASE Arm
    <2>1. origin'.gesture = origin'.epoch
      BY <1>0, <1>3 DEF Arm, Lease
    <2>2. inputs' = inputs /\ lastInput' = lastInput
      BY <1>3 DEF Arm, host
    <2>3. QED
      BY <2>1, <2>2 DEF Leased
  <1>4. ASSUME NEW press \in BOOLEAN, Type(press) PROVE Leased'
    <2>1. origin' = origin /\ lastInput' = lastInput
      BY <1>4, TypeFrame
    <2>2. CASE inputs' = <<>>
      BY <2>1, <2>2 DEF Leased
    <2>3. CASE inputs' = Append(inputs, [lease |-> origin, down |-> press])
      <3>1. \A i \in 1..Len(inputs') : inputs'[i] = IF i \in 1..Len(inputs) THEN inputs[i]
                                                  ELSE [lease |-> origin, down |-> press]
        BY <1>0, <2>3
      <3>2. QED
        BY <2>1, <3>1 DEF Leased
    <2>4. QED
      BY <1>4, <2>2, <2>3, TypeFrame
  <1>5. CASE StoreFails
    <2>1. inputs' = <<>> /\ origin' = origin /\ lastInput' = lastInput
      BY <1>5, StoreFrame
    <2>2. QED
      BY <2>1 DEF Leased
  <1>6. CASE Take \/ RawStart \/ CheckStart \/ FinishStart \/ Publish \/ Rest \/ PublishEvent
    BY <1>6 DEF Take, RawStart, CheckStart, FinishStart, Publish, Rest, PublishEvent, shared, Leased
  <1>7. CASE Serve
    <2>1. lastInput'.lease = lastInput.lease
      <3>1. PICK letgo : lastInput' = [lastInput EXCEPT !.down = @ /\ ~letgo]
        BY <1>7 DEF Serve
      <3>2. QED
        BY <3>1 DEF TypeInv, Reports
    <2>2. \/ inputs' = <<>> /\ origin' = NoLease
          \/ inputs' = inputs /\ origin' = origin
      BY <1>7, ServeFacts
    <2>3. QED
      BY <1>0, <2>1, <2>2 DEF Leased
  <1>8. CASE SendInput
    <2>1. inputs # <<>>
      BY <1>8, SendInputFacts
    <2>2. /\ Head(inputs) = inputs[1] /\ 1 \in 1..Len(inputs)
          /\ \A i \in 1..Len(Tail(inputs)) : i + 1 \in 1..Len(inputs) /\ Tail(inputs)[i] = inputs[i + 1]
      BY <1>0, <2>1, HeadTailProperties
    <2>3. /\ \/ inputs' = Tail(inputs) /\ origin' = origin
             \/ inputs' = <<>> /\ origin' = NoLease
          /\ lastInput' \in {lastInput, Head(inputs)}
      BY <1>8, SendInputFacts
    <2>4. QED
      BY <1>0, <2>2, <2>3 DEF Leased
  <1>9. CASE Connect \/ Subscribe \/ Disconnect
    <2>1. inputs' = <<>> /\ origin' = NoLease /\ lastInput' = lastInput
      BY <1>9, EventFacts
    <2>2. QED
      BY <1>0, <2>1 DEF Leased
  <1>10. QED
    BY <1>1, <1>2, <1>3, <1>4, <1>5, <1>6, <1>7, <1>8, <1>9 DEF Next, Service

-------------------------------------------------------------------------------
(* A key the host holds down is the one that was last sent, or the link    *)
(* takes no input until the host subscribes anew.                          *)

LEMMA HeldKept ==
    ASSUME TypeInv, InOrder, Held, Next
    PROVE  Held'
  <1>0. core \in Cores /\ taken.cmd \in Commands /\ lastInput \in Reports
    BY DEF TypeInv
  <1>1. ASSUME UNCHANGED <<core, lastInput, down>> PROVE Held'
    BY <1>1 DEF Held, CurrentInput, InputAllowed, Epoch
  <1>2. ASSUME NEW mode \in Modes, Ask(mode) PROVE Held'
    BY <1>1, <1>2 DEF Ask, host
  <1>3. CASE Look \/ Arm \/ StartAdvertising \/ StartReturns \/ StartTimesOut
    BY <1>1, <1>3, VmFrame
  <1>4. ASSUME NEW press \in BOOLEAN, Type(press) PROVE Held'
    BY <1>1, <1>4, TypeFrame
  <1>5. CASE StoreFails
    BY <1>1, <1>5, StoreFrame
  <1>6. CASE Take \/ RawStart \/ FinishStart \/ Publish \/ Rest \/ PublishEvent
    BY <1>1, <1>6 DEF Take, RawStart, FinishStart, Publish, Rest, PublishEvent
  <1>7. CASE CheckStart
    <2>1. CASE core' = core
      BY <1>1, <1>7, <2>1 DEF CheckStart
    <2>2. CASE core' = Failed(core)
      BY <1>0, <2>2, FailedFacts DEF Held
    <2>3. QED
      BY <1>7, <2>1, <2>2, CheckStartFacts
  <1>8. CASE Serve
    <2>1. SUFFICES ASSUME down' PROVE (lastInput.down /\ CurrentInput(lastInput))' \/ (~core'.ready /\ ~core'.subbed)
      BY DEF Held
    <2>2. PICK letgo \in {(taken.fault \/ taken.cmd # NoCmd) /\ lastInput.down /\ CurrentInput(lastInput),
                          /\ (taken.fault \/ taken.cmd # NoCmd) /\ lastInput.down /\ CurrentInput(lastInput)
                          /\ troubles' = troubles} :
              down' = (down /\ ~letgo) /\ lastInput' = [lastInput EXCEPT !.down = @ /\ ~letgo]
      BY <1>8 DEF Serve, Releases
    <2>3. down /\ ~letgo /\ lastInput' = lastInput
      BY <1>0, <2>1, <2>2 DEF Reports
    <2>4. CASE ~core'.ready /\ ~core'.subbed
      BY <2>4
    <2>5. CASE ~core.ready /\ ~core.subbed
      <3>1. CASE core' = Ticked(Named(core))
        <4> DEFINE named == Named(core)
        <4>1. named \in Cores /\ ~named.ready /\ ~named.subbed
          BY <1>0, <2>5, NamedFacts
        <4> HIDE DEF named
        <4>2. core' = Ticked(named)
          BY <3>1 DEF named
        <4>3. QED
          BY <4>1, <4>2, TickedFacts
      <3>2. CASE taken.cmd # NoCmd /\ core' = Ticked(Requested(core, taken.cmd))
        <4> DEFINE asks == Requested(core, taken.cmd)
        <4>1. asks \in Cores /\ ~asks.ready /\ ~asks.subbed
          BY <1>0, <3>2, RequestedFacts
        <4> HIDE DEF asks
        <4>2. core' = Ticked(asks)
          BY <3>2 DEF asks
        <4>3. QED
          BY <4>1, <4>2, TickedFacts
      <3>3. QED
        BY <1>8, <2>4, <3>1, <3>2, ServeFacts
    <2>6. CASE lastInput.down /\ CurrentInput(lastInput)
      <3>1. CASE taken.cmd # NoCmd /\ core' = Ticked(Requested(core, taken.cmd)) /\ Fine
        BY <2>2, <2>3, <2>6, <3>1 DEF Fine
      <3>2. CASE core' = Ticked(Named(core)) /\ Fine
        <4>1. ~taken.fault /\ taken.cmd = NoCmd
          BY <2>2, <2>3, <2>6, <3>2 DEF Fine
        <4>2. Named(core) = core
          BY <1>0, <4>1, NamedFacts
        <4>3. core.state = "CONNECTED" /\ core.ready
          BY <2>6 DEF CurrentInput, InputAllowed
        <4>4. core' = core
          BY <1>0, <3>2, <4>2, <4>3, TickedFacts
        <4>5. QED
          BY <2>3, <2>6, <4>4 DEF CurrentInput, InputAllowed, Epoch
      <3>3. QED
        BY <1>8, <2>4, <3>1, <3>2, ServeFacts
    <2>7. QED
      BY <2>3, <2>5, <2>6 DEF Held
  <1>9. CASE SendInput
    <2>1. CASE core' = core /\ CurrentInput(Head(inputs)) /\ lastInput' = Head(inputs) /\ down' = Head(inputs).down
      BY <2>1 DEF Held, CurrentInput, InputAllowed, Epoch
    <2>2. CASE core' = Failed(core)
      BY <1>0, <2>2, FailedFacts DEF Held
    <2>3. QED
      BY <1>1, <1>9, <2>1, <2>2, SendInputFacts
  <1>10. CASE Connect \/ Subscribe \/ Disconnect
    BY <1>10, EventFacts DEF Held
  <1>11. QED
    BY <1>2, <1>3, <1>4, <1>5, <1>6, <1>7, <1>8, <1>9, <1>10 DEF Next, Service

-------------------------------------------------------------------------------
(* The bounds and the VM's start request, on top of the types.             *)
Bounded == TypeOK /\ (rc # "none" \/ phase = "finish" => starts > 0) /\ taken.cmd.op <= MaxOps

LEMMA BoundsKept ==
    ASSUME TypeInv, Bounded, Next
    PROVE  Bounded'
  <1> USE ConstantTypes DEF shared, host, vm
  <1>0. core \in Cores /\ taken.cmd \in Commands /\ start \in Starts /\ inputs \in Seq(Reports)
    BY DEF TypeInv
  <1>1. ASSUME NEW mode \in Modes, Ask(mode) PROVE Bounded'
    <2>1. queue' \in [op : 0..MaxOps, mode : Modes \cup {"none"}] /\ asked' \in 0..MaxOps
      <3>1. asked + 1 \in 0..MaxOps /\ mode \in Modes \cup {"none"}
        BY <1>1 DEF Ask, Bounded, TypeOK
      <3>2. QED
        BY <1>1, <3>1 DEF Ask
    <2>2. Len(inputs') <= InputCapacity
      BY <1>1, EmptySeq DEF Ask
    <2>3. QED
      BY <1>1, <2>1, <2>2 DEF Ask, Bounded, TypeOK
  <1>2. CASE Look \/ Arm
    BY <1>2 DEF Look, Arm, Bounded, TypeOK
  <1>3. ASSUME NEW press \in BOOLEAN, Type(press) PROVE Bounded'
    <2>1. Len(inputs') <= InputCapacity
      <3>1. CASE Fits /\ inputs' = Append(inputs, [lease |-> origin, down |-> press])
        BY <1>0, <3>1 DEF Fits
      <3>2. CASE inputs' = <<>>
        BY <3>2, EmptySeq
      <3>3. QED
        BY <1>3, <3>1, <3>2 DEF Type, Latch
    <2>2. UNCHANGED <<queue, asked, busy, core, taken, sent, rc, phase, start, told, starts>> /\ fault' \in BOOLEAN
      BY <1>3 DEF Type, Latch, TypeInv
    <2>3. QED
      BY <2>1, <2>2 DEF Bounded, TypeOK
  <1>4. CASE StartAdvertising
    <2>1. start'.active /\ ~start'.gone /\ starts' > 0
      BY <1>4 DEF StartAdvertising, NoStart, TypeInv
    <2>2. QED
      BY <1>4, <2>1 DEF StartAdvertising, Bounded, TypeOK
  <1>5. CASE StartReturns
    <2>1. ~start'.active /\ told' # "waiting"
      BY <1>0, <1>5 DEF StartReturns, Starts
    <2>2. QED
      BY <1>5, <2>1 DEF StartReturns, Bounded, TypeOK
  <1>6. CASE StartTimesOut
    <2>1. start'.active = start.active /\ ~start'.finished /\ told' = "timeout"
      BY <1>0, <1>6 DEF StartTimesOut, Starts
    <2>2. UNCHANGED <<queue, asked, fault, busy, inputs, core, taken, sent, rc, phase, starts>>
      BY <1>6 DEF StartTimesOut
    <2>3. QED
      BY <2>1, <2>2 DEF Bounded, TypeOK
  <1>7. CASE Take
    <2>1. queue' \in [op : 0..MaxOps, mode : Modes \cup {"none"}]
      <3>1. NoCmd \in [op : 0..MaxOps, mode : Modes \cup {"none"}]
        BY DEF NoCmd
      <3>2. QED
        BY <1>7, <3>1 DEF Take
    <2>2. taken'.cmd.op <= MaxOps
      BY <1>7 DEF Take, Bounded, TypeOK
    <2>3. fault' \in BOOLEAN /\ busy' \in BOOLEAN
      BY <1>7 DEF Take, Busies, TypeInv
    <2>4. QED
      BY <1>7, <2>1, <2>2, <2>3 DEF Take, Bounded, TypeOK
  <1>8. CASE Serve
    <2>1. core' \in Cores /\ core'.conn = core.conn /\ core'.sub = core.sub
          /\ inputs' \in {inputs, <<>>} /\ phase' # "finish"
          /\ UNCHANGED <<queue, asked, fault, busy, start, taken, sent, rc, vm>>
      BY <1>8, ServeFacts
    <2>2. Len(inputs') <= InputCapacity
      BY <2>1, EmptySeq DEF Bounded, TypeOK
    <2>3. QED
      BY <2>1, <2>2 DEF Bounded, TypeOK, Cores
  <1>9. CASE RawStart
    BY <1>0, <1>9 DEF RawStart, Bounded, TypeOK
  <1>10. CASE CheckStart
    <2>1. core' \in Cores /\ core'.conn = core.conn /\ core'.sub = core.sub
      BY <1>0, <1>10, CheckStartFacts, FailedFacts
    <2>2. rc' # "none" \/ phase' = "finish" => rc # "none"
      BY <1>10 DEF CheckStart
    <2>3. QED
      BY <1>10, <2>1, <2>2, CheckStartFacts DEF Bounded, TypeOK, Cores
  <1>11. CASE FinishStart
    <2>1. start'.active = ~start.gone /\ start'.gone = start.gone
      BY <1>0, <1>11 DEF FinishStart, Starts
    <2>2. starts > 0 /\ phase' = "inputs" /\ rc' = "none"
      BY <1>11 DEF FinishStart, Bounded
    <2>3. UNCHANGED <<queue, asked, fault, busy, inputs, core, taken, sent, vm>>
      BY <1>11 DEF FinishStart
    <2>4. QED
      BY <2>1, <2>2, <2>3 DEF Bounded, TypeOK
  <1>12. CASE SendInput
    <2>1. inputs # <<>> /\ sent < InputsPerTick /\ sent \in Nat
      BY <1>12, SendInputFacts DEF TypeInv
    <2>2. Len(Tail(inputs)) <= InputCapacity
      BY <1>0, <2>1, HeadTailProperties DEF Bounded, TypeOK
    <2>3. inputs' \in {Tail(inputs), <<>>} /\ sent' \in {sent + 1, InputsPerTick}
      BY <1>12, SendInputFacts
    <2>4. Len(inputs') <= InputCapacity /\ sent' \in 0..InputsPerTick
      BY <2>1, <2>2, <2>3, EmptySeq
    <2>5. core' \in Cores /\ core'.conn = core.conn /\ core'.sub = core.sub
      BY <1>0, <1>12, SendInputFacts, FailedFacts
    <2>6. QED
      BY <1>12, <2>4, <2>5, SendInputFacts DEF Bounded, TypeOK, Cores
  <1>13. CASE Publish \/ PublishEvent
    BY <1>13 DEF Publish, PublishEvent, Bounded, TypeOK
  <1>14. CASE Rest
    <2>1. /\ phase' = "idle" /\ busy' = FALSE /\ sent' = 0 /\ taken' = NotTaken
          /\ UNCHANGED <<queue, asked, fault, inputs, start, core, rc, vm>>
      BY <1>14 DEF Rest
    <2>2. taken'.cmd.op <= MaxOps /\ sent' \in 0..InputsPerTick
      BY <2>1 DEF NotTaken, NoCmd
    <2>3. QED
      BY <2>1, <2>2 DEF Bounded, TypeOK
  <1>15. CASE Connect \/ Subscribe \/ Disconnect
    <2>1. core' \in Cores
      BY <1>15, TypesKept DEF Next, TypeInv
    <2>2. core'.conn <= MaxLinks /\ core'.sub <= MaxSubs
      <3>1. core.conn \in Nat /\ core.sub \in Nat /\ core.conn <= MaxLinks /\ core.sub <= MaxSubs
        BY <1>0 DEF Cores, Bounded, TypeOK
      <3>2. CASE Connect
        <4>1. core'.conn = core.conn + 1 /\ core'.sub = core.sub /\ core.conn < MaxLinks
          BY <1>0, <3>2 DEF Connect, Cores
        <4>2. QED
          BY <3>1, <4>1
      <3>3. CASE Subscribe
        <4>1. core'.conn = core.conn /\ core'.sub = core.sub + 1 /\ core.sub < MaxSubs
          BY <1>0, <3>3 DEF Subscribe, Cores
        <4>2. QED
          BY <3>1, <4>1
      <3>4. CASE Disconnect
        BY <1>0, <3>1, <3>4 DEF Disconnect, Cores
      <3>5. QED
        BY <1>15, <3>2, <3>3, <3>4
    <2>3. inputs' = <<>> /\ phase' = "event" /\ UNCHANGED <<queue, asked, fault, busy, start, taken, sent, rc, vm>>
      BY <1>15 DEF Connect, Subscribe, Disconnect, Happens
    <2>4. Len(inputs') <= InputCapacity
      BY <2>3, EmptySeq
    <2>5. QED
      BY <2>1, <2>2, <2>3, <2>4 DEF Bounded, TypeOK, Cores
  <1>16. CASE StoreFails
    <2>1. inputs' = <<>> /\ fault' \in BOOLEAN /\ UNCHANGED <<queue, asked, busy, start, host, vm>>
      BY <1>16 DEF StoreFails, Latch
    <2>2. Len(inputs') <= InputCapacity
      BY <2>1, EmptySeq
    <2>3. QED
      BY <2>1, <2>2 DEF Bounded, TypeOK
  <1>17. QED
    BY <1>1, <1>2, <1>3, <1>4, <1>5, <1>6, <1>7, <1>8, <1>9, <1>10, <1>11, <1>12, <1>13, <1>14, <1>15, <1>16
       DEF Next, Service

-------------------------------------------------------------------------------
(* The invariant. *)

LEMMA InitInvariant == Init => IInv /\ Bounded
  <1>1. SUFFICES ASSUME Init PROVE IInv /\ Bounded
    OBVIOUS
  <1>2. TypeInv
    BY <1>1, InitTypes
  <1>3. InOrder
    BY <1>1 DEF Init, InOrder, NotTaken
  <1>4. Admitted
    BY <1>1 DEF Init, Admitted
  <1>5. Faulty
    BY <1>1 DEF Init, Faulty, NotTaken
  <1>6. Leased
    BY <1>1, EmptySeq DEF Init, Leased, NoLease, NoReport
  <1>7. Held
    BY <1>1 DEF Init, Held
  <1>8. Bounded
    <2>1. queue \in [op : 0..MaxOps, mode : Modes \cup {"none"}]
      BY <1>1, ConstantTypes DEF Init, NoCmd
    <2>2. Len(inputs) <= InputCapacity
      BY <1>1, ConstantTypes, EmptySeq DEF Init
    <2>3. taken.cmd.op <= MaxOps /\ ~start.active /\ ~start.gone
      BY <1>1, ConstantTypes DEF Init, NotTaken, NoCmd, NoStart
    <2>4. /\ core.state = "SWITCHING" /\ core.conn = 0 /\ core.sub = 0 /\ phase = "idle" /\ rc = "none"
          /\ told = "none" /\ asked = 0 /\ sent = 0 /\ fault = FALSE /\ busy = FALSE
      BY <1>1 DEF Init
    <2>5. asked \in 0..MaxOps /\ sent \in 0..InputsPerTick /\ core.conn <= MaxLinks /\ core.sub <= MaxSubs
      BY <2>4, ConstantTypes
    <2>6. TypeOK
      BY <2>1, <2>2, <2>3, <2>4, <2>5 DEF TypeOK
    <2>7. QED
      BY <2>3, <2>4, <2>6 DEF Bounded
  <1>9. QED
    BY <1>2, <1>3, <1>4, <1>5, <1>6, <1>7, <1>8 DEF IInv

LEMMA StepInvariant == IInv /\ Bounded /\ [Next]_vars => (IInv /\ Bounded)'
  <1>1. ASSUME IInv, Bounded, Next PROVE (IInv /\ Bounded)'
    BY <1>1, TypesKept, OrderKept, AdmittedKept, FaultyKept, LeasedKept, HeldKept, BoundsKept DEF IInv
  <1>2. ASSUME IInv, Bounded, UNCHANGED vars PROVE (IInv /\ Bounded)'
    BY <1>2 DEF vars, shared, host, vm, IInv, TypeInv, InOrder, Admitted, Faulty, Leased, Held, Bounded, TypeOK,
                CurrentInput, InputAllowed, Epoch
  <1>3. QED
    BY <1>1, <1>2

THEOREM Invariance == Spec => [](IInv /\ Bounded)
  BY InitInvariant, StepInvariant, PTL DEF Spec

(* Every state has the types of HostPort, within its bounds: the input     *)
(* queue never outgrows its ring and a tick never sends more than it may.  *)
THEOREM TypeCorrect == Spec => []TypeOK
  <1>1. IInv /\ Bounded => TypeOK
    BY DEF Bounded
  <1>2. QED
    BY <1>1, Invariance, PTL

(* A status that does not read as a switch is about the last operation,    *)
(* wherever the two threads are.                                           *)
THEOREM SettledSafe == Spec => []SettledIsLast
  <1>1. IInv /\ Bounded => SettledIsLast
    <2> SUFFICES ASSUME IInv, queue = NoCmd, ~busy PROVE observed.op = asked
      BY DEF SettledIsLast
    <2>1. taken.cmd = NoCmd
      BY DEF IInv, InOrder
    <2>2. QED
      BY <2>1 DEF IInv, InOrder
  <1>2. QED
    BY <1>1, Invariance, PTL

(* A fault that was latched while a request waited is not lost: the status *)
(* that ends the tick is an error.                                         *)
THEOREM FaultShown == Spec => []FaultIsShown
  <1>1. IInv /\ Bounded => FaultIsShown
    BY DEF IInv, Faulty, FaultIsShown
  <1>2. QED
    BY <1>1, Invariance, PTL

(* Outside an error the controller advertises only while the policy waits  *)
(* for a host, in the windows between the host task's critical sections    *)
(* as well.                                                                *)
THEOREM AirSafe == Spec => []AirIsAdmitted
  <1>1. IInv /\ Bounded => AirIsAdmitted
    BY DEF IInv, Admitted, AirIsAdmitted
  <1>2. QED
    BY <1>1, Invariance, PTL

(* No request leaves the host with a key down that its release did not     *)
(* find.                                                                   *)
THEOREM HeldSafe == Spec => []HeldIsCurrent
  <1>1. IInv /\ Bounded => HeldIsCurrent
    BY DEF IInv, Held, HeldIsCurrent, InputAllowed
  <1>2. QED
    BY <1>1, Invariance, PTL

(* A report goes out in the epoch its gesture was meant for: the queue may *)
(* hold reports of other epochs, and the host task drops them.             *)
THEOREM SendSafe == Spec => SentWhereArmed
  <1>1. IInv /\ Bounded /\ [Next]_vars =>
        [lastInput' # lastInput => lastInput'.lease.gesture = Epoch(core) /\ InputAllowed(core)]_vars
    <2> SUFFICES ASSUME IInv, Next, lastInput' # lastInput
                 PROVE  lastInput'.lease.gesture = Epoch(core) /\ InputAllowed(core)
      OBVIOUS
    <2>1. lastInput \in Reports /\ inputs \in Seq(Reports) /\ Leased
      BY DEF IInv, TypeInv
    <2>2. CASE Serve
      <3>1. PICK letgo \in {(taken.fault \/ taken.cmd # NoCmd) /\ lastInput.down /\ CurrentInput(lastInput),
                            /\ (taken.fault \/ taken.cmd # NoCmd) /\ lastInput.down /\ CurrentInput(lastInput)
                            /\ troubles' = troubles} :
                lastInput' = [lastInput EXCEPT !.down = @ /\ ~letgo]
        BY <2>2 DEF Serve, Releases
      <3>2. letgo
        BY <2>1, <3>1 DEF Reports
      <3>3. CurrentInput(lastInput)
        BY <3>1, <3>2
      <3>4. lastInput'.lease = lastInput.lease
        BY <2>1, <3>1 DEF Reports
      <3>5. QED
        BY <2>1, <3>3, <3>4 DEF CurrentInput, Leased
    <2>3. CASE SendInput
      <3>1. CurrentInput(Head(inputs)) /\ lastInput' = Head(inputs) /\ inputs # <<>>
        BY <2>3, SendInputFacts DEF IInv
      <3>2. Head(inputs) = inputs[1] /\ 1 \in 1..Len(inputs)
        BY <2>1, <3>1, HeadTailProperties
      <3>3. QED
        BY <2>1, <3>1, <3>2 DEF CurrentInput, Leased
    <2>4. CASE Look \/ Arm \/ StartAdvertising \/ StartReturns \/ StartTimesOut
      BY <2>4, VmFrame
    <2>5. CASE (\E mode \in Modes : Ask(mode)) \/ (\E press \in BOOLEAN : Type(press)) \/ StoreFails
      BY <2>5 DEF Ask, Type, StoreFails, host
    <2>6. CASE Take \/ RawStart \/ CheckStart \/ FinishStart \/ Publish \/ Rest \/ PublishEvent
      BY <2>6 DEF Take, RawStart, CheckStart, FinishStart, Publish, Rest, PublishEvent
    <2>7. CASE Connect \/ Subscribe \/ Disconnect
      BY <2>7 DEF Connect, Subscribe, Disconnect, Happens
    <2>8. QED
      BY <2>2, <2>3, <2>4, <2>5, <2>6, <2>7 DEF Next, Service
  <1>2. QED
    BY <1>1, Invariance, PTL DEF Spec, SentWhereArmed

-------------------------------------------------------------------------------
(* The two threads implement the mailbox: a step of theirs asks, begins,   *)
(* shows or ends an operation, or leaves all four numbers alone.           *)

THEOREM Implementation == Spec => ImplementsMailbox
  <1>1. Init => Mailbox!Init
    BY DEF Init, Mailbox!Init, NoCmd, NotTaken
  <1>2. IInv /\ [Next]_vars => [Mailbox!Next]_(Mailbox!vars)
    <2> DEFINE Same == UNCHANGED <<asked, queue.op, taken.cmd.op, observed.op>>
    <2>0. SUFFICES ASSUME IInv, Next PROVE Mailbox!Next \/ Same
      BY DEF vars, shared, host, Mailbox!vars
    <2>1. /\ TypeInv /\ InOrder /\ queue \in Commands /\ taken.cmd \in Commands
          /\ NoCmd.op = 0 /\ NotTaken.cmd = NoCmd
      BY <2>0 DEF IInv, TypeInv, NoCmd, NotTaken
    <2>2. ASSUME NEW mode \in Modes, Ask(mode) PROVE Mailbox!Next
      <3>1. /\ queue.op = 0 \/ mode = "PAUSED"
            /\ asked' = asked + 1 /\ queue'.op = asked + 1 /\ UNCHANGED <<taken, observed>>
        BY <2>1, <2>2 DEF Ask, host
      <3>2. Mailbox!Ask(mode = "PAUSED")
        BY <3>1 DEF Mailbox!Ask
      <3>3. QED
        BY <3>2 DEF Mailbox!Next
    <2>3. CASE Take
      <3>1. taken.cmd = NoCmd /\ taken'.cmd = queue /\ queue' = NoCmd /\ UNCHANGED <<asked, observed>>
        BY <2>1, <2>3 DEF Take, InOrder
      <3>2. CASE queue = NoCmd
        BY <2>1, <3>1, <3>2
      <3>3. CASE queue # NoCmd
        <4>1. queue.op # 0
          BY <2>1, <3>3 DEF Commands
        <4>2. Mailbox!Begin
          BY <2>1, <3>1, <4>1 DEF Mailbox!Begin
        <4>3. QED
          BY <4>2 DEF Mailbox!Next
      <3>4. QED
        BY <3>2, <3>3
    <2>4. CASE Publish
      <3>1. phase = "inputs" /\ observed' = core /\ UNCHANGED <<asked, queue, taken>>
        BY <2>4 DEF Publish
      <3>2. CASE taken.cmd = NoCmd
        BY <2>1, <3>1, <3>2 DEF InOrder
      <3>3. CASE taken.cmd # NoCmd
        <4>1. taken.cmd.op # 0
          BY <2>1, <3>3 DEF Commands
        <4>2. core.op = taken.cmd.op
          BY <2>1, <3>1, <3>3 DEF InOrder
        <4>3. Mailbox!Show
          BY <3>1, <4>1, <4>2 DEF Mailbox!Show
        <4>4. QED
          BY <4>3 DEF Mailbox!Next
      <3>4. QED
        BY <3>2, <3>3
    <2>5. CASE Rest
      <3>1. phase = "published" /\ taken' = NotTaken /\ UNCHANGED <<asked, queue, observed>>
        BY <2>5 DEF Rest
      <3>2. CASE taken.cmd = NoCmd
        BY <2>1, <3>1, <3>2
      <3>3. CASE taken.cmd # NoCmd
        <4>1. taken.cmd.op # 0
          BY <2>1, <3>3 DEF Commands
        <4>2. observed.op = taken.cmd.op
          BY <2>1, <3>1, <3>3 DEF InOrder
        <4>3. Mailbox!End
          BY <2>1, <3>1, <4>1, <4>2 DEF Mailbox!End
        <4>4. QED
          BY <4>3 DEF Mailbox!Next
      <3>4. QED
        BY <3>2, <3>3
    <2>6. CASE PublishEvent
      <3>1. phase = "event" /\ observed' = core /\ UNCHANGED <<asked, queue, taken>>
        BY <2>6 DEF PublishEvent
      <3>2. observed.op = core.op
        BY <2>1, <3>1 DEF InOrder
      <3>3. QED
        BY <3>1, <3>2
    <2>7. CASE Look \/ Arm \/ StartAdvertising \/ StartReturns \/ StartTimesOut
      BY <2>7, VmFrame
    <2>8. ASSUME NEW press \in BOOLEAN, Type(press) PROVE Same
      BY <2>1, <2>8, TypeFrame
    <2>9. CASE StoreFails
      BY <2>1, <2>9, StoreFrame
    <2>10. CASE Serve
      BY <2>1, <2>10, ServeFacts
    <2>11. CASE RawStart \/ CheckStart \/ FinishStart \/ SendInput
      BY <2>11 DEF RawStart, CheckStart, FinishStart, SendInput, shared
    <2>12. CASE Connect \/ Subscribe \/ Disconnect
      BY <2>12 DEF Connect, Subscribe, Disconnect, Happens
    <2>13. QED
      BY <2>0, <2>2, <2>3, <2>4, <2>5, <2>6, <2>7, <2>8, <2>9, <2>10, <2>11, <2>12 DEF Next, Service
  <1>3. QED
    BY <1>1, <1>2, Invariance, PTL DEF Spec, ImplementsMailbox, Mailbox!Spec

===============================================================================

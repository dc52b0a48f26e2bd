# Verification of the BM83 controller, its CrowPanel remote and the Universe badge

This directory holds TLA+ models of the program in this repository: what is modelled, what TLC
checks on small instances, and what TLAPS proves for every value of the constants.

## 1. The system

Three computers and their peers:

* the **controller** (ESP32-S3, CircuitPython; `firmware/circuitpython`) drives the Microchip BM83
  Bluetooth audio module over UART, a Nextion display over UART, and is a BLE HID volume keyboard;
* the **CrowPanel remote** (ESP32, C++; `firmware/crowpanel-remote`) talks to it over ESP-NOW;
* the **Universe badge** app (MicroPython; `addons/universe-badge`) talks to it over UDP;
* computers and phones are BLE hosts of the keyboard and A2DP/AVRCP peers of the BM83; desktop
  helpers (`tools/`) run on some of them.

A native C component of the CircuitPython runtime (`tools/circuitpython-runtime/native`) decides
which computer may hold the volume connection: the *host policy*.

### Inventory

| Component | State it keeps | Operations | Talks to | What is hard | What makes it correct |
|---|---|---|---|---|---|
| Host-policy core (`HostPolicyCore.c`) | requested and applied mode, target, link handle and generation, candidate, proof flags, durable blob | init, request, alias, tick, connect, identity, security, subscribe, disconnect, reject, store check, fail | its backend: NVS blob, accept list, advertiser, `ble_gap_terminate` | late events of an old link, any backend call failing halfway, torn writes, enrollment race between two computers, re-entry | input only to the durably selected, proved host; a link without admission is being ended; flash agrees with what is reported |
| Host-policy port (`HostPolicy.c`) | request slot, advertising waiter, input ring, latched fault, published status | service run on a 100 ms timer, NimBLE event dispatch, store guards, VM calls | core, NimBLE, NVS, CircuitPython VM | VM task against host task, 200 ms waits, a fault latched under the store lock | one answer per operation, no report queued for an old selection, no record written for an intent already replaced |
| Native owner (`blehid/host_policy.py`) | last snapshot, in-flight operation, armed input | request, alias, tick, arm_input | port | stale snapshot against native state | arms only what the port still allows |
| Legacy keyboard (`blehid/ble.py`) | handoff, erase and advertising state machines, connections | request_pause, request_enable, request_erase_bonds, tick | `_bleio` | new connections during a pause, erase steps, a 5 s deadline | a confirmed pause leaves no link and no advertising |
| BM83 link (`bm83/bm83.py`) | power state, link state, AVRCP suspension, relink, notification registrations, recovery timers | poll, commands, ticks | UART, main loop | events of two profiles in any order, silent module, power pulse retries | a suspended profile resumes or the link is given up; no command to a module that is off |
| Main loop (`main.py`) | AUX fallback, pending display and remote work | one pass per iteration | all of the controller | shared time budget, one failing part | one part's fault never stops the loop |
| ESP-NOW receiver (`remote/espnow_rx.py`) | recent sequences, send slot, receiver health | poll, accept, send, recover | radio, remote | repeated tokens, restarts of either side, receiver stall | a token fires at most once |
| Host-policy publisher (`remote/host_policy.py`) | challenges, retained completions | request_host, tick | port owner, remote | repeated and replayed requests, replaced generations | one operation per request, same answer to a repeat |
| Now Playing publisher (`remote/state_tx.py`) | source observations, frames of the snapshot in flight | set/note_*, tick | remote | changes while a snapshot is in flight, source clocks that stall | a frame sequence never mixes two snapshots; an old sample never looks new |
| BLE status publisher (`remote/ble_status.py`) | last status, sequence | tick | remote | pacing next to snapshots | monotonic per session |
| Badge server (`remote/badge_remote.py`, `badge_hosts.py`) | sessions, last answer per client, held keys | hello, command, poll | main loop, badge | UDP loss and repetition, eviction | at most once per sequence, held keys are released |
| Mac bridge receiver (`remote/metadata_bridge.py`) | session, sequence, lease | poll | main loop | replay, several sessions | no older packet replaces a newer one |
| Nextion display (`nextion/display.py`) | receive framer, bounded outbound queue | poll, set | main loop | partial frames | stale text is not sent after newer text |
| CrowPanel ESP-NOW sender (`espnow_link.cpp`) | sequence, wait flags, channel, receive ring | send_token, hop, rescan, suspend | radio callbacks | a late send callback, ring overflow | a retry cannot double-fire |
| CrowPanel decoders (`now_playing.h`, `ble_status.h`, `ble_host_policy.h`) | committed snapshot, assembly, retired sessions, freshness | accept, fresh, position | ESP-NOW ring, UI | loss, repetition, reordering, sequence wrap, controller restart | only complete newer snapshots are shown; nothing stale looks fresh |
| CrowPanel host control (`ble_host_policy.h` Control, `ble_host_ui.cpp`) | handshake, outstanding request | request, tick, on_status | decoder, sender | retries against retained answers | one user action, at most one operation |
| CrowPanel network recovery (`network_recovery_policy.h`, `network_setup.cpp`) | recovery budget, sweep, trial target | tick, trial, commit, abort | radio, settings | trial against user, sleep and timeout | bounded automatic attempts; a failed trial restores the last good target |
| CrowPanel volume (`volume_adjustment.h`) | remaining steps, deadline | request, direction_due, on_sent, cancel | nobody: only its tests include it | a send outcome after a cancel | never more steps than asked |
| CrowPanel Windows launcher (`windows_launch.cpp`) | event id, last nonce, state | request, handle_poll | desktop helper over UDP | replay, expiry | one launch per event, opened only on a genuine answer |
| CrowPanel artwork (`artwork.cpp`) | job, generation, result slot | request, poll, worker task | network, UI task | the track changes while a job runs | an image belongs to the current track |
| Badge app (`addons/.../transport.py`) | pending transaction, held keys | hello, send, poll | server | retries, controller restart | a release follows every press |
| Desktop helpers (`tools/*.py`) | last event | poll, act | controller, CrowPanel | repeated answers | one launch per event |

`PROJECT.json` lists these parts with their status, and the hazards of the code line by line.

## 2. Host policy: `HostPolicyCore`, `HostPolicy`, `HostPolicyProofs`

`HostPolicyCore` translates `HostPolicyCore.c`: every handler is an operator from the record of the
core (`hp_core_t` together with what the handler writes through its backend: the flash blob, the
accept list, whether the controller advertises) to the next record. All handlers run on the NimBLE
host task, one at a time, so a handler is one atomic step; what may go wrong *inside* one is its
backend calls, and the record `io` chosen by the environment names the call that fails, the fate of
the PAUSED record that `hp_fail` writes, and the answer of `ble_gap_terminate`. A write can be
*lost* or *torn* (it reached flash although its readback failed). Because a handler that fails goes
through `hp_fail` and returns, one failing call per handler covers the code's error paths.

`HostPolicy` composes the core with its callers in `HostPolicy.c`: the service run of the 100 ms
timer (`RequestStep`, `AliasStep`, `FaultStep`, `FaultedRequestStep`, `TickStep` with the
advertising start or report the same run serves), the NimBLE callbacks (`ConnectStep` ...
`DisconnectStep`), the bond-store guards (`StoreKeyStep`, `StoreCccdStep`), the restart of the stack
and power cycles (`SyncStep`, `BootStep`). The radio keeps the link that is really up (`link`) and
the disconnect events not yet delivered (`lost`), so a link can be gone before the core hears of
it, a host can come back on the same handle, and `ble_gap_terminate` can find no link.

Abstractions: an identity address and its 64-bit label are one value (the core compares the full
address beside the label); `Rpa` stands for every address `hp_normalize` refuses; aliases,
checksums, error codes and countdowns are left out; time is whether the enrollment deadline has
passed. The request slot, the input ring and the VM's waits are in `HostPort` (section 3).

Runs:

* `host_policy`: two competing computers (symmetric), one operation per boot and any number of
  boots, two links per boot, every backend failure. One operation is enough for each safety
  property's interesting case because a power cycle resumes AUTO from flash, so a boot may hold a
  resumed connection *and* a new intent; two links let the event of the first meet the second.
* `host_policy_live`: `UnadmittedLinkEnds` under fairness, one computer (two without symmetry, which
  liveness does not allow, take too long): a link without admission goes or its termination is
  reported as refused, and an enrollment window closes.

Fairness (`FairSpec`): the policy timer re-arms itself in `policy_timer_event`, so the tick is
weakly fair, before and after the enrollment deadline; a link that has been told to end does end,
by itself or by supervision timeout; NimBLE delivers the disconnect event it owes. Nothing is
assumed of owners, hosts, computers or faults.

Proofs (`HostPolicyProofs`, all checked by TLAPS for any sets of hosts and any bounds): `IInv` is
inductive (`Invariance`) and implies every state invariant the runs check. Its parts: `LinkCoherent`
(a link without admission is exactly a terminating one), `IntentCoherent` (unless closed by an
error, the core works under the intent in flash), `ProofCoherent` (readiness was proved for the
address the link has), `AdvertiseCoherent` (advertising under the applied mode's accept list),
`WindowCoherent` (what an open enrollment window added belongs to its latched candidate) and
`RadioCoherent` (the core's link is the radio's, and no event is owed for its generation). The
strengthening is needed because the safety properties speak of the permission at one instant, while
what keeps them is how the flags were set: e.g. `InputOnlyToSelected` needs to know that
`hid_ready` was proved for the present address and that the blob in RAM is the blob in flash.
The assumptions are `HostAssumption` (the sentinels are not hosts) and `PeerAssumption`.

The second half of the module proves the two action properties for the same parameters. All operations but
three only take from the core (`Kept`: no new link, no new mode but PAUSED, an error stays), and
that relation is transitive, so an operation made of several calls has it too. The three others are
the admission of a mode (`Applied`), which finds no link, the promotion of a newcomer (`Chosen`) and
the identity report. `ErrorSafe` follows directly; its property `ErrorNeedsIntent` exempts a step that brings
another operation, so that a request does not erase a fault latched in the same tick is `FaultIsShown`,
which the run of section 3 checks. `NewcomerSafe` needs one more invariant,
`Outsider`: the stable address of a link that an enrollment window still admits is none of those
the window found in the store. `hp_connect` and `hp_identity` establish it, a rejection gives it up
and at the same time takes the subscription without which nothing is promoted (`LinkCoherent`).

Only model-checked: the liveness property, which is out of the prover's reach. Proved only, checked
by no run: the invariants themselves and `NewcomerUnique`.

## 3. The port of the policy: `HostMailbox`, `HostPort`, `HostPortProofs`

`HostPolicy.c` connects two threads: the CircuitPython VM (`Ask`, `Look`, `Arm`, `Type`,
`StartAdvertising` and its wait of 200 ms) and the NimBLE host task (`service()` on the 100 ms timer,
cut at every critical section: `Take`, `Serve`, `RawStart`, `CheckStart`, `FinishStart`, `SendInput`,
`Publish`, `Rest`; link events; store guards). What `policy_mux` protects is `shared`; the rest belongs
to one thread. So every order in which the two threads can enter their critical sections is a
behaviour. An *epoch* is the operation, connection and subscription a report is labelled with. A lease
also keeps the epoch the VM *meant* when it armed, as history, so that "sent where it was meant" can be
said.

Abstractions: the core is cut down to PAUSED and AUTO for one host (section 2 has all of it); the
policy's own generation changes with an operation; a second advertising start is refused while one
is active, so its token never differs; popping and submitting are one step each. Left out: lost store
guards and a failing timer (both are the fault `Latch` that another step also raises), the sync and
disabled states, and background tasks that the VM runs while it waits.

`HostMailbox` is the abstract specification: operations are numbered, one may wait while another is
served, only a pause replaces the one that waits, and the status is about an operation that is being
served until it ends. `ImplementsMailbox` is the refinement: `last`, `waiting`, `serving` and `shown`
are the last number given, the number in the slot, the number taken and the number published.

* `host_port`: two operations, one connection with two changes of subscription, two starts, one
  failure, a ring of two reports served one per tick (so the ring overflows and a report waits for
  the next tick). `FaultIsShown` is the meeting of a latched fault and a waiting request in one service run:
  the fault is what the VM sees. `FairSpec` is weak fairness of the service: the timer re-arms itself and
  NimBLE runs. `Served`: every request comes to an answer, its own or a later one's.

`HostPortProofs` proves, for every capacity and every bound, `Implementation` (initial states and
every step), `SendSafe`, `HeldSafe`, `FaultShown`, and three facts no run needs to check again:
`TypeCorrect` (the ring never overflows), `SettledSafe` and `AirSafe`. The invariant `IInv` has the parts
`InOrder` (a taken operation is older than a waiting one, and the core's is the last that was taken),
`Admitted` (advertising goes with admission between any two critical sections), `Faulty` (a latched
fault cannot be forgotten by the tick that took another), `Leased` (a queued report's lease was good when
it was queued, so comparing its numbers again is enough), `Held` and `Bounded`. `Served` is liveness and
stays with TLC.

## 4. Now Playing: `NowPlayingWire`, `StatePublisher`, `NowPlayingModel`, `NowPlayingLink`, `EspNowProofs`

`StatePublisher` is the controller's publisher (`state_tx.py`) as operators on one record: a source
observation, the deadline of the snapshot in flight, the numbering, what a queued, refused or
unencodable frame leaves behind. `NowPlayingModel` is the panel's decoder (`now_playing.h`):
`accept()` with its guards as named conditions (`Wanted`, `Begins`, `Joins`, `Resyncs`), the commit
and the latched expiry. `NowPlayingLink` composes the two with the ESP-NOW channel and the panel's
16-frame ring, which drops its oldest frame.

Abstractions: a snapshot's content is a value that fixes its number of fragments (`Count`); the
frame header (size, CRC, count) stands for the content it describes; clocks are ages in whole units.
A snapshot has an unbounded `number` of which the wire carries the residue (`WireSeq`); `MaxNumber`
folds it onto a number the wire cannot tell from it. The decoder keeps the pieces it has collected,
so that "whole" can be stated.

Assumptions on the channel: a frame is delayed by less than the freshness time (`Transit < Fresh`:
milliseconds against 6 s); frames of one boot overtake each other in any way, and so may the frames of
the boot the panel shows and of the one it showed before; but the frames of a boot that was *never* shown,
or was shown two boots ago, do not come after those of a later boot (`Deliverable`), because booting the
controller takes seconds. Without it a late first fragment of such a boot would take over the display and
retire the living session; the decoder remembers one retired session only.

Assumptions on the sequence (`SequenceAssumption`): a number comes round only after every frame and every
assembly that knew its last use is gone, that is, what the gap admits in `Fresh + Deadline + Transit` (25
frames a second for less than 14 s) is less than the sequence space (65 536) the disturbance has left; and the
snapshots of a disturbed session stay within half the space (nine hours of one snapshot a second), the
half serial-number arithmetic can order. An instance whose `MaxNumber` is `Modulus` needs no first part: two
numbers that share a sequence are then the same number.

* `now_playing`: two boots, contents of one and two fragments and auxiliary frames between them, a
  sequence of four values with snapshots numbered up to four, so that a loss long enough to pass
  the half window happens, two frames in flight, one disturbance of each kind. It checks all four
  properties under `FairSpec`, weak fairness of the publisher's tick, of delivery and of time:
  both main loops run and ESP-NOW delivers what the radio received. `CalmDown` ends the disturbance;
  from then on no frame is lost, reordered or refused and nothing restarts. `Repaired` says that
  then, whatever happened before, the panel comes to show the present source and stays with it. It
  needs the resynchronization in `accept()`: after the sequence has run away by half its space every
  new snapshot would look old. `FreshIsRecent` relates the age the panel shows to when the content
  was true at its source; `NeverBackward` compares each committed snapshot with the one before.

`EspNowProofs` proves `SnapshotIsWhole`, `FreshIsRecent` and `NeverBackward` for any constants that meet the
assumptions; `Repaired` stays with TLC. Read off the decoder alone none of them is inductive. `PathInv` says of the
publisher `t`, the air `w` and the decoder `r`:

* every snapshot on the air or under assembly is one `t` or an earlier boot has numbered (`Named`), no frame is
  older than its flight plus the deadline (`FrameOK`), and frames are in the order of their boots (`InBootOrder`);
* the pieces of an assembly were cut from the snapshot it names, none twice (`Collected`), so that as many
  pieces as the content has are all of them (`FullIsWhole`, by the pigeonhole principle);
* a fragment joins an assembly by sequence, session and content, and the wire has only the residue of the number: that
  it is a fragment of *that* snapshot is `NumbersMeet`. It needs `Unwrapped`: as long as a number that can come round
  again is in use anywhere (`Live`, with the greatest age it can reach), the publisher has spent no more numbers since
  than the gap admitted in that time;
* what is shown as fresh is younger than its age on display, the deadline and the flight together (`Recent`);
* while the link is disturbed, nothing on the air or under assembly is behind the display, except frames of the
  session retired last, and frames older than the last commit (`Ahead`). This carries `NeverBackward` through the
  resynchronization: it takes an expired display, and every frame that could still go back is by then gone.

The invariant was checked by TLC on the run's instance and on ones whose numbers exceed the sequence space. The
attempt found that the channel was too free: `Deliverable` used to admit frames of any earlier boot behind those of
the boot shown, and with three boots a frame of the first then took the display from the third. Two boots cannot show
it, and the run's states are the same with the narrower condition.

## 5. Tokens: `TokenLink`, `EspNowProofs`

The CrowPanel's `espnow_send_token` with its four attempts, its 60 ms wait and the callback that
says how a send ended but not which (`espnow_link.cpp`), and the controller's `poll`/`accept` with the
native receive ring, the list of recent sequences, the error back-off and the rebuild of a damaged
ring (`espnow_rx.py`). Sequences restart with the remote, so a token is named by its boot too.

`send_once` stops waiting after 60 ms while the driver may still transmit, so a frame handed over joins
`flying` and stays there until the driver reports it sent, at most `Flight`. While it is there it lands (`Land`) never,
once or again, before or behind frames of newer tokens: the case `espnow_rx.py:53-55` and
`test_late_retry_after_a_newer_frame_is_dropped` name. The report comes with either outcome whatever landed, and
to whichever attempt is waiting (`OnSent`). Time passes in units that cover all attempts of one token (4 waits and
3 gaps, about 0.3 s); the window is longer than the attempts, the flight and the main loop's longest stall
together, and rebooting the remote takes longer than window and stall (`TokenAssumption`). A frame that left on
another channel is a lost attempt, so channel discovery is not represented. `history` is ghost state: which tokens
were executed before a pause, held over one or dropped without having been executed, and how many others were
executed since each.

* `token_link`: two boots of the remote with two tokens of two attempts each, two remembered sequences, all
  error kinds, a flight, a stall and a back-off of one unit, a ring of one frame (it drops what comes while it is
  full; frames pass each other in the air). With one remembered sequence, the receiver that test calls a bug, the
  run fails: this is the mutant (`NotesLast`). `ExecutedOnce` is the at-most-once guarantee the code really gives. It
  excuses a token over a pause and a token that `MaxRecent` others followed ("human-rate taps never approach it in
  2 s", `espnow_rx.py:56`), and nothing else; in the run two tokens of a boot never overrun the memory, so evictions
  are met by the proof. `DropsOnlyRepeats` says that a token dropped without having been executed shares its sequence
  with a token of an earlier boot that a pause held, so no press is swallowed after a reboot otherwise.

`EspNowProofs` proves both for any number of presses, boots, attempts and remembered sequences and any order of
landing, from `TokenAssumption` alone. Neither is inductive. `TokenInv` adds where the memory keeps a token: its
entry is as far from the newest as tokens were executed since, so it is there until `MaxRecent` of them were; and
its age is bounded by what the sender counts while the token is under way, the driver while a frame flies and
the receiver while the ring is not empty, each handing its count to the next (`Known`). Of order only the boots are
left: the ring holds no frame of a boot behind one of a later boot (`Sequenced`). For a reboot, a frame that
outlived its boot was either held by a pause or came to the ring less than a stall before the remote's first
press (`Lasting`), and an entry names such a token (`Traceable`); this is where the boot being longer than
window and stall is used.

## 6. BM83: `Bm83`, `Bm83Link`, `BluetoothProofs`

`Bm83` is the driver's state and what `main.py` keeps about it as one record, and one operator per
routine: `Parsed` for the part of `poll()` that acts on a frame, `NotedBtm` for `note_btm_state`,
`Handled` for the main loop's branch, the power commands and ticks. `HandledBatch` keeps the order of
the code: `poll()` parses *every* frame of a batch, and only then does the main loop handle the first
one. `Bm83Link` puts the module (external) and the UART at the other end.

BTM_Status codes are named by their meaning: 0x06 `a2dp_up`, 0x0B `avrcp_up`, 0x82 `src_a2dp` (each a
connected state), 0x00 `off`, 0x08 `a2dp_down`, 0x0C `avrcp_down`, 0x0F `standby`, 0x11 `acl_down`,
0x15 `acl_up`, 0x80 and 0x81 `src_none` and `src_aux`; `ready` stands for every other code (0x02,
0x03 and so on) and 0x64 to 0x66 behave as 0x06. An AVRCP response is one event of any content. Three timers
have a length in units of time, because properties depend on their order: the age of the last
evidence, the teardown debounce and the suspension; they stop at the value where they are due. The
press, release and confirmation times, the registration gaps and the silence timeout may run out at
any moment after they started, which covers every length. Left out: metadata requests and their
throttles, fragment reassembly, the equalizer, gain steps, the stream kick
(`stream_kick_enabled` is off by default), the boot handshake, the probe's miss counter and
Command_ACKs, which prove nothing and only reset that counter.

Assumptions on the module: its reports arrive in order and undamaged (a frame with a bad checksum is
skipped by the parser); after its
OFF report it may still send what it was answering, but it is dead and that has been read before
anybody presses the button again. Without this last assumption, which human reaction time gives,
a press would clear the OFF latch and a late answer would prove a dead module on.

* `bm83_link`: up to two unread reports, so that every pair shares a batch; the sources AUX and A2DP;
  hold and suspension of one unit, one registration per session (three in the code). A module that loses its power without a report is left out of this run: the controller
  has no means of knowing, and `PowerInPhase` would not be about the code. `AuxIsLive` speaks of a
  source announced since the module booted; until then a cached AUX of the previous power cycle may
  be shown. Fairness is that of the main loop's steps and of time: `main.py` calls each of them in
  every iteration, so reports are read and the probe is sent, which a running module with an AVRCP
  session answers. The module and the user owe nothing; both parts of `TeardownSettles` (a suspension ends, a
  torn down link is reported up again or given up) allow a reconnect report as the other way out. The probe is strongly fair because a full UART, which
  disables it, is a bound of the model. `Heals` needs the probe and the relink in `poll()`.

`BluetoothProofs` proves `PowerInPhase` and `AuxIsLive` for every hold, suspension and number of
registrations, any number of unread reports, batches of any length and any set of sources. Neither is
inductive: both speak of an empty UART, and a batch passes through states in which they do not hold of
what has been handled. `IInv` says of the reports that are still to come what makes them right in the
end. `InPhase`: a module that is not on has its OFF among them, with nothing after it that a dying or
dead module could not send, or the driver knows already and holds the OFF latch (or, when a press has
cleared it, no answer is on its way). `Sourced`: the announced source is the last one among them, or
none is and the driver has it, or has forgotten another one than AUX. `Mid` adds what a batch needs: a
link that a response restored while the batch was parsed (`relinked`) is younger than any that the
fast path gives up, and its response is still to be handled. `BatchKeeps` carries `Mid` through the two
passes of `HandledBatch`. This is an induction over a batch, made without an induction rule: the least
step at which `Mid` fails would be preceded by one at which it holds (`Least`). The only assumptions are
`HoldAssumption` and `LinkAssumption`, that what the module reports are audio sources, besides what
is said of the module above, which is in its actions.
## 7. Badge commands: `BadgeLink`, `BadgeLinkProofs`

The badge's `Remote` (`transport.py`) and the controller's `BadgeRemote` (`badge_remote.py`) over UDP.
The badge keeps one transaction in flight, a queue of keys and a queue of volume gestures; the first
gesture goes before everything else, its press first and its release when the button is up. `Step` is
one call of `step()`: the offline drop, at most one reply that takes effect, giving up, stalling and
the next transaction; `HelloExpires` is its early return. The controller keeps four sessions in LRU
order with their last sequence and its refusal, and a ledger of the nonces of this boot;
`HandleHello`, `HandleStray` and `HandleCommand` are the branches of `_handle`. A press that runs starts
the hold of `main.py`, its release ends it.

Abstractions: the network of each direction holds the last `InFlight` datagrams, each of which may
arrive any number of times, in any order, or never. So a retry of the same datagram is its repeated
arrival, and timers (150 ms, 600 ms, 1 s) are choices: giving up, expiring and the periodic `STATUS`
may come at any time. Every key other than the volume buttons behaves alike up to being refused, so
the run uses the refused one; a refusal stands for `NET_RETRY` and the bond erase of a profile without
permission. Client numbers are not reused by a later boot (the code draws a 24-bit start), units and
nonces are unique. Host commands and the BLE echo of a reply are left to `HostControl`. The hold's own
limit of 6.65 s is left out, so a hold that only this limit would end is a violation, not a success.

* `badge_link`: one volume button and one refused key, two user actions, sessions of two commands, two
  hellos of this badge and one of another, one session and two handshakes per boot (so that eviction
  and an exhausted ledger happen), two boots, one rehello survived. `RunsOnce`
  (each action at most once, and a delayed press never starts a hold after its release ran),
  `AnswersAreTrue` (also for a repeat after a lost reply) and `ReleaseIsOwed` (the releases the badge
  will still send are those of the presses it sent, over drops, give-ups, rehellos and HOME).
* `StalledEnds` needs fairness: a datagram repeated until it is answered arrives (weak fairness of its
  handling), and an answer sent again and again arrives (strong fairness, since other answers may
  push it out of the network). The badge repeats a stalled release every second for ever, and the
  controller answers a repeat each time. Only the release is repeated for ever; no
  such promise is made of other commands.

`BadgeLinkProofs` proves the three safety properties from `BadgeAssumption` alone, for any buttons, keys, room,
numbers of actions, sequences, sessions, handshakes, boots, rehellos and datagrams in flight. None is inductive:
`RunsOnce` speaks of what has run, but what keeps it is where else a copy of the same command may still be.
`Good` says that, as a function of the badge, the controller, the log and the *sets* of requests and replies that
may still arrive, and every part of it says less of fewer datagrams. So the network, which loses one when it is full,
needs one lemma (`LossKeeps`), and a step is a change of one side plus one more datagram. Its parts:
`Sessions` (a client number is given once; the session a rehello names never comes back), `Nonces` and `Opening`
(a session that a late welcome can still begin is unused), `Numbered` (in a session a number stands for one command,
none ahead of the badge's), `Queues` and `Once` (an action is queued, or is one command, and once it ran its number is
spent), `Truthful` (the answers on their way and the table's refusals are true), `Holding` (a release is behind its
press in one session, or that session is gone, so a delayed press cannot start a hold after it), `Owed` (only the
first gesture is pressed) and `Bounded`. Where a step is made of several (`Received`, the drop, then `Transact`), each
part is a lemma on the badge's record, so `Step` is proved by putting them together.

## 8. Host control: `HostOwner`, `HostPublisher`, `HostPanel`, `HostControl`, `HostControlProofs`

From a button on the panel to the policy and back. `HostOwner` is the CircuitPython owner
(`blehid/host_policy.py`) over a one-slot queue, an observed status and a list of saved hosts;
`HostPublisher` is the controller's end of the protocol (`remote/host_policy.py`); `HostPanel` is the
panel's decoder and its `Control` (`ble_host_policy.h`, `ble_host_ui.cpp`). Each is a record and one
operator per method. `HostControl` composes them with the main loop of the controller (`TakeRequest`
and `LoopTail` are its two ends, in the order of `main.py`), the radio, the badge that asks for hosts
as well, and the policy's own steps.

Abstractions: the policy is cut to the states a client can tell apart (sections 2 and 3 have the rest);
a link is counted once it is encrypted and subscribed; a packet arrives whole or not at all, since a
decoder that misses a fragment never completes it; age limits may pass, and a periodic packet may be
due, at any time; serial numbers, operations and generations do not wrap and go on counting over a
restart (they are compared within one boot only). Left out: retired sessions, the panel's `LIST` through
`begin`, the comparisons of the connection's generation, and the input reports themselves.

* `host_control`: two computers, one of them saved, two requests, five packets, a queue of two and all
  four operations. The panel has a session when it starts. `MaxFaults` bounds *all* disturbances
  together, and one of them already reaches every property's mutant: any one lost, delayed or
  repeated packet, passed deadline, restart of either end, failing read, request of the badge, or
  failure of the policy, at any point. Two of them at a time are too many states for a run of this size.
  `StartsOnce` speaks of a whole history of both ends; `ConfirmedIsOwn` relates the panel's word to the
  operation that was carried out and to who asked for it; `OfferedWasSaved` relates two packets
  that travel apart to the policy at the generation they name.
* `host_loop` shows the divergence of section 13: one failing read at the wrong moment ends the main
  loop.

The radio may lose any frame, deliver it late or twice, and bring frames of one boot of the panel in any
order; it does not bring a frame of an earlier boot once the panel, restarted, has sent again
(`RadioRepeats`). ESP-NOW has no router that could keep a frame that long; what is already in the
controller's queue when the panel restarts stays there, and is served. Without this assumption
`StartsOnce` does not hold: see the observations.

Proofs (`HostControlProofs`, for any hosts, any numbers of requests, packets and bond generations, any
queue and any combination of faults): `IInv` is inductive (`ControlInvariant`). It is a function `Good` of the
policy, the owner, the publisher, the panel, the commands ever sent and the queue, so that each step is
the composition of lemmas that change one or two of them. Its parts follow a request:

* `Numbered` and `Ordered`: a pair of client and request names one command, none is ahead of the panel's
  counters, and the queue holds the panel's boots in order, none older than the client admitted;
* `Once`: no two operations of the policy come from one request, and a command of this session that was
  taken up is not ahead of the request the publisher has on record. This is what the comparison with
  `_last_request` needs and a test hardly reaches: the record is of *one* client, so a repeated command of an
  earlier one must be refused by its client number alone;
* `Told`: while the publisher follows a request, the owner's request in hand or expected operation is that
  request, whoever else (the badge) asked for something meanwhile; a status packet under way that names
  a request and an operation names the operation of that request;
* `Shown`: the panel's status and list are such packets, a list is the policy's at the generation it names,
  and what the panel waits for was really sent;
* `Policy` and `Owning`: a status, wherever it is held, was true of the policy once, so if it shows its
  operation carried out the policy has it on record (`Seen`). Everything a client holds stays true as the
  policy goes on (`Grows`).

`RequestsRunOnce` (`StartsOnce`) and `OffersAreSaved` (`OfferedWasSaved`) are read off the invariant;
`ConfirmationsAreOwn` (`ConfirmedIsOwn`) is an action property: the lemma `TickTells` shows it of a tick of
the panel over any status that is honest, and only a tick sets such a result. The assumptions are
`OwnerAssumption` and `ControlAssumption`. `IInv` was checked by TLC first, on the instance of
`host_control` and on simulated runs with seven faults. `LoopSurvives` is no theorem: the code does not have it.

## 9. The legacy keyboard: `BleHid`

`ble.py`, for a runtime without the native policy: the user pauses, enables and wipes while the radio
connects and drops computers by itself. `Tick` is one `tick()`, through whichever stage it is in; the
first radio call that fails in it is named by `trouble`. `BluetoothProofs` proves
`WipeIsSafe` for any bounds. It extends `Bm83Link` too, so the specification is called `BleSpec` here.

Abstractions: every check reads the radio anew (the code reads `connected` each time), so a computer
that connects during a tick is one that connects right after it; the settle time, the pause's deadline,
the back-off and the cool-down have passed or not. The cool-down of 30 s is longer than the settle times
of a wipe, so it does not pass during one; without this a second wipe could be asked for in the
middle of the first. `under` remembers that a computer may have answered the last advertisement
before it stopped, which is how a link can come up after `_stop_adv`. Setup succeeded; pairing is only
observed and reports are left out.

* `ble_hid`: two of the eight links a pause may end (so that the limit is reached), three connections,
  two wipes, two failing calls, one power cycle. `WipeIsSafe`: the bonds are
  wiped only without a link, for a request that no pause came after, and under a name no computer has
  seen since power-on, also when the counter file cannot be read or written. `PauseSettles` and
  `Reachable` are liveness; the fairness is that of the main loop, which ticks every iteration, and
  of time. Computers and users owe nothing.

## 10. Network setup: `NetworkRecovery`, `NetworkSetup`, `NetworkSetupProofs`

`NetworkRecovery` is `network_recovery_policy.h`: when a saved network may be joined again without the
user, how often, which receipts count after a hop, when to listen elsewhere. `NetworkSetup` is
`network_setup.cpp` and its part of `main.cpp`: a profile is saved as pending, sent to the host (with
its password, so the artwork worker is paused first), applied on trial, and committed or called off,
by the host, the user or time, while the committed network is lost and joined again. `Loop` is one
pass of the main loop: what was received, one line of the host, the whole tick in its order, the
hop. Ages are counted in units and stop where they no longer matter.

Abstractions: a profile is a name, of which `Works` are accepted by the access point; lines are their
command and nonce; one line is answered at a time, as the code's single transmit buffer does; the
worker's pause is "running", "stopping" or "idle". An association of an old profile may
outlast the start of a trial, so an address proves nothing by itself. Left out: the text protocol,
the scan list and widgets, a store that fails other than at the commit, and `WindowsLaunch`.

* `network_setup`: two profiles of one site (the second one a typo), all times one unit but the trial's
  two, one automatic attempt, one nonce, two saves. `FailedStaysFailed`: a session the host was told is over is never committed. `CommitsWhatWorked`: the
  committed profile is the one the host was sent for this nonce and that the access point accepted.
  `BudgetIsEarned`: automatic attempts come back only after a link that held with a fresh peer.
  `NeverStranded`: a saved network is on, asked for, on trial or paused with a way back.

No liveness here: a pass of the loop composes some ten routines over nondeterministic inputs, and
the enabledness conditions of its fairness multiply that once more; `NeverStranded` is the safety half of
what would be said.

`NetworkSetupProofs` proves the run's four properties for any profiles, nonces, attempts and times, and with
them `SecretNeedsQuiet`, `ClaimHasAnEnd` and `UncommittedOnTrial`. No property is inductive; `IInv` says what
each of the routines relies on:

* `OnTrial`, `Concluded`: a trial is of the profile the host was sent under `applyN`; a nonce is applied
  once; after FAILED or ABORTED no trial is up any more, so that a late commit finds nothing to save;
* `Joining`: an address belongs to the join under way (an older association was asked for another
  profile), and after every routine a saved network is on, due, on trial or paused;
* `Wired`: with a password in the transmit buffer the worker is idle and its pause is claimed;
* `Earned`: while the policy is connected and fresh, one of its two times (since it connected, since it heard
  the peer) is covered by the time the log saw a link that held; both are needed to give the attempts back.

A pass is ten routines one after the other, and in the middle of it only `Core` holds (`Joining` is
restored at the end). What may happen to the budget and to the committed profile on the way is the relation
`Keeps`, `Answers` or `Spends`, one lemma per routine; their composition is `PassStep`, from which
`CommitsWhatWorked` and `BudgetIsEarned` follow. The one assumption beyond the ranges of the constants is
that "none" names neither a profile nor a nonce.

## 11. Artwork: `Artwork`, `ArtworkProofs`

The artwork worker of `artwork.cpp` and the user interface that asks for covers (`main.cpp`) are two
FreeRTOS tasks. A step is a critical section under `result_mux`, a queue call or a file operation on the
card: what a task does after it left the lock is a step of its own (`AfterLock`, `Publish`), and so is
mounting the card (`Mount`), the look into the cache (`Look`) and each file operation (`Store`). `Reset` may
come between any two.

A `plan` is the sequence of file operations still to do. A file is opened under a temporary name, which leaves
that file torn (`"torn"`) until it is filled; then the old file of its own name is dropped, for FAT
renames only to a free name, and the temporary one takes the name with whatever it holds
(`Filled`, `Applied`). Any operation may fail: a short write leaves the temporary file torn, is noticed
and the file removed; an open, a drop or a rename that fails ends the plan; nobody looks whether an eviction
succeeded (`AfterFailure`). A reset keeps the card and the temporary file; the next mount removes
temporary files and covers without metadata, as far as it can.

Abstractions: a cover is its track, one cache key each; pixels are named buffers, whose contents are kept
in `heap` so that "shows the right cover" can be said; the network's answer is any outcome, and a cached cover
may fail to be read, decoded or allocated for any job; sleep and credential export take the same pause.
Only the temporary file that was opened last is kept: one that an earlier plan left is cut when it is
opened again, and nothing renames it before. What `write()` reports written is on the card once the file is closed;
the code looks at neither the flush nor the close (section 13).

* `artwork`: two tracks, three buffers (one per owner), a cache of one entry (so that every second cover
  evicts one), request numbers to four: a request, a second one that supersedes it, and a pause with its
  resumption, after which the track is asked for again. A fifth number would only add a
  third request. `ShownIsAsked`, `OwnedOnce`, `NoTornCover` (its mutant ignores a short write); `Answered`
  under weak fairness of the main task's request and poll and of the worker: the main loop asks
  and polls every pass, and FreeRTOS schedules both. A pause may last for ever and the network
  may go on failing; "retry" is an answer.

`ArtworkProofs` proves the three safety properties and `QuietWhilePaused` for any tracks, buffers, cache
size and bound. None of them is inductive. `IInv` says of everything on its way that it is about the present: a job or an
answer that carries the present number is about the present track (`JobsAreTimely`,
`AnswersAreTruthful`); what is shown has the number of the last request or an older one
(`ScreenIsCurrent`); a buffer is in use exactly if one of three owners has it (`Owned`); and a worker that was
reported idle is between jobs (`PauseIsQuiet`, which needs that `busy` goes with the worker's place in its
code). `CoverSafe` has an invariant of its own, `CardIsWhole`: no file that has its own name is torn, and
(`NamesWhole`) every rename of what is left of the plan comes two steps after its write, or the write is
done and the temporary file is whole. A plan begins so whatever is evicted before it (`Fresh`, which concatenation
keeps), every operation done keeps it, and what is left after one failed either has no rename or
is the rest of the evictions. `Answered` is liveness and stays with TLC.

## 12. Plan

| Step | Modules | Composes | Runs | Proved |
|---|---|---|---|---|
| done | `HostPolicyCore`, `HostPolicy` | core with its NimBLE-side callers | `host_policy`, `host_policy_live` | its safety, `HostPolicyProofs` |
| done | `HostMailbox`, `HostPort` | VM and host task around a small core | `host_port` | refinement and safety, `HostPortProofs` |
| done | `NowPlayingWire`, `StatePublisher`, `NowPlayingModel`, `NowPlayingLink` | publisher, channel, decoder | `now_playing` | its safety, `EspNowProofs` |
| done | `TokenLink` | sender, ring, receiver | `token_link` | its safety, `EspNowProofs` |
| done | `Bm83`, `Bm83Link` | driver, main loop, module, UART | `bm83_link` | its safety, `BluetoothProofs` |
| done | `BadgeLink` | badge, UDP, sessions, hold | `badge_link` | its safety, `BadgeLinkProofs` |
| done | `HostOwner`, `HostPublisher`, `HostPanel`, `HostControl` | owner, protocol, panel, main loop | `host_control`, `host_loop` | its safety, `HostControlProofs` |
| done | `BleHid` | keyboard and radio | `ble_hid` | its safety, `BluetoothProofs` |
| done | `NetworkRecovery`, `NetworkSetup` | policy, setup, host, worker's pause | `network_setup` | its safety, `NetworkSetupProofs` |
| done | `Artwork` | two tasks, card | `artwork` | its safety, `ArtworkProofs` |

Each component has one run: its safety and, where it has any, its liveness together under the fair
specification, so that the whole set can be repeated quickly. What would come next, by weight:

1. the AVRCP metadata scheduler of `bm83.py` (`schedule_attrs`, `defer_attrs`, `tick_avrcp_attrs`):
   throttles and a pending track change against a suspension;
2. `WindowsLaunch` and the Mac bridge receiver: one launch per event, no replay across leases;
3. the BLE status publisher and decoder (the same scheme as Now Playing with one frame), the Nextion
   framer, the link probe and the artwork's own join of the network.

## 13. Findings

`host_policy.py:257` of `lib/remote` says "A host-control failure must not stop the media and UART
loop." `request_host()` catches what it calls; `tick()` does not: `list_payload()` (:132, called at :328)
raises `ValueError` when the owner's list and status are of different generations. They come to differ
when `validate_input()` (`blehid/host_policy.py:197`) stores a newer status without its list and the next
tick's read raises (:160). Run `host_loop`.

### Observations

Met while modelling; no run shows them, because a run shows what holds of the component as a whole:

* `HOST-POLICY-API.md:139` says a failed request attempts to persist PAUSED; a refused termination sets
  `HP_ERROR` in `terminate_once` (`HostPolicyCore.c:114`) without `hp_fail` and leaves AUTO in flash.
* `espnow_link.cpp:43` says "a retry can never double-fire"; a read error pauses polling for 5 s
  (`espnow_rx.py:433`) while a sequence is remembered for 2 s, so a copy left in the ring over the pause
  is executed again. `ExecutedOnce` is what holds.
* Nothing orders tokens: the window drops a late copy of an executed press, but when every earlier copy was lost, the
  one that lands behind the next token is executed after it. The volume hold that `espnow_rx.py:53-55` protects
  from a late retry can so still start after its release.
* `bm83.py:172` says profile-level drops never demote the link; the fast path (:1075) demotes on any
  report that is not a connected state once the evidence is more than two seconds old.
* `bm83.py:608` says shutdown-time chatter must not leave `avrcp_notifs_registered` set; `_explicit_off`
  is tested (:605) before the OFF report of the same batch is handled, and a power-off press (:812) ends
  the link without clearing the flag.
* `bm83.py:1032` and `main.py:476` say fresh registrations follow when AVRCP comes back; an A2DP drop and
  return empties (:1040) the queue of an AVRCP session that never went down.
* `HOST-POLICY-API.md:48`: an advertising start that succeeds after its caller's 200 ms timeout stays on
  (`HostPolicy.c:546-559`) although the caller was told it failed.
* `main.cpp:229` says the status reported for a token is that token's; the callback does not know which
  send it answers, so one that comes after the 60 ms wait acknowledges the next token.
* `main.cpp:817-818`: a sleep that is called off while a line waits in the transmit buffer leaves the artwork
  worker paused. Only an export claim resumes it when it ends; after any other line nothing does until the
  next attempt to sleep or the next export.
* `network_setup.cpp:604` compares with the time read at :578, while `begin_join` reads the clock again
  (:231): a join begun by a retry in the same tick can be timed out at once, on the wrapped difference.
* `ble.py:943-948`: a wipe goes on when advertising could not be stopped, although :905 says the radio is
  quiet; and a failed pause can be asked for again only after an enable (:442).
* `remote/host_policy.py:150` keeps the clients a newer one has replaced (`_retired_clients`, :232-236), and
  nothing consults the set. A handshake of a panel from before its restart whose challenge is unspent would
  be admitted again if it arrived within the challenge's three seconds, and a request of that panel could
  then run a second time; it takes a frame that outlives a boot of its sender. `RadioRepeats` has no such
  frame (section 8).
* `artwork.cpp:240-244` and :295-298 look at what `write()` returned and at neither the flush nor the close that
  follow: a loss reported only there would be renamed. The model takes what was reported written for
  written (section 11).
* `artwork.cpp`: covers whose metadata could not be written do not count against the cache until the card
  is mounted again; a job whose 45 s pass during decoding is answered "invalid image", which is not
  retried.

## 14. What is not modelled

UI layout (LVGL, Nextion pages, badge drawing), JPEG, HTTP and TLS handling, text normalization and
matching, battery measurement, metrics, build, provisioning and bench scripts: data transformation
and pure I/O without an interleaving the properties could be about. `volume_adjustment.h` is used by its
tests only. Of the 26 931 lines of C and C++, 18 548 are generated or vendored data (fonts 14 310, the
CA bundle 3 464, `lv_conf.h` 774), which no model can be of; of the 8 400 that are left, the map names
some 2 480 (a definition counted with at most 150 lines). In Python, the
other half of the system, it names some 2 550 of the 9 770 lines of the controller's firmware and the badge's app.

What is only model-checked: the liveness properties `UnadmittedLinkEnds`, `Served`, `Repaired`, `TeardownSettles`, `Heals`,
`StalledEnds`, `Answered`, `PauseSettles` and `Reachable`. They rest on fairness, hence on ENABLED, which is out of the
prover's reach. Every safety property of a passing run is a theorem. The theorems `Invariance`, `TypeCorrect`,
`TypesHold`, `NewcomerUnique`, `ErrorSafe`, `SettledSafe`, `AirSafe`, `PauseSafe`, `QuietSecret`, `BadgeInvariant`,
`BadgeTypes`, `ControlInvariant`, `LinkInvariant`, `LinkTypes`, `BleInvariant`, `OnlyOnTrial`, `TokensRemembered`,
`TokensTyped`, `NowPlayingInvariant` and `NowPlayingTypes` are proved and have no run of their own: each run checks
what its component promises, and these are the facts the promises rest on.

# shairkindle: TLA+ models and proofs

shairkindle turns a jailbroken Kindle K3 into an AirPlay-1 receiver. This directory holds
TLA+ models of its program code, the TLC runs that check them and TLAPS proofs about every
component that has a run. `PROJECT.json` lists components, runs, mutants, the map
from definitions to source lines, findings, hazards and theorems. Paths below are relative
to the repository (`src/jitter.c` is `src/src/jitter.c` in `PROJECT.json`).

    tlc -workers 2 -config MCPlayback.cfg MCPlayback
    tlapm PlaybackProofs.tla

## 1. The system

| Part | State | Operations | Interacts with |
|---|---|---|---|
| Receive path (`seqext.c`, `jitter.c`, locked parts of `session.c`) | ring of 512 slots, sequence reference, generation, cursor, boundary, start gate, resync hysteresis | insert, pop or conceal, resync, resend scan, FLUSH | receiver and player thread, RTSP thread |
| Timing exchange (`session.c`, `raop_clock.c`, `rtp.c`) | outstanding request, token, clock offset | periodic pass, reply, timeout | receiver thread, sender |
| Parsers (`sdp.c`, `b64.c`, `daap.c`, `rtp.c`, `dacp_resolve.c`, `raop_name.c`, line buffer of `supervisor.c`) | none but the line buffer | parse | whatever reads from outside |
| Session threads (`session.c`, `sink.cpp`) | running flags, generation, restart flag, thread positions, pipe to the aplay child | start and its failure paths, drain, pop and write, restart, FLUSH, stop, destroy | RTSP thread, aplay |
| RTSP server (`main.c`, `rtsp.c`) | client slot, protocol state, RTP sockets, session, wake lock, gain | accept, every method, deadline, disconnect, SIGTERM | sessions, DACP, display |
| Framing (`main.c`, `rtsp_msg.c`, `bodycap.c`) | read buffer, body being captured | receive, drain, oversized request, capture | RTSP server, display |
| DACP (`dacp_state.c`, `dacp.c`, `dacp_resolve.c`) | generation, credentials, cached port, commands under way, control socket | new session, capture, snapshot, resolve, publish, send, join | RTSP thread, supervisor |
| Display (`npstate.c`, `nprender.c`, `airplay-nowplaying`) | published state, dirty flag, dedup key, last layout | publish, wake, snapshot, render, stop | RTSP thread |
| Supervisor (`supervisor_main.c`, `supervisor.c`, `airplay-on`, `airplay-off`, `airplay-wifi`) | lease phase, script, firewall, power-save, configured Wi-Fi flag, receiver, pid files | reconcile, accept, start, tick, teardown, toggle | Kindlet, receiver, menu, device |
| Lease (`LeaseConnection.java`, `InputRouter.java`, `NowPlayingEncoder.java`, `sup_step`) | keys held, queue, sequence numbers, press gate, heartbeat clocks | key events, enqueue, encode, write, heartbeat, close, relay, expire | Kindlet, supervisor |
| Kindlet (`KindletShell.java`, `ShairKindle.java`) | generation, launch latch, worker threads, published lease | start, stop, launch, observe, connect, signal | supervisor |
| Installer (`PayloadInstaller.java`) | install tree, staged files, stamp | stage, verify, rename, prune, stamp | Kindlet start |

What is hard about it: counters that wrap, a ring whose slots are reused, a FLUSH that must
reach a player that works outside the lock, resources that move between owners on every
error path, answers that come back after the question is moot, scripts killed half-way, and
two programs in two languages that must agree on who is alive. The `hazards` of
`PROJECT.json` name the lines.

## 2. Modules

| Module | Models | Remarks |
|---|---|---|
| `SeqExt` | `seqext_seq`, the signed timestamp compare | pure operators; counter widths are parameters |
| `Jitter` | `jitter.c`, `session_deadline` | action fragments over the ring; no `Next` of its own |
| `Playout` | what the listener is promised | abstract specification, external view |
| `Playback`, `MCPlayback` | `rx_insert`, one player iteration, `session_flush` under the lock | extends `Jitter`, implements `Playout`; the network loses, duplicates, delays and reorders; `MCPlayback` adds a history variable that tells good networks from bad |
| `Session` | the three threads outside the lock, the sink child and its pipe | PCM is a generation tag; the jitter buffer is what `Playback` shows of it; `sink_open` and its child included |
| `Timing` | the timing part of `rx_thread`, `raop_clock.c`, timing packets of `rtp.c` | clock conversions with their rounding; a sender ahead or behind; the network loses, delays, reorders and delivers twice |
| `RtspServer` | poll loop, `rtsp_handle`, `handle_msg`, `rtp_open` socket by socket, replies that block or fail, `teardown_client`, shutdown | what a sender negotiates is the number of its connection, so that inheritance shows |
| `RtspFraming` | `on_client_readable`, `drain`, `frame_oversized`, body capture | a byte is its offset in the stream |
| `LineBuffer` | `sup_lb_push`, the reads of the supervisor's control channel | also a specification of its own: a stream that grows by reads of any size |
| `Datagrams` | `rtp_parse_audio`, `rtp_classify_control`, `rx_dispatch` | a header field is a unit |
| `Parsers` | base64 keys and `sdp_parse`, DAAP, mDNS names and answers, the receiver's name | extends the two above; every parser beside a reference definition written from the format; widths scaled down |
| `MCWire` | `RtspFraming`, `Parsers` and `Timing` in one instance | they share no state; `part`, chosen at the start, says which one moves |
| `Dacp` | `dacp_state.c`, `dacp_send_command` in two threads | a port is named by the DACP-ID it belongs to |
| `DacpControl` | `dacp_control_thread`, its start and join in `main.c`, the tokens of `relay_cmd` | extends `Dacp`: its command steps are those of the control thread and of the self-probe |
| `NowPlaying` | `npstate.c`, `nprender.c`, the renderer child | publish and wake are separate critical sections |
| `Supervisor` | `supervisor_main.c`, `airplay-on`, `airplay-off`, `airplay-wifi`, raopd as a process | untimed: a deadline is a possible step; the menu flips the Wi-Fi flag at any moment |
| `Lease` | `sup_step`, session loop with the blocking `relay_cmd`, idle heartbeat | timed in seconds with the code's own constants; a read takes any part of the lines that wait, and its commands are relayed one after the other |
| `LeaseConnection` | `LeaseConnection.java`, `InputRouter.java`, `NowPlayingEncoder.java`, the keyboard | lock sections are actions; `close()` runs in two threads; keys go down, repeat, overlap and come up |
| `KindletShell` | start, stop, worker, launch, lease publication, group signals | a supervisor is its process, port, pid file and lease; the launch line may hang |
| `SupervisorLife` | what `KindletShell` counts on of a supervisor process | the contract between `KindletShell` and `Supervisor`: both are proved to move by its steps only |
| `Installer`, `MCInstaller` | `PayloadInstaller.java`, `airplay_config_ensure` | contents are hashes; faults between any two steps |
| `PlaybackProofs`, `RaopdProofs`, `WireProofs`, `ControlProofs`, `SupervisorProofs`, `ConnectionProofs`, `KindletProofs`, `ComponentProofs` | the theorems | section 5 |

Operators named "Faulty variant" are the mutants: each breaks one mapped definition the
way a plausible bug would, and `PROJECT.json` says which property then fails. They are not
part of any specification.

Common abstractions: metadata, names and packets are model values; logging, diagnostics
counters and message texts are left out. An action is a critical section or a step between
two of them. `session_flush` is two actions, because the player reads the new generation
without the lock before the restart flag is set. The one extra period of silence that the
player writes after a resync stands for no position and is not an emission of `Playout`.

## 3. Runs

Every passing run is exhaustive for its configuration.

| Run | Configuration | Properties | What it shows |
|---|---|---|---|
| playback | `MCPlayback.cfg` | RingFaithful, ResendWanted, NoFreshRejected, PlayoutSpec, NoReceivedLost, ResyncNotWithheld, PacedPlays | Under loss, duplication, reordering, late stragglers, long gaps, sequence and timestamp wraps and two FLUSHes, the ring holds only what the sender meant, what is played keeps the promise of module Playout and a stall ends; on a good network with a paced sender every epoch starts and everything is played, nothing concealed. |
| session | `Session.cfg` | Barrier, NoUseAfterDestroy, StopCompletes, FreshFlows | FLUSHes and a stop at every point of the player's and the receiver's loops, with a child that dies and spawns that fail: stale PCM sits in the pipe only until the pending restart, nothing is freed under a running thread, a stop ends although the peer floods the sockets and the child reads nothing, and the new epoch is heard. |
| dacp | `DacpControl.cfg` | PortOfSession, SendCoherent, JoinReturns | Button presses relayed to the control thread, the probe, captures, new sessions, slow mDNS answers and the shutdown in every order: a cached port never outlives its session, what is sent to a sender is one coherent snapshot, and main's join of the control thread returns. |
| server | `RtspServer.cfg` | SocketsOwned, NothingInherited, HandshakeEnds, StopsOnTerm | Two senders, every order of requests, failures inside rtp_open, disconnects, deadlines and SIGTERM: no socket leaks or is closed under a session, nothing is inherited from an earlier client, and, if clients read their replies, a client without a session never keeps the slot and SIGTERM always ends the foreground daemon. |
| wire | `MCWire.cfg` | HandledInOrder, PublishedWhole, ClockAccurate, NotWedged, Parsed, FramingEnds | Every stream of two requests through a 3-unit buffer in every chopping is handled once and in order, its bodies captured whole or not announced, and nothing wedges; timing replies late, lost, doubled and out of order leave the clock right, unless a token was repeated, and the exchange going; and each parser returns what its reference says, for every bounded input. |
| display | `NowPlaying.cfg` | Settled, LightDrawSound, Shown | Publications at any point of the worker's loop, with renders that fail before or after the spawn: what is published is shown, a settled display shows what was published last, and a draw without flash only covers the same card. |
| install | `MCInstaller.cfg` | ReadyTree, Recovers | Upgrades and downgrades interrupted by I/O errors and power losses at every step: an upgraded program only starts from exactly its own tree, and opening the Kindlet again always ends in an installed version. |
| supervisor | `Supervisor.cfg` | CleanExit, WifiFollows, NoOrphan, Ends | Three supervisors in a row with hung scripts, a hung or vanished Kindlet, a Wi-Fi toggle from the menu, group TERM and KILL at any moment: the device is restored on exit, healed at the next start, the firewall and the power setting follow the menu, no receiver is orphaned, and without a living lease every supervisor goes away. |
| lease | `Lease.cfg` | NoFalseExpiry, DeadLeaseEnds | With the code's own timings a live Kindlet whose heartbeats are up to 20 s late never loses the lease, whatever the scripts take, and one that writes nothing that counts loses it within 67 s and 4 s for each command it had queued, junk or not. |
| conn | `LeaseConnection.cfg` | OnePerPress, DownFollows | Keys that go down, repeat and come up, heartbeats, a full queue, a broken socket and close() from two threads: frames stay in order, a press is sent at most once and lost only with an event, and a lease that came up and is closed is announced down. |
| shell | `KindletShell.cfg` | NoSurvivor, StartSucceeds, WorkersEnd | start and stop in any order, with workers and supervisors at any point: when stop() returns no supervisor and no lease is left, a start after a stop gets its lease, and even with every bounded wait too short no worker blocks the next one unless its launch line hangs. |

Most modules also define their type invariant `TypeOK`. Those of `Playback` and `Session` are
proved (section 5), and those of the other modules with proofs are part of the inductive
invariants there; `TypeOK` is in no configuration, but TLC has found no violation of it
either (add `INVARIANT TypeOK`).

Exceptions the properties name, all of them things the code does: `CleanExit`, `WifiFollows`
and `NoOrphan` except what `cut` and `missed` remember (section 4); `NoFalseExpiry` a Kindlet
whose keys write nothing; `ClockAccurate` an offset measured after a token was repeated;
`WorkersEnd` a launch line that hangs; `OnePerPress` a press that is lost with a dropped event or while
another key is down; `HandshakeEnds` and `StopsOnTerm` a client that takes no reply and does
not go away either (`RepliesEnd`): `write_all` blocks on it, and neither the handshake
deadline nor SIGTERM is looked at until it returns.

`supervisor_term` (`Supervisor_term.cfg`) ends in a counterexample to `TermExitClean`, which is
what the comment on `supervisor_teardown` says of an exit by SIGTERM. Its specification,
`EverydaySpec`, leaves out hung scripts, a failing `airplay-on` and every end of a lease but a
closed one. The trace: a receiver serves a lease with the firewall open and power-save off;
`stop()` closes the lease, the supervisor starts `airplay-off`, and the TERM that `stop()` sends
next to the whole group kills the shell that runs it before its first command. Nothing runs it
again, and the supervisor exits with the firewall open and power-save off.

### Where the code and its documents disagree

Met while modelling. The passing runs name these cases as exceptions; the column "To see it"
says what to check instead.

| Source | The code | What is said | To see it |
|---|---|---|---|
| `src/supervisor_main.c:207` | as above | "a SIGTERM-driven exit still does fw_close + wifi_powersave + raopd TERM/KILL + pidfile removal" (`src/supervisor_main.c:198`) | run `supervisor_term` |
| `src/session.c:171` | 2^31 samples (13.5 h) after a FLUSH, packets of the current epoch count as stale | the predicate is 1 for "a stale pre-FLUSH straggler" (`src/session.h:72`) | `NoFreshRejected` with `EPOCH_MAX = 10` |
| `src/session.c:418` | a FLUSH between the generation check and the write lets old PCM into the pipe until the restart | "only FRESH-packet PCM reaches the sink after the barrier" (`tests/test_session_flush.c:20`) | `OnlyFreshAfterBarrier` of `Session` |
| `src/dacp_state.c:90` | a resolve that ends after the DACP-ID changed within a session stores the old ID's port | "the cached SRV port belongs to the old ID -- drop it so the next command re-resolves" (`src/dacp_state.c:64`) | `PortOfIdentity` of `Dacp` |
| `src/sink.cpp:165` | `sink_open` ignores the volume it is given | `session_create` does "sink_open(44100,vol)" (`src/session.h:17`) | `VolumeApplied` of `RtspServer` |
| `src/nprender.c:211` | a renderer that drew nothing counts as drawn, and the next cover is drawn lightly over the old screen | "Track the last-rendered layout + have_art explicitly" (`src/nprender.c:196`) | `LightDrawSound` without `~missed` |
| `PayloadInstaller.java:272` | the old stamp stays while an upgrade is under way; cut short, and the old Kindlet put back, it vouches for a mixed tree | "a partial write never marks the version stamp as up-to-date" (`docs/BUILDING.md:86`) | `ReadyTree` without `app \notin past` |
| `PayloadInstaller.java:318` | the prune deletes the user's configuration on every upgrade | "Never overwrite a user's config." (`extension/bin/airplay-lib.sh:16`) | `ConfigKept` of `Installer` |
| `LeaseConnection.java:152` | keys that write nothing postpone the heartbeat, and a Kindlet in use loses its lease | "using the remote keeps the lease alive" (`src/supervisor.c:41`) | `NoFalseExpiry` without `put_off` |
| `extension/bin/airplay-wifi:25` | a toggle that found raopd running before `airplay-off` opens the firewall after it | "never leave wlan0 open when off" (`extension/bin/airplay-off:8`) | `CleanExit` with `cut \in {"none", "toggle"}` |
| `extension/bin/airplay-wifi:25` | a toggle between `airplay-on`'s look at the flag and raopd's pid file changes nothing until the next start | "otherwise airplay-on applies it at start" (`extension/bin/airplay-wifi:20`) | `WifiFollows` without `~missed` |
| `NowPlayingEncoder.java:15` | a key pressed while another is held sends nothing | "one transport command per physical press" (`NowPlayingEncoder.java:5`) | `OnePerPress` without `rolled` |
| `src/session.c:219` | a token is the time plus the offset, so it repeats when the offset drops by the time that has passed: after the first measurement of a sender whose clock is behind by the 3 s timeout or more, or when a datagram comes twice. A late reply then counts for a later request | "Only ever one outstanding at a time so the t1<->reply correlation is unambiguous" (`src/session.c:138`) | `TokenUnambiguous` of `Timing`, or `ClockAccurate` without `repeated` |
| `NativeLauncher.java:54` | the worker waits for the shell of the launch line without a timeout, with `launching` set; if its `ps` hangs, every later worker waits in `prev.join()` for ever | "a wedged ps/sh must NOT hang the worker" (`KindletShell.java:72`), said of the same `ps` guard in `nativeAlive` | `WorkersEnd` without `hung` |
| `src/dacp.c:121` | a key that waited behind a slow command is sent to the next sender | the guard "Drops a command that a session rollover (new sender) has invalidated" (`src/dacp.c:122`) | `KeyOfSession` of `DacpControl` |
| `src/raop_name.c:32` | a name cut to its length may end in a space | "collapses and trims whitespace" (`src/raop_name.h:10`) | the reference `NameKept`, which cuts last as the code does |

## 4. Bounds and fairness

Bounds are constants, named in each module; the configurations give them the smallest values
at which the interesting cases happen.

- `Playback`: sequence and timestamp counters of 16, positions 12 to 21 and epochs starting at
  number 1 or 14, so both counters wrap; a ring of 4 slots, so it is lapped; three epochs;
  packets up to 4 late, gaps of up to 3. The thresholds of the configuration keep the order that
  those of the code have for the usual 352 frames a packet (preroll < window < resync distance <
  ring), on which the comment at `src/session.c:38` insists. The window is a number of frames
  divided by the packet length: `sdp.c:157` accepts lengths from 1 to 16384, and the order holds
  for about 173 to 1297. What is proved (section 5) does not assume it; what only TLC checks
  (`ResyncNotWithheld`, and that paced packets are played) is checked for the ordered case alone.
- `Session`: two FLUSHes, packets of two writes, a pipe of three, one retry, two spawns: a
  FLUSH can meet every player position with a full, a half-full and a dead pipe.
- `Timing`: a clock of 3 units and a fraction of 4 per second, so both conversions round;
  a sender ahead, one behind by less than the timeout of 5 units, and one behind by more; the
  clock runs for 8 units, so that a request is given up while its reply is still in flight and
  tokens repeat; one datagram comes twice.
- `Parsers`: all inputs up to 8 bytes of control lines, 6 base64 characters, 5 SDP lines, 3
  DAAP items, 7 bytes of a DNS name, 2 answer records, 5 bytes of a datagram and 7 of a name,
  with buffers of 2 to 6 units, so that every capacity is missed by one, met and passed.
- `RtspServer`: two connections and three `rtp_open` calls, each of which may fail at any of its
  three sockets, so a second sender and a second SETUP meet what the first left. `RtspFraming`: two requests, up to three buffers long,
  received in every chopping; sizes include exactly the buffer, one less and one more.
- `Dacp`, `DacpControl`: two controllers, two peers, the control thread and the probe, three
  generations, a control socket that holds one datagram.
- `NowPlaying`: two tracks, two covers, four publications.
- `Supervisor`: three successive supervisors with two TERMs each, so that one inherits from a
  killed one and hands on to a third, and two flips of the Wi-Fi flag.
- `Lease`: the program's own 30, 20, 12, 10 and 5 seconds, heartbeats up to 20 s late, the
  most that 30 s allow, and a relay that waits up to 4 s for room on raopd's socket, which is
  what one command takes (2 s to resolve, 1 s to connect, 1 s to read). Up to two commands wait
  to be relayed; in the code as many as the socket buffer holds. The writer
  measures its idle time with the wall clock, and a clock that is set back while it waits delays
  the heartbeat beyond anything the model allows.
- `LeaseConnection`: a queue of two (256 in the code), six numbered events, two keys with a
  command and one without. `KindletShell`: five calls of start and
  stop, two supervisors at a time, two launch attempts (three in the code).
- `Installer`: one file each that changes, stays, is dropped and is new, and a file that
  becomes a directory; two faults; two swaps of the Kindlet.

Deadlock is checked except in `Supervisor`, `LeaseConnection`, `KindletShell`, `DacpControl` and
`MCWire`, where the bounded number of launches, events, calls, sessions or input units runs
out, or the daemon is down, and the system may rest.

Fairness is weak fairness of threads and processes whose waits are timed: the player and
receiver (`nanosleep`, `poll` with timeout, `usleep`), the server loop (foreground `poll` of
1 s), the DACP control thread (`poll` of 250 ms), the display worker and its bounded reaping,
the scripts with their deadlines and the writer thread. The workers of the Kindlet have two
waits that are not timed. The join of the worker before is part of what `WorkersEnd` is about;
the launch line either returns or, where `slow` is chosen, hangs for good (`LaunchHangs`), and
nothing is assumed of which. The install, local file I/O, is taken to end. The environment owes
nothing, with these exceptions. `FreshFlows` is an implication: it assumes a sender whose packets keep being
accepted and decoded and a child that plays (`StreamFlows`); strong fairness there says that
packets which keep being possible keep coming. `PacedPlays` concerns the behaviours of an
in-order, lossless network and a sender within `BURST` of playback, which go on delivering
for as long as they are that. `FramingEnds` assumes that the client sends the request it has
begun. `HandshakeEnds` and `StopsOnTerm` have `RepliesEnd` as premise. `install` assumes the user opens the Kindlet again.

In `KindletShell`, `slow` is chosen at the start: where it is FALSE, supervisors register and
end within the time `stop()` waits and the launch line returns, which `NoSurvivor` and
`StartSucceeds` need; `WorkersEnd` holds either way. In `Supervisor`, `cut` remembers what may excuse a supervisor from its duty:
a hung `airplay-off`, a signal to it, a receiver it inherits without pidfile, a toggle that
applies its setting outside the lease; `missed` remembers a toggle in the window the table of
section 3 describes. Both excuses are needed: without either TLC finds a counterexample.

## 5. Proofs

TLAPS proves, for every value of the constants that satisfies the named assumptions:

- `PlaybackProofs`, on numbers: `SeqExtendExact`, a wire number less than half the counter
  away from the reference extends to the number the sender meant; `TsBeforeExact`, the signed
  compare is the order of timestamps less than half the counter apart. Both rest on one lemma
  on signed distances (`SignedDistance`), proved from the uniqueness of quotient and remainder.
  On the ring: `TypeCorrect`, `RingIsFaithful`, `FreshAccepted`, `KeepsPlayoutPromise` (the
  refinement of `Playout`), `ResendIsWanted`, `ResendIsWantedNear`, `NothingReceivedIsLost`; with
  a paced sender and a good network `PacedIsClean`.
- `RaopdProofs`: of the session's threads `TypeCorrect`, `FlushBarrier`, `DestroySafe`,
  `StopIsShort`; of the server `SocketsAreOwned`, `NothingIsInherited`; of the display `ScreenSettles`,
  `LightDrawsAreSound`.
- `WireProofs`: of the framing `RequestsInOrder`, `BodiesAreWhole`, `NothingIsWithheld`,
  `FramingTerminates`; of the audio and control datagrams `EveryDatagramIsFaithful`.
- `ComponentProofs`: of the timing exchange `ClockIsAccurate`, `TokenIsUnambiguous`,
  `ExchangeIsNotWedged`; of the installer `TreeIsReady`.
- `ControlProofs`: `PortIsOfSession`, `SendIsCoherent`; `ControlImplementsDacp` (the control
  thread, the self-probe and the shutdown implement `Dacp`), and from it both facts for
  `DacpControl`; `ControlStopIsShort`; of the control channel's lines `EveryLineIsWhole`.
- `SupervisorProofs`: `EveryExitIsClean`, `WifiAlwaysFollows`, `NoReceiverIsOrphaned`,
  `SupervisorKeepsItsLife`; of the timed lease `NoLeaseExpiresFalsely`, `EveryDeadLeaseEnds`.
- `ConnectionProofs`: `OneCommandPerPress`, `LeaseIsAnnouncedOnce`.
- `KindletProofs`: `NothingSurvivesStop`, `EveryStartSucceeds`, `OneWorkerAtATime`,
  `WorkersAreShort`, `ShellSupervisorsLive`.

Each module also states its inductive invariant as a theorem. Every inductive invariant below
was checked with TLC in the configuration of the component's run as well. A module
with the proofs of several components extends them all; they share no variable, and the names
of their specifications (`SessionSpec`, `DisplaySpec`, `LeaseSpec`, `TimingSpec`) say which is
meant.

*Ring.* `RingFaithful` is not inductive. Whether an insert puts the right packet in a slot
depends on the sequence reference being near what the sender sends, on the boundary and the
timestamp check being those of the current epoch, and on no slot being of a later
generation, which a future FLUSH would bring back to life. `IInv` adds these (`EpochsOK`,
`CursorsOK`, the bound on generations). The argument: a straggler of an old epoch is
rejected (`StragglerRejected`, from `TsBeforeExact`); a packet of this epoch gets its own
number (`CurrentExtended`, from `SeqExtendExact`); a slot is rewritten as a whole
(`RxInsertIInv`); the player only moves the cursor or retires slots (`CursorMoveIInv`,
`PlayerIInv`); a FLUSH leaves no slot of the new generation (`FlushIInv`). The refinement to
`Playout` then maps each step to an emission, a skip, a new epoch or a stutter.
`FreshAccepted` needs in addition that an epoch is no longer than half the timestamp
counter (section 3 says what happens otherwise). Assumptions
(`WidthAssumption`, `JitterAssumption`, `PlaybackAssumption`): widths, ring and window are
positive, the thresholds of the resync are any numbers, a packet is at most `LAG` late and a gap at most
`JUMP`, both less than half the sequence counter, and `LAG` is at most half the timestamp
counter.

*Buffer.* That nothing received is lost before its turn is an action property, and what it needs
is where packets lie: `SlotsInv` says that a slot of this generation is the slot of its number
and that whatever no longer waits lies behind the cursor. `jitter_insert` overwrites a waiting
packet only with one of the same slot, a whole ring away (`SameSlot`), so the newest number is
then a ring or more ahead of the cursor, the case the property leaves out because there the code
does lose packets (and counts them in `overwritten`). `BufferInv` adds that the reference stays
within an epoch. `ResendIsWanted` has the hypothesis `EPOCH_MAX <= SeqHalf`: a number asked for
again comes back as a wire number, and `seq_extend` returns the number meant only within half
the counter. The ring's cursor trails the reference by no more than the epoch; the code enforces
nothing tighter, so for longer epochs `ResendIsWantedNear` states the same while the cursor is
that near, which at 2^15 packets (four minutes) against a buffer of seconds is where a playing
session is.

*Paced.* The condition of `PacedPlays` is the history variable `paced` of `MCPlayback`. While it
holds, everything from the cursor to the newest packet waits in the ring, and the newest is less
than `BURST` ahead (`PacedState`). `BURST <= JITTER_SLOTS` keeps an arrival from lapping a waiting
packet (`PacedArrival`), and the player finds data at its cursor or nothing ahead of it either
(`PacedPlayer`), so that it neither conceals nor starts a resync.

*Session.* `Barrier` is not inductive: the player may hold PCM of the old epoch and still
write it. `IInv` adds that it does so only while the restart is pending or `session_flush` is
between its two stores, and ties the threads' positions to the RTSP thread's, from which
`DestroySafe` follows.

*Framing.* `FramingInv` says where in the byte stream the reading stands: at the first byte of
the request after those handled or, while a body is captured, so far into that body that what
`remaining` counts ends where the next request starts (`Framed`); and that a capture which has
not failed has kept and still expects exactly the body (`CaptureInv`, kept by `bodycap_feed`,
`FeedInv`). `RequestsInOrder` and `BodiesAreWhole` follow for every split of the stream into
reads. The offset of a request (`Start`) is a recursive function. The library's induction
principles take the predicate as a parameter and cannot be used here, so that it is defined and
increasing is proved from a least counterexample (`LeastNat`, from the well-foundedness of the
naturals).

*End of the framing.* `EndInv` adds that when the loop waits for bytes the request at hand is
incomplete, and that a connection was closed only for a cause. A buffer that holds the whole rest
of the stream then holds no complete request, so none is left (`NothingIsWithheld`). `Effort`
counts twice the bytes to read, the requests to handle and the place in the loop; every step
lowers it (`EffortFalls`, `FramingTerminates`).

*Datagrams.* `EveryDatagramIsFaithful` is a statement about operators, for all datagrams of any
length: a case split on the length and the header, and that a resent packet is the tail of its
wrapper (`SubSeq` of a concatenation).

*Lines.* `LinesInv` says that the buffer holds the last, unfinished line, or has given it up as too
long, and that the events are those of the lines before it (`Buffered`). One byte keeps this
(`PushByteKeeps`); a read is a recursive function over its bytes, and that it keeps it is again
proved from a least counterexample (`PushKeeps`). A read yields at most as many events as it has
bytes, so none is lost for want of room.

*Timing.* `ClockAccurate` depends on a reply being matched with its own request, and that on
tokens not repeating, although a token is the time shifted by an offset that changes and
rounded to NTP units. `TimingInv` says of every reply in flight at which moment it was made
(`MsgInv`); that as long as no token was repeated, a reply with the awaited token is the awaited
one, so that the offset is right (`MatchInv`); and that no token is repeated while no datagram
came twice and the sender's clock is not behind by the timeout or more (`PlainInv`). For the
last it says which moment every token in flight stands for: one that is no longer awaited lies
more than the timeout in the past and below every token still to come (`TokenInv`). A measured
offset exceeds the true one by at most half an awaited round trip (`Half`), and the first offset
is 0 (`Slack`), so it can only drop by less than the timeout that a request must have been
outstanding before another is sent: that is where `TimingAssumption` (`LATE + 2 < TIMEOUT`) and
`Plain` are used. Two lemmas carry the conversion: `NtpInjective` (different times have different
NTP times, as `FRAC >= NS`) and `NtpRoundTrip` (there and back loses at most one unit). The
code's 10^9 and 2^32 qualify; its timeout and its period satisfy the rest if the receiver thread
is not kept from its periodic pass for as long as the timeout. `ClockIsAccurate` and
`ExchangeIsNotWedged` hold for every difference of the clocks that keeps the sender's time
positive, and for doubled datagrams; `TokenIsUnambiguous` has `Plain` as premise, without which
it is false (section 3).

*Server.* `ServerInv` adds that an empty client slot leaves neither session nor negotiated
values behind, that the server holds no sockets while there is a session, and that the number
of a socket triple is never given out again. Every way out of a request, `rtp_open` failing at each of its
sockets and a reply that fails included, keeps it (`HandledInv`, `RequestInv`, `ReplyInv`,
`TeardownInv`). It is proved for any number of connections and `rtp_open` calls.

*Display.* Publishing and waking are two critical sections, and the worker compares keys rather
than contents. `DisplayInv` says that the key stands for the contents (`KeyInv`: equal
generations and serial numbers mean equal texts and equal covers), that the screen shows what
the key of the last draw stands for (`ScreenInv`), and that a worker whose snapshot is out of
date is going to be woken (`WakeInv`). A draw that failed or ran out of time sets `missed` and is
excused (section 3).

*DACP.* `DacpInv` says that no command is ahead of the generation and that one which began in
the current generation holds only what this session has announced (`OfSession`); a session
change makes the second part vacuous, and the guards of `dacp_state_publish_port` and
`dacp_send_command` test exactly that. `DacpControl` extends `Dacp` by the thread, its queue of
tokens and the flags of the shutdown; the mapping is the identity on the variables of `Dacp`, and
`ControlStep` goes through the steps: each sends a command of `Dacp`, serves a request as `Dacp`
does, or changes none of its variables.

*Stops and workers.* Three liveness properties say that a thread gets somewhere: `StopCompletes`,
`JoinReturns`, `WorkersEnd`. What makes them true is a bound, and that is proved: a natural number
(`ReceiverLeft` and `PlayerLeft`, `ControlLeft`, `WorkLeft`) that every step of the thread lowers
and no step of anybody else raises. `StopIsShort` uses that the running flag is down and stays
down while the threads are joined (`StopInv`); `WorkersAreShort` that launches are counted and that
only one worker counts them (`AttemptInv`, `OneActive`); its bound, three steps an attempt and five
more, is attained. That a thread which is not at its end can
move is left to TLC.

*Lease.* `LeaseInv` relates the supervisor's clock to the Kindlet's at every step of the loop:
it runs behind unless a line that counts waits to be read (`BeatInv`), and the time since the
last such line is bounded by what the scripts, the relays and the clock account for (`DeadInv`).
A command renews the lease when it has been relayed, which may be long after it was written, and
no tick comes between the commands of one read. The history variable `backlog` therefore counts
the commands not relayed when the peer last wrote a line that counts, and each of them that has
left the queue since accounts for one `RELAY` (`Delay`). The bound of `DeadLeaseEnds` is attained. `DeadlinesFit` states the
inequalities between the timings that `NoFalseExpiry` needs: neither `airplay-on` nor a
heartbeat with its delay may outlast the timeout.

*Connection.* That no press is sent twice depends on queue, wire and the encoder's gate at once.
`ConnInv` orders the frames by their numbers from the wire to the tail of the queue (`NumberInv`),
says that no event of a press is pressed after a later release (`OrderInv`), and that whatever is
still to come of a press already sent meets a shut gate, no release being queued before it
(`GateInv`). That no first press is swallowed holds while the queue loses nothing and keys do not
overlap (`FreshInv`). `AnnounceInv` is about the listener: one of the two threads finds the
connection not yet closed, up is latched only before that and down only by that thread. The order
of the two announcements is not part of it: `markUp` and `close()` call the listener outside the
lock.

*Supervisor.* `SupInv` follows the receiver through the scripts. While nothing excuses the
supervisor, the pidfile names a receiver as soon as it is up, and one is up only in a lease,
while `airplay-on` polls for it, or before `airplay-off` has signalled it (`ReceiverInv`); an
`airplay-off` clears the firewall rule, the power setting and the pidfile in its order, and each
stays cleared until the next lease (`CleanInv`); the Wi-Fi flag has reached a receiver through
`airplay-on` or through a toggle still on its way (`WifiInv`).

*Kindlet.* `ShellInv` says that one worker at a time is past its join and holds the launch latch
while it launches (`WorkersInv`, `OneActive`), and that an open lease is always in the hands of
the worker about to publish it, of the shell, or of a `stop()` about to close it (`LeaseInv`).
Where the bounded waits suffice, it adds that there is one live supervisor, that the waiting
`stop()` knows which, and what a start that follows finds at each of its stages (`SupInv`,
`StartInv`). A launch line runs outside the lock and forks whatever the generation has become by
then; that no start after a stop meets such a fork is because `stop()` waits for the latch, so
no worker but the current one is in a launch. It is proved for any number of starts and
supervisors.

*Supervisor's life.* `KindletShell` has its own, small view of a supervisor. `SupervisorLife` states
it as the steps one process may take between forked, up, leaving, exiting and gone, with what
happens to the pidfile. `SupervisorKeepsItsLife` shows of the full model of the supervisor, and
`ShellSupervisorsLive` of every supervisor in the Kindlet's model, that each step is one of these;
the first needs `BootFresh`, the second `LeadersInv` (one supervisor holds the port, and one about
to exit is no longer in the pidfile). The contract does not cover time: how long a supervisor
takes to register and to end is the assumption `slow` (section 4).

*Installer.* `InstallerInv` says that the entries already done have the shipped contents, and that
no stamp of this version exists while they are being replaced, so a crash or a failing rename at
any step leaves a tree without the stamp. A stamp of a version the device had before says
nothing of the tree; the property excludes that case and section 3 says why.

Left to TLC: liveness under fairness and everything with ENABLED (`ResyncNotWithheld`,
`StopCompletes`, `FreshFlows`, `JoinReturns`, `HandshakeEnds`, `StopsOnTerm`, `FramingEnds`,
`Shown`, `Recovers`, `Ends`, `DownFollows`, `WorkersEnd`, and of `PacedPlays` that everything is
played). For `StopCompletes`, `JoinReturns`, `WorkersEnd` and `FramingEnds` the bound on the steps
is proved, for `FramingEnds`, `DownFollows` and `PacedPlays` what holds at the end of them; what is
left is that an unfinished thread can and does move. Of `Parsed`, the lines and the datagrams are
proved; the other parsers are recursive operators, about which this prover cannot reason. Every
other property of a passing run is a theorem.

## 6. Not modelled

- Cryptography and the ALAC decoder: numeric algorithms over vendored libraries, out of TLC's
  reach and without protocol state. Their outcome is a choice where they are used.
- Text: decimal scanning, header lookup, the layout of the ALAC cookie, HTTP and RTSP wording,
  building mDNS queries, formatting TXT records. A header is present, absent or malformed.
- What is computed and never used: `clock_policy`, `seqext_ts`, the NTP time of a sync packet.
- A child process that survives SIGKILL in the kernel (`kill_bounded`, `reap_bounded`).
- A FLUSH without RTP-Info, which makes the receiver go back to the boundary of the RECORD or
  FLUSH before it and accept the old epoch again (`src/rtsp.c:156`). iOS and iTunes send it
  always, and without it no promise of the receive path is left to check.
- The menu entries that run `airplay-on` and `airplay-off` directly, beside a supervisor.
- The status line of the Kindlet (`edtApply`, `fail`), FBInk, the vendored mDNS responder, the
  jailbreak gateway, other vendored libraries, the build.

## 7. Order of work

Receive path, session threads, their proofs, server and framing, DACP and display, supervisor
and lease, Kindlet and installer; then the timing exchange, the parsers, the control thread,
the keyboard and encoder, blocking replies and `rtp_open`, the Wi-Fi toggle, and the proofs
about timing, server, DACP and lease; then the proofs about the buffer, framing, display, control
thread, connection, supervisor, Kindlet and installer; then the contract between Kindlet and
supervisor, the line buffer and the datagrams, and the safety halves of the liveness properties.
What would come next:

1. The composition of `RtspServer` with `Dacp` (which requests start a generation).
2. Abstract specifications of the display (shows the last publication) and of the lease (an
   ordered, lossy channel), shown to be implemented.
3. The remaining parsers of `Parsers` as recursive functions, and their references proved as that
   of the line buffer is.

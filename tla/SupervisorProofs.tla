-------------------------- MODULE SupervisorProofs --------------------------
(***************************************************************************)
(* Proofs about the supervisor: the scripts and the receiver it runs (module *)
(* Supervisor), and the deadlines of a lease (module Lease), for every value *)
(* of their constants. The two share no variable.                          *)
(***************************************************************************)
EXTENDS Supervisor, Lease, SupervisorLife, TLAPS

OnSteps == {"config", "fw", "perf", "spawn", "poll"}
OffSteps == {"fw", "perf", "pid", "wait", "rm"}

ScriptStates ==
  [name : {"none", "on", "off"}, pc : OnSteps \cup OffSteps \cup {"done"}, hung : BOOLEAN, wifi : BOOLEAN]

\* The types, and which script runs in which state of the supervisor.
SupTypes ==
  /\ sup \in {"gone", "boot", "reconcile", "prelease", "on", "lease", "off"}
  /\ script \in ScriptStates
  /\ fw \in BOOLEAN /\ perf \in BOOLEAN /\ wifi \in BOOLEAN /\ missed \in BOOLEAN
  /\ g_stop \in BOOLEAN /\ torn \in BOOLEAN /\ spid \in BOOLEAN /\ child \in BOOLEAN
  /\ cut \in {"none", "orphan", "TERM", "deadline", "KILL", "toggle"}
  /\ raopd \in {"none", "starting", "up", "terming"} /\ rpid \in {"none", "live", "stale"}
  /\ toggle \in {"idle", "pid", "fw", "perf"}
  /\ script.hung => script.pc \in {"fw", "perf"}
  /\ script.name = "none" => script.pc = "done"
  /\ script.name = "on" => sup = "on" /\ script.pc \in OnSteps /\ ~g_stop
  /\ script.name = "off" => sup \in {"reconcile", "off"} /\ script.pc \in OffSteps
  /\ sup # "gone" => (torn <=> sup = "off")
  /\ cut = "TERM" => sup \in {"gone", "boot", "off"}
  /\ cut = "KILL" => sup \in {"gone", "boot"}
  /\ rpid = "live" => raopd \in {"up", "terming"}

\* The receiver, while the supervisor answers for it: a pidfile names it as soon
\* as it is up, it is started by airplay-on only, and it is gone or told to go
\* once an airplay-off has passed its TERM.
Known == cut \notin {"deadline", "orphan"}
ReceiverInv ==
  Known =>
    /\ raopd = "starting" => script.name = "on" /\ script.pc = "poll" /\ child /\ rpid = "none"
    /\ raopd = "up" =>
         /\ rpid = "live"
         /\ \/ sup = "lease"
            \/ sup = "on" /\ Idle
            \/ script.name = "on" /\ script.pc = "poll"
            \/ script.name = "off" /\ script.pc \in {"fw", "perf", "pid"}

\* An airplay-off of this supervisor has run to its end, or it has left.
Swept ==
  \/ sup \in {"gone", "boot", "prelease"}
  \/ Idle /\ sup = "off"
  \/ Idle /\ sup = "reconcile" /\ ~g_stop

\* The device is clean before a lease and after one, and gets so step by step.
CleanInv ==
  /\ cut \in {"none", "toggle"} =>
       /\ Swept => rpid = "none"
       /\ script.name = "on" /\ script.pc # "poll" => rpid = "none"
  /\ cut = "none" =>
       /\ Swept => ~fw /\ ~perf
       /\ script.name = "off" /\ script.pc # "fw" => ~fw
       /\ script.name = "off" /\ script.pc \notin {"fw", "perf"} => ~perf
       /\ sup \in {"gone", "boot"} => ~spid

\* The Wi-Fi flag reaches a receiver that is starting or up, through airplay-on
\* or through a toggle that is still on its way.
WifiInv ==
  cut = "none" /\ ~missed =>
    /\ script.name = "on" /\ script.pc \in {"fw", "perf", "spawn"} /\ toggle # "pid" =>
         /\ script.wifi = wifi
         /\ script.pc # "fw" => fw = wifi
         /\ script.pc = "spawn" => perf = wifi
    /\ sup \in {"on", "lease"} /\ raopd \in {"starting", "up"} =>
         /\ toggle \in {"idle", "perf"} => fw = wifi
         /\ toggle = "idle" => perf = wifi

SupInv == SupTypes /\ ReceiverInv /\ CleanInv /\ WifiInv

\* A supervisor that has just started.
LEMMA SupInitInv == Init => SupInv
<1> SUFFICES ASSUME Init PROVE SupInv
  OBVIOUS
<1>1. /\ g_stop \in BOOLEAN /\ torn \in BOOLEAN /\ fw \in BOOLEAN /\ perf \in BOOLEAN
      /\ child \in BOOLEAN /\ spid \in BOOLEAN /\ wifi \in BOOLEAN /\ missed \in BOOLEAN
  BY Zenon DEF Init
<1> QED
  BY <1>1, Zenon DEF Init, NoScript, SupInv, SupTypes, ReceiverInv, CleanInv, WifiInv, Known, Swept, Idle, OnSteps, OffSteps,
         ScriptStates

\* airplay-off sweeps the device step by step.
LEMMA OffInv ==
  ASSUME SupInv, OffFirewall \/ OffPowersave \/ OffNoPidfile \/ OffTerm \/ OffWaited \/ OffRemove
  PROVE  SupInv'
<1> USE DEF SupInv, SupTypes, ReceiverInv, CleanInv, WifiInv, Known, Swept, Idle, OnSteps, OffSteps,
            ScriptStates,             daemon, menu, outside, device
<1>1. CASE OffFirewall
  <2>1. fw' \in BOOLEAN /\ ~fw'
    BY <1>1, Zenon DEF OffFirewall
  <2> QED  BY <1>1, <2>1 DEF OffFirewall, Running, GoTo, Exit, NoScript
<1>2. CASE OffPowersave
  <2>1. perf' \in BOOLEAN /\ ~perf'
    BY <1>2, Zenon DEF OffPowersave
  <2> QED  BY <1>2, <2>1 DEF OffPowersave, Running, GoTo, Exit, NoScript
<1>3. CASE OffNoPidfile
  BY <1>3 DEF OffNoPidfile, Running, GoTo, Exit, NoScript
<1>4. CASE OffTerm
  BY <1>4 DEF OffTerm, Running, GoTo, Exit, NoScript
<1>5. CASE OffWaited
  BY <1>5 DEF OffWaited, Running, GoTo, Exit, NoScript
<1>6. CASE OffRemove
  BY <1>6 DEF OffRemove, Running, GoTo, Exit, NoScript
<1> QED  BY <1>1, <1>2, <1>3, <1>4, <1>5, <1>6, Zenon

\* airplay-on sets the device up for a lease.
LEMMA OnInv ==
  ASSUME SupInv, OnReads \/ OnFirewall \/ OnMaxperf \/ OnSpawn \/ OnReady \/ OnGivesUp
  PROVE  SupInv'
<1> USE DEF SupInv, SupTypes, ReceiverInv, CleanInv, WifiInv, Known, Swept, Idle, OnSteps, OffSteps,
            ScriptStates,             daemon, menu, outside, device
<1>1. CASE OnReads
  <2>1. /\ script' \in ScriptStates
        /\ script'.name = "on" /\ script'.pc = "fw" /\ script'.wifi = wifi /\ ~script'.hung
    BY <1>1, Zenon DEF OnReads, Running
  <2> QED  BY <1>1, <2>1 DEF OnReads, Running
<1>2. CASE OnFirewall
  BY <1>2 DEF OnFirewall, Running, GoTo, Exit, NoScript
<1>3. CASE OnMaxperf
  BY <1>3 DEF OnMaxperf, Running, GoTo, Exit, NoScript
<1>4. CASE OnSpawn
  <2>1. child' \in BOOLEAN /\ (child' <=> raopd = "none")
    BY <1>4, Zenon DEF OnSpawn
  <2> QED  BY <1>4, <2>1 DEF OnSpawn, Running, GoTo, Exit, NoScript
<1>5. CASE OnReady
  BY <1>5 DEF OnReady, Running, GoTo, Exit, NoScript
<1>6. CASE OnGivesUp
  BY <1>6 DEF OnGivesUp, Running, GoTo, Exit, NoScript
<1> QED  BY <1>1, <1>2, <1>3, <1>4, <1>5, <1>6, Zenon

\* The receiver's own steps.
LEMMA RaopdInv ==
  ASSUME SupInv, RaopdPublish \/ RaopdDies \/ RaopdStops
  PROVE  SupInv'
<1> USE DEF SupInv, SupTypes, ReceiverInv, CleanInv, WifiInv, Known, Swept, Idle, OnSteps, OffSteps,
            ScriptStates,             daemon, menu, outside, device
<1>1. CASE RaopdPublish
  BY <1>1 DEF RaopdPublish
<1>2. CASE RaopdDies
  BY <1>2 DEF RaopdDies
<1>3. CASE RaopdStops
  BY <1>3 DEF RaopdStops
<1> QED  BY <1>1, <1>2, <1>3, Zenon

\* The Wi-Fi toggle beside the supervisor.
LEMMA ToggleInv ==
  ASSUME SupInv, ToggleFlips \/ ToggleApplies \/ ToggleLeaves \/ ToggleFirewall \/ TogglePower
  PROVE  SupInv'
<1> USE DEF SupInv, SupTypes, ReceiverInv, CleanInv, WifiInv, Known, Swept, Idle, OnSteps, OffSteps,
            ScriptStates,             daemon, menu, outside, device
<1>1. CASE ToggleFlips
  BY <1>1 DEF ToggleFlips
<1>2. CASE ToggleApplies
  BY <1>2 DEF ToggleApplies
<1>3. CASE ToggleLeaves
  BY <1>3 DEF ToggleLeaves
<1>4. CASE ToggleFirewall
  BY <1>4 DEF ToggleFirewall, LateToggle
<1>5. CASE TogglePower
  BY <1>5 DEF TogglePower, LateToggle
<1> QED  BY <1>1, <1>2, <1>3, <1>4, <1>5, Zenon

\* The supervisor's steps, from its launch to its exit.
LEMMA DaemonInv ==
  ASSUME SupInv, Launch \/ Register \/ RegisterFails \/ Reconciled \/ ReconcileStopped \/ Unleased \/ Accept \/ Started \/ StartFailed \/ LeaseEnds \/ LeaseStop \/ Leave
  PROVE  SupInv'
<1> USE DEF SupInv, SupTypes, ReceiverInv, CleanInv, WifiInv, Known, Swept, Idle, OnSteps, OffSteps,
            ScriptStates,             daemon, menu, outside, device
<1>1. CASE Launch
  <2>1. g_stop' \in BOOLEAN /\ ~g_stop' /\ torn' \in BOOLEAN /\ ~torn'
    BY <1>1, Zenon DEF Launch
  <2> QED  BY <1>1, <2>1 DEF Launch
<1>2. CASE Register
  <2>1. spid' \in BOOLEAN
    BY <1>2, Zenon DEF Register
  <2> QED  BY <1>2, <2>1 DEF Register, Inherited, Begin
<1>3. CASE RegisterFails
  BY <1>3 DEF RegisterFails
<1>4. CASE Reconciled
  BY <1>4 DEF Reconciled
<1>5. CASE ReconcileStopped
  BY <1>5 DEF ReconcileStopped, Teardown, Begin
<1>6. CASE Unleased
  BY <1>6 DEF Unleased, Teardown, Begin
<1>7. CASE Accept
  <2>1. missed' \in BOOLEAN
    BY <1>7, Zenon DEF Accept
  <2> QED  BY <1>7, <2>1 DEF Accept, Begin
<1>8. CASE Started
  BY <1>8 DEF Started
<1>9. CASE StartFailed
  BY <1>9 DEF StartFailed, Teardown, Begin
<1>10. CASE LeaseEnds
  BY <1>10 DEF LeaseEnds, Teardown, Begin
<1>11. CASE LeaseStop
  BY <1>11 DEF LeaseStop, Teardown, Begin
<1>12. CASE Leave
  <2>1. spid' \in BOOLEAN /\ ~spid'
    BY <1>12, Zenon DEF Leave
  <2> QED  BY <1>12, <2>1 DEF Leave
<1> QED  BY <1>1, <1>2, <1>3, <1>4, <1>5, <1>6, <1>7, <1>8, <1>9, <1>10, <1>11, <1>12, Zenon

\* Deadlines, the Kindlet and its signals.
LEMMA OutsideInv ==
  ASSUME SupInv, ScriptHangs \/ ScriptKilled \/ PeerActs \/ GroupTerm \/ GroupKill
  PROVE  SupInv'
<1> USE DEF SupInv, SupTypes, ReceiverInv, CleanInv, WifiInv, Known, Swept, Idle, OnSteps, OffSteps,
            ScriptStates,             daemon, menu, outside, device
<1>1. CASE ScriptHangs
  <2>1. /\ script' \in ScriptStates
        /\ script'.name = script.name /\ script'.pc = script.pc /\ script'.wifi = script.wifi
    BY <1>1, Zenon DEF ScriptHangs
  <2>2. script.name # "none"
    BY <1>1, Zenon DEF ScriptHangs
  <2> QED  BY <1>1, <2>1, <2>2 DEF ScriptHangs
<1>2. CASE ScriptKilled
  BY <1>2 DEF ScriptKilled, Exit, NoScript
<1>3. CASE PeerActs
  BY <1>3 DEF PeerActs
<1>4. CASE GroupTerm
  BY <1>4 DEF GroupTerm, NoScript
<1>5. CASE GroupKill
  BY <1>5 DEF GroupKill, NoScript
<1> QED  BY <1>1, <1>2, <1>3, <1>4, <1>5, Zenon

\* SupInv holds in every reachable state.
THEOREM SupervisorInvariant == Spec => []SupInv
<1>1. SupInv /\ [Next]_vars => SupInv'
  <2> SUFFICES ASSUME SupInv, [Next]_vars PROVE SupInv'
    OBVIOUS
  <2>1. CASE UNCHANGED vars
    BY <2>1 DEF vars, SupInv, SupTypes, ReceiverInv, CleanInv, WifiInv, Known, Swept, Idle
  <2>2. CASE Scripts
    BY <2>2, OffInv, OnInv, Zenon DEF Scripts, airplay_on, airplay_off
  <2>3. CASE Daemon \/ Launch \/ LeaseStop
    BY <2>3, DaemonInv, Zenon DEF Daemon
  <2>4. CASE Raopd \/ airplay_wifi
    BY <2>4, RaopdInv, ToggleInv, Zenon DEF Raopd, airplay_wifi
  <2> QED  BY <2>1, <2>2, <2>3, <2>4, OutsideInv, Zenon DEF Next
<1> QED  BY <1>1, SupInitInv, PTL DEF Spec

\* A supervisor that nothing kept from its duty leaves the device as it found it,
\* and waits for a lease with a clean one.
THEOREM EveryExitIsClean == Spec => []CleanExit
<1>1. SupInv => CleanExit
  BY Zenon DEF SupInv, SupTypes, ReceiverInv, CleanInv, Known, Swept, Idle, CleanExit, Restored
<1> QED  BY <1>1, SupervisorInvariant, PTL

\* Firewall and power-save follow the menu while a receiver serves a lease.
THEOREM WifiAlwaysFollows == Spec => []WifiFollows
<1>1. SupInv => WifiFollows
  BY Zenon DEF SupInv, SupTypes, WifiInv, WifiFollows
<1> QED  BY <1>1, SupervisorInvariant, PTL

\* No receiver outlives its supervisor.
THEOREM NoReceiverIsOrphaned == Spec => []NoOrphan
<1>1. SupInv => NoOrphan
  BY Zenon DEF SupInv, SupTypes, ReceiverInv, Known, Idle, NoOrphan
<1> QED  BY <1>1, SupervisorInvariant, PTL

-----------------------------------------------------------------------------
\* The supervisor as the Kindlet sees it.

\* Its life in the words of module SupervisorLife: it leaves from the moment it
\* is told to stop, and its last step gives back pidfile and port in one.
Life ==
  IF sup = "gone" THEN "none" ELSE IF sup = "boot" THEN "forked"
  ELSE IF sup = "off" \/ g_stop THEN "leaving" ELSE "up"

\* Nobody knows of a supervisor before it has registered, so nothing stops it.
BootFresh == sup = "boot" => ~g_stop

\* The steps that neither start nor stop a supervisor.
LEMMA LifeUnchanged ==
  ASSUME Scripts \/ ScriptHangs \/ ScriptKilled \/ Raopd \/ airplay_wifi \/ PeerActs \/ UNCHANGED vars
  PROVE  UNCHANGED <<sup, g_stop, spid>>
<1> USE DEF daemon
<1>1. CASE Scripts
  BY <1>1, Zenon DEF Scripts, airplay_on, OnReads, OnFirewall, OnMaxperf, OnSpawn, OnReady, OnGivesUp,
       airplay_off, OffFirewall, OffPowersave, OffNoPidfile, OffTerm, OffWaited, OffRemove
<1>2. CASE ScriptHangs \/ ScriptKilled \/ Raopd \/ PeerActs
  BY <1>2, Zenon DEF ScriptHangs, ScriptKilled, Raopd, RaopdPublish, RaopdDies, RaopdStops, PeerActs
<1>3. CASE airplay_wifi
  BY <1>3, Zenon DEF airplay_wifi, ToggleFlips, ToggleApplies, ToggleLeaves, ToggleFirewall, TogglePower
<1>4. CASE UNCHANGED vars
  BY <1>4, Zenon DEF vars
<1> QED  BY <1>1, <1>2, <1>3, <1>4, Zenon

\* The steps that do, one by one.
LEMMA LifeSteps ==
  ASSUME BootFresh, [Next]_vars
  PROVE  BootFresh' /\ LifeStep(Life, spid, Life', spid', cut' = "KILL")
<1>1. CASE Launch
  BY <1>1, Zenon DEF Launch, Forks, LifeStep, Life, BootFresh
<1>2. CASE Register \/ RegisterFails
  <2>1. BootFresh' /\ Life = "forked"
    BY <1>2, Zenon DEF Register, RegisterFails, Life, BootFresh
  <2>2. CASE Register
    <3>1. sup' = "reconcile" /\ ~g_stop'
      BY <2>2, Zenon DEF Register, BootFresh
    <3>2. Life' = "up"
      BY <3>1, Zenon DEF Life
    <3>3. spid'
      BY <2>2, Zenon DEF Register
    <3> QED  BY <2>1, <3>2, <3>3, Zenon DEF LifeStep, Registers
  <2>3. CASE RegisterFails
    BY <2>1, <2>3, Zenon DEF RegisterFails, LifeStep, GivesNoLife, Life
  <2> QED  BY <1>2, <2>2, <2>3, Zenon
<1>3. CASE Reconciled \/ Accept \/ Started
  <2>1. BootFresh' /\ Life' = Life
    BY <1>3 DEF Reconciled, Accept, Started, Life, BootFresh
  <2>2. spid' = spid
    BY <1>3, Zenon DEF Reconciled, Accept, Started
  <2> QED  BY <2>1, <2>2, Zenon DEF LifeStep
<1>4. CASE ReconcileStopped \/ Unleased \/ StartFailed \/ LeaseEnds \/ LeaseStop
  <2>1. BootFresh' /\ Life \in {"up", "leaving"} /\ Life' = "leaving"
    BY <1>4, Zenon DEF ReconcileStopped, Unleased, StartFailed, LeaseEnds, LeaseStop, Teardown, Life, BootFresh
  <2>2. spid' = spid
    BY <1>4, Zenon DEF ReconcileStopped, Unleased, StartFailed, LeaseEnds, LeaseStop, Teardown
  <2> QED  BY <2>1, <2>2, Zenon DEF LifeStep, Leaves
<1>5. CASE Leave
  BY <1>5, Zenon DEF Leave, Exits, LifeStep, Life, BootFresh
<1>6. CASE GroupTerm
  BY <1>6, Zenon DEF GroupTerm, Leaves, LifeStep, Life, BootFresh
<1>7. CASE GroupKill
  BY <1>7, Zenon DEF GroupKill, Killed, GivesNoLife, LifeStep, Life, BootFresh
<1>8. CASE Scripts \/ ScriptHangs \/ ScriptKilled \/ Raopd \/ airplay_wifi \/ PeerActs \/ UNCHANGED vars
  <2>1. sup' = sup /\ g_stop' = g_stop /\ spid' = spid
    BY <1>8, LifeUnchanged, Zenon
  <2>2. BootFresh' /\ Life' = Life
    BY <2>1, Zenon DEF BootFresh, Life
  <2> QED  BY <2>1, <2>2, Zenon DEF LifeStep
<1> QED  BY <1>1, <1>2, <1>3, <1>4, <1>5, <1>6, <1>7, <1>8, Zenon DEF Next, Daemon

\* A supervisor lives the life the Kindlet counts on: it writes its pidfile when
\* it has the port, it does not serve again once it is told to stop or its lease
\* has ended, and unless the Kindlet killed it its pidfile goes with it.
THEOREM SupervisorKeepsItsLife == Spec => [][LifeStep(Life, spid, Life', spid', cut' = "KILL")]_vars
<1>1. Init => BootFresh
  BY Zenon DEF Init, BootFresh
<1> QED  BY <1>1, LifeSteps, PTL DEF Spec

-----------------------------------------------------------------------------
\* The deadlines.

\* The lines that renew the lease, commands apart.
Counts == {"HELLO", "PING"}

\* A Kindlet that keeps its beat.
Beating == kindlet = "live" /\ ~eof /\ ~put_off

\* The most that the scripts and the commands relayed since the peer last wrote
\* a line that counts may have taken.
Delay == OFF_DEADLINE + ON_DEADLINE + (backlog - (cmds + relays)) * RELAY

ClocksOK ==
  /\ since_hb \in Nat /\ waited \in Nat /\ quiet \in Nat /\ idle \in Nat
  /\ cmds \in Nat /\ relays \in Nat /\ backlog \in Nat /\ cmds + relays <= backlog
  /\ pc \in {"off", "on", "top", "poll", "relay", "ended"} /\ kindlet \in {"live", "silent"}
  /\ pc = "relay" => relays > 0
  /\ pc \in {"off", "on", "top", "poll"} => relays = 0

\* While it beats, a line that counts was written at most a late beat ago, the
\* supervisor's clock runs behind the writer's unless a line waits to be
\* read, and every line that waits is one that counts or STOP.
BeatInv ==
  Beating =>
    /\ quiet = idle /\ idle <= HEARTBEAT + LATE
    /\ inbox \subseteq Counts \cup {"STOP"}
    /\ inbox = {} /\ cmds = 0 => pc \in {"relay", "ended"} \/ since_hb <= quiet
    /\ pc = "top" => since_hb <= SUP_HEARTBEAT_TIMEOUT

\* How the two clocks of a dead lease are related at each step of the loop.
DeadInv ==
  /\ pc = "off" => quiet <= waited /\ waited <= OFF_DEADLINE
  /\ pc = "on" => quiet <= OFF_DEADLINE + waited /\ waited <= ON_DEADLINE /\ since_hb = waited
  /\ pc = "poll" => waited <= TICK /\ since_hb <= SUP_HEARTBEAT_TIMEOUT + waited
  /\ pc = "top" => since_hb <= SUP_HEARTBEAT_TIMEOUT + TICK
  /\ pc = "relay" => waited <= RELAY /\ quiet <= Delay + waited
  /\ pc \in {"top", "poll"} => quiet <= Delay + since_hb
  /\ pc \in {"top", "poll"} /\ (cmds > 0 \/ inbox \cap Counts # {}) => quiet <= Delay

LeaseInv == ClocksOK /\ BeatInv /\ DeadInv /\ NoFalseExpiry

\* The assumptions, deadline by deadline.
LEMMA Deadlines ==
  /\ SUP_HEARTBEAT_TIMEOUT \in Nat /\ TICK \in Nat /\ ON_DEADLINE \in Nat /\ OFF_DEADLINE \in Nat
  /\ HEARTBEAT \in Nat /\ LATE \in Nat /\ RELAY \in Nat
  /\ ON_DEADLINE <= SUP_HEARTBEAT_TIMEOUT /\ HEARTBEAT + LATE <= SUP_HEARTBEAT_TIMEOUT
  BY LeaseAssumption, DeadlinesFit, Zenon

\* Each command that is relayed adds one RELAY.
LEMMA Share ==
  ASSUME NEW a \in Nat, NEW b \in Nat, a <= b
  PROVE  a * RELAY \in Nat /\ a * RELAY <= b * RELAY /\ (a + 1) * RELAY = a * RELAY + RELAY
  BY Deadlines

\* Delay grows up to one RELAY for every command of the backlog.
LEMMA DelayBounds ==
  ASSUME ClocksOK
  PROVE  /\ Delay \in Nat /\ OFF_DEADLINE + ON_DEADLINE <= Delay
         /\ Delay <= OFF_DEADLINE + ON_DEADLINE + backlog * RELAY /\ backlog * RELAY \in Nat
         /\ relays > 0 => Delay + RELAY <= OFF_DEADLINE + ON_DEADLINE + backlog * RELAY
<1> DEFINE a == backlog - (cmds + relays)
<1>1. a \in Nat /\ backlog \in Nat /\ a <= backlog /\ (relays > 0 => a + 1 <= backlog)
  BY DEF ClocksOK
<1>2. Delay = OFF_DEADLINE + ON_DEADLINE + a * RELAY
  BY DEF Delay
<1> HIDE DEF a
<1>3. a * RELAY \in Nat /\ a * RELAY <= backlog * RELAY /\ backlog * RELAY \in Nat
  BY <1>1, Share
<1>4. relays > 0 => (a + 1) * RELAY <= backlog * RELAY
  BY <1>1, Share
<1>5. (a + 1) * RELAY = a * RELAY + RELAY
  BY <1>1, Share, Zenon
<1> QED  BY <1>2, <1>3, <1>4, <1>5, Deadlines

\* Lines that are moved from the socket to the relay delay nothing.
LEMMA DelaySame ==
  ASSUME cmds' + relays' = cmds + relays, backlog' = backlog
  PROVE  Delay' = Delay
  BY Zenon DEF Delay

\* Arithmetic of two counters and their sum.
LEMMA Sum ==
  ASSUME NEW a \in Nat, NEW b \in Nat
  PROVE  a + b \in Nat /\ (a + b) - (a + b) = 0 /\ a + b <= a + b
  OBVIOUS

\* A line that counts starts the account afresh.
LEMMA DelayReset ==
  ASSUME cmds' \in Nat, relays' \in Nat, backlog' = cmds' + relays'
  PROVE  Delay' = OFF_DEADLINE + ON_DEADLINE
<1>1. backlog' - (cmds' + relays') = 0
  BY Sum, Zenon
<1>2. 0 * RELAY = 0
  BY Deadlines
<1>3. Delay' = OFF_DEADLINE + ON_DEADLINE + 0
  BY <1>1, <1>2, Zenon DEF Delay
<1> QED  BY <1>3, Deadlines

\* A lease starts with every clock at zero.
LEMMA LeaseInitInv ==
  ASSUME LeaseInit
  PROVE  LeaseInv
<1>1. ClocksOK /\ DeadInv
  BY Deadlines DEF LeaseInit, ClocksOK, DeadInv
<1>2. BeatInv /\ NoFalseExpiry
  BY Deadlines DEF LeaseInit, BeatInv, NoFalseExpiry, Beating, Counts
<1> QED  BY <1>1, <1>2, Zenon DEF LeaseInv

\* The supervisor's steps, but for the reading of lines and the relay.
LEMMA SupervisorInv ==
  ASSUME LeaseInv, AcceptLease \/ OnSucceeds \/ OnFails \/ Tick \/ PollTimesOut \/ ReadEof
  PROVE  LeaseInv'
<1>1. /\ UNCHANGED <<inbox, cmds, relays, eof, kindlet, quiet, idle, put_off, backlog>>
      /\ Delay' = Delay
  BY Zenon DEF AcceptLease, OnSucceeds, OnFails, Tick, PollTimesOut, ReadEof, queue, writer, Delay
<1>2. Delay \in Nat /\ OFF_DEADLINE + ON_DEADLINE <= Delay
  BY DelayBounds, Zenon DEF LeaseInv
<1> USE Deadlines DEF LeaseInv
<1>3. CASE OnFails \/ ReadEof
  <2>1. pc' = "ended" /\ since_hb' = since_hb /\ waited' = waited /\ why' # "expired"
    BY <1>3 DEF OnFails, ReadEof
  <2> QED  BY <1>1, <2>1, Zenon DEF ClocksOK, BeatInv, DeadInv, NoFalseExpiry, Beating
<1>4. CASE AcceptLease
  <2>1. pc = "off" /\ pc' = "on" /\ waited' = 0 /\ since_hb' = 0 /\ why' = why
    BY <1>4, Zenon DEF AcceptLease
  <2>2. ClocksOK' /\ NoFalseExpiry'
    BY <1>1, <2>1, Zenon DEF ClocksOK, NoFalseExpiry
  <2>3. DeadInv'
    BY <1>1, <2>1 DEF ClocksOK, DeadInv
  <2>4. BeatInv'
    BY <1>1, <2>1 DEF ClocksOK, BeatInv, Beating
  <2> QED  BY <2>2, <2>3, <2>4, Zenon
<1>5. CASE OnSucceeds
  <2>1. pc = "on" /\ pc' = "top" /\ waited' = 0 /\ since_hb' = since_hb /\ why' = why
    BY <1>5, Zenon DEF OnSucceeds
  <2>2. ClocksOK' /\ NoFalseExpiry'
    BY <1>1, <2>1, Zenon DEF ClocksOK, NoFalseExpiry
  <2>3. DeadInv'
    BY <1>1, <1>2, <2>1 DEF ClocksOK, DeadInv
  <2>4. BeatInv'
    BY <1>1, <2>1 DEF ClocksOK, DeadInv, BeatInv, Beating
  <2> QED  BY <2>2, <2>3, <2>4, Zenon
<1>6. CASE Tick
  <2>1. /\ pc = "top" /\ pc' \in {"ended", "poll"} /\ waited' = 0 /\ since_hb' = since_hb
        /\ since_hb > SUP_HEARTBEAT_TIMEOUT \/ (pc' = "poll" /\ why' = why)
        /\ pc' = "poll" => ~(since_hb > SUP_HEARTBEAT_TIMEOUT)
    BY <1>6, Zenon DEF Tick
  <2>2. ClocksOK'
    BY <1>1, <2>1, Zenon DEF ClocksOK
  <2>3. DeadInv'
    BY <1>1, <1>2, <2>1 DEF ClocksOK, DeadInv
  <2>4. BeatInv'
    BY <1>1, <2>1 DEF ClocksOK, BeatInv, Beating
  <2>5. NoFalseExpiry'
    <3>1. CASE since_hb > SUP_HEARTBEAT_TIMEOUT
      <4>1. ~Beating
        BY <2>1, <3>1 DEF ClocksOK, BeatInv
      <4>2. kindlet \in {"live", "silent"}
        BY Zenon DEF ClocksOK
      <4> QED  BY <1>1, <4>1, <4>2, Zenon DEF Beating, NoFalseExpiry
    <3>2. CASE why' = why
      BY <1>1, <3>2, Zenon DEF NoFalseExpiry
    <3> QED  BY <2>1, <3>1, <3>2, Zenon
  <2> QED  BY <2>2, <2>3, <2>4, <2>5, Zenon
<1>7. CASE PollTimesOut
  <2>1. /\ pc = "poll" /\ pc' = "top" /\ waited' = waited /\ since_hb' = since_hb /\ why' = why
        /\ inbox = {} /\ ~(cmds > 0)
    BY <1>7, Zenon DEF PollTimesOut, Readable
  <2>2. ClocksOK' /\ NoFalseExpiry'
    BY <1>1, <2>1, Zenon DEF ClocksOK, NoFalseExpiry
  <2>3. DeadInv'
    BY <1>1, <2>1 DEF ClocksOK, DeadInv
  <2>4. BeatInv'
    BY <1>1, <2>1 DEF ClocksOK, BeatInv, Beating
  <2> QED  BY <2>2, <2>3, <2>4, Zenon
<1> QED  BY <1>3, <1>4, <1>5, <1>6, <1>7, Zenon

\* Some lines are read: those that count renew the lease, and commands go on to
\* the relay.
LEMMA ReadInv ==
  ASSUME LeaseInv, ReadLines
  PROVE  LeaseInv'
<1> USE Deadlines DEF LeaseInv
<1>1. PICK lines \in SUBSET inbox, n \in 0 .. cmds :
        /\ lines # {} \/ n > 0
        /\ inbox' = inbox \ lines /\ cmds' = cmds - n /\ relays' = n
        /\ since_hb' = IF lines \cap {"HELLO", "PING"} # {} THEN 0 ELSE since_hb
        /\ IF "STOP" \in lines
             THEN n = 0 /\ pc' = "ended" /\ why' = "stop"
             ELSE pc' = NextRound(n) /\ UNCHANGED why
  BY Zenon DEF ReadLines
<1>2. pc = "poll" /\ waited' = 0 /\ UNCHANGED <<eof, kindlet, quiet, idle, put_off, backlog>>
  BY Zenon DEF ReadLines, writer
<1>3. /\ cmds \in Nat /\ relays = 0 /\ n \in Nat /\ n <= cmds /\ cmds' \in Nat /\ cmds' + relays' = cmds + relays
      /\ cmds' > 0 \/ n > 0 => cmds > 0
  BY <1>1, <1>2 DEF ClocksOK
<1>4. Delay' = Delay /\ Delay \in Nat
  BY <1>2, <1>3, DelaySame, DelayBounds, Zenon
<1>5. since_hb' \in {0, since_hb} /\ since_hb \in Nat /\ quiet \in Nat
  BY <1>1, Zenon DEF ClocksOK
<1>6. pc' \in {"ended", "relay", "top"} /\ (pc' = "relay" => n > 0) /\ (pc' = "top" => n = 0 /\ "STOP" \notin lines)
  <2>1. ~(n > 0) => n = 0
    BY <1>3
  <2> QED  BY <1>1, <2>1, Zenon DEF NextRound
<1>7. ClocksOK'
  BY <1>1, <1>2, <1>3, <1>5, <1>6 DEF ClocksOK
<1>8. NoFalseExpiry'
  <2>1. why' = why \/ why' # "expired"
    BY <1>1
  <2> QED  BY <1>2, <2>1, Zenon DEF NoFalseExpiry
<1>9. pc' = "relay" => quiet <= Delay
  BY <1>2, <1>3, <1>6, Zenon DEF DeadInv
<1>10. pc' = "top" => quiet <= Delay + since_hb'
  <2>1. CASE lines \cap {"HELLO", "PING"} # {}
    <3>1. since_hb' = 0 /\ quiet <= Delay
      BY <1>1, <1>2, <2>1, Zenon DEF DeadInv, Counts
    <3> QED  BY <1>4, <1>5, <3>1
  <2>2. CASE lines \cap {"HELLO", "PING"} = {}
    BY <1>1, <1>2, <2>2, Zenon DEF DeadInv
  <2> QED  BY <2>1, <2>2, Zenon
<1>11. pc' = "top" /\ (cmds' > 0 \/ inbox' \cap Counts # {}) => quiet <= Delay
  BY <1>1, <1>2, <1>3, Zenon DEF DeadInv
<1>12. DeadInv'
  <2>1. waited' <= RELAY /\ since_hb' <= SUP_HEARTBEAT_TIMEOUT + TICK
    BY <1>2, <1>5 DEF DeadInv, ClocksOK
  <2>2. quiet <= Delay => quiet <= Delay + 0
    BY <1>4, <1>5
  <2>3. /\ pc' \notin {"off", "on", "poll"}
        /\ pc' \in {"top", "poll"} => pc' = "top"
    BY <1>6
  <2> QED  BY <1>2, <1>4, <1>9, <1>10, <1>11, <2>1, <2>2, <2>3, Zenon DEF DeadInv
<1>13. ASSUME Beating' PROVE BeatInv'
  <2>1. Beating /\ quiet' = idle' /\ idle' <= HEARTBEAT + LATE /\ inbox \subseteq Counts \cup {"STOP"}
    BY <1>2, <1>13, Zenon DEF Beating, BeatInv
  <2>2. inbox' \subseteq Counts \cup {"STOP"}
    BY <1>1, <2>1, Zenon
  <2>3. pc' = "top" => since_hb' = 0
    <3>1. SUFFICES ASSUME pc' = "top" PROVE lines \cap {"HELLO", "PING"} # {}
      BY <1>1, Zenon
    <3>2. lines # {} /\ "STOP" \notin lines
      BY <1>1, <1>6, <3>1
    <3> QED  BY <2>1, <3>2, Zenon DEF Counts
  <2>4. pc' = "top" => since_hb' <= quiet' /\ since_hb' <= SUP_HEARTBEAT_TIMEOUT
    BY <1>2, <1>5, <2>3
  <2> QED  BY <1>6, <2>1, <2>2, <2>4, Zenon DEF BeatInv
<1> QED  BY <1>7, <1>8, <1>12, <1>13, Zenon DEF BeatInv

\* A command has been relayed: the lease is renewed, and the next command of the
\* same read follows before any tick.
LEMMA RelayedInv ==
  ASSUME LeaseInv, Relayed
  PROVE  LeaseInv'
<1> USE Deadlines DEF LeaseInv
<1>1. /\ pc = "relay" /\ relays' = relays - 1 /\ since_hb' = 0 /\ waited' = 0
      /\ pc' = IF relays > 1 THEN "relay" ELSE "top"
      /\ UNCHANGED <<inbox, cmds, eof, kindlet, quiet, idle, put_off, backlog, why>>
  BY Zenon DEF Relayed, Refreshed, writer
<1>2. /\ cmds \in Nat /\ relays \in Nat /\ relays > 0 /\ backlog \in Nat /\ cmds + relays <= backlog
      /\ waited \in Nat /\ quiet \in Nat /\ waited <= RELAY /\ quiet <= Delay + waited
  BY <1>1, Zenon DEF ClocksOK, DeadInv
<1>3. Delay' = Delay + RELAY /\ Delay \in Nat
  <2> DEFINE a == backlog - (cmds + relays)
  <2>1. a \in Nat /\ a <= a + 1 /\ a + 1 \in Nat /\ backlog' - (cmds' + relays') = a + 1
    BY <1>1, <1>2
  <2>2. Delay = OFF_DEADLINE + ON_DEADLINE + a * RELAY
    BY DEF Delay
  <2> HIDE DEF a
  <2>3. Delay' = OFF_DEADLINE + ON_DEADLINE + (a + 1) * RELAY
    BY <2>1, Zenon DEF Delay
  <2>4. a * RELAY \in Nat /\ (a + 1) * RELAY = a * RELAY + RELAY
    BY <2>1, Share, Zenon
  <2> QED  BY <2>2, <2>3, <2>4
<1>4. quiet <= Delay'
  BY <1>2, <1>3
<1>5. ClocksOK'
  BY <1>1, <1>2 DEF ClocksOK
<1>6. DeadInv'
  <2>1. /\ pc' \in {"top", "relay"} /\ 0 <= RELAY /\ 0 <= SUP_HEARTBEAT_TIMEOUT + TICK
        /\ quiet <= Delay' + 0
    BY <1>1, <1>2, <1>3, <1>4
  <2>2. pc' \notin {"off", "on", "poll"}
    BY <2>1
  <2> QED  BY <1>1, <1>4, <2>1, <2>2, Zenon DEF DeadInv
<1>7. BeatInv' /\ NoFalseExpiry'
  <2>1. 0 <= quiet /\ 0 <= SUP_HEARTBEAT_TIMEOUT
    BY <1>2
  <2> QED  BY <1>1, <2>1, Zenon DEF BeatInv, Beating, NoFalseExpiry
<1> QED  BY <1>5, <1>6, <1>7, Zenon

\* A line that counts is written.
LEMMA WriteInv ==
  ASSUME LeaseInv, Ping \/ Key
  PROVE  LeaseInv'
<1> USE Deadlines DEF LeaseInv
<1>1. /\ quiet' = 0 /\ idle' = 0 /\ UNCHANGED <<pc, since_hb, waited, relays, eof, kindlet, put_off, why>>
      /\ backlog' = cmds' + relays' /\ cmds' \in {cmds, cmds + 1}
      /\ inbox' \subseteq inbox \cup {"PING", "STOP"} /\ inbox \subseteq inbox'
      /\ inbox' # {} \/ cmds' = cmds + 1
  BY DEF Ping, Key
<1>2. cmds \in Nat /\ relays \in Nat /\ cmds' \in Nat /\ relays' \in Nat /\ backlog' \in Nat
  <2>1. cmds \in Nat /\ relays \in Nat /\ relays' = relays /\ cmds' \in {cmds, cmds + 1} /\ backlog' = cmds' + relays'
    BY <1>1, Zenon DEF ClocksOK
  <2>2. cmds' \in Nat
    BY <2>1
  <2> QED  BY <2>1, <2>2, Sum, Zenon
<1>3. Delay' = OFF_DEADLINE + ON_DEADLINE
  BY <1>1, <1>2, DelayReset, Zenon
<1>4. ClocksOK'
  <2>1. 0 \in Nat /\ cmds' + relays' <= backlog'
    BY <1>1, <1>2, Sum, Zenon
  <2> QED  BY <1>1, <1>2, <2>1, Zenon DEF ClocksOK
<1>5. DeadInv'
  <2>1. /\ waited \in Nat /\ since_hb \in Nat
        /\ 0 <= waited /\ 0 <= OFF_DEADLINE + waited /\ 0 <= Delay' + waited /\ 0 <= Delay' + since_hb
        /\ 0 <= Delay'
    BY <1>3 DEF ClocksOK
  <2> QED  BY <1>1, <2>1, Zenon DEF DeadInv
<1>6. BeatInv'
  <2>1. 0 <= HEARTBEAT + LATE /\ ~(inbox' = {} /\ cmds' = 0)
    BY <1>1, <1>2
  <2> QED  BY <1>1, <2>1, Zenon DEF BeatInv, Beating, Counts
<1>7. NoFalseExpiry'
  BY <1>1, Zenon DEF NoFalseExpiry
<1> QED  BY <1>4, <1>5, <1>6, <1>7, Zenon

\* The Kindlet's other steps and the passing of time.
LEMMA KindletInv ==
  ASSUME LeaseInv, KeySwallowed \/ FallSilent \/ Junk \/ KindletCloses \/ Pass
  PROVE  LeaseInv'
<1> USE Deadlines DEF LeaseInv
<1>1. UNCHANGED <<pc, cmds, relays, why, backlog>> /\ Delay' = Delay
  BY Zenon DEF KeySwallowed, FallSilent, Junk, KindletCloses, Pass, queue, writer, Delay
<1>2. CASE KeySwallowed \/ FallSilent \/ Junk \/ KindletCloses
  <2>1. /\ UNCHANGED <<since_hb, waited, quiet>> /\ ~Beating'
        /\ inbox' \cap Counts = inbox \cap Counts /\ idle' \in {0, idle} /\ kindlet' \in {kindlet, "silent"}
    BY <1>2 DEF KeySwallowed, FallSilent, Junk, KindletCloses, queue, writer, Counts, Beating
  <2>2. kindlet = "silent" => kindlet' = "silent"
    BY <2>1
  <2>3. (eof => eof') /\ (put_off => put_off')
    <3>1. CASE KeySwallowed
      BY <3>1, Zenon DEF KeySwallowed
    <3>2. CASE FallSilent
      BY <3>2, Zenon DEF FallSilent
    <3>3. CASE Junk
      BY <3>3, Zenon DEF Junk, writer
    <3>4. CASE KindletCloses
      BY <3>4, Zenon DEF KindletCloses
    <3> QED  BY <1>2, <3>1, <3>2, <3>3, <3>4, Zenon
  <2>4. ClocksOK'
    BY <1>1, <2>1 DEF ClocksOK
  <2>5. DeadInv'
    BY <1>1, <2>1, Zenon DEF DeadInv
  <2> QED  BY <1>1, <2>1, <2>2, <2>3, <2>4, <2>5, Zenon DEF BeatInv, NoFalseExpiry
<1>3. CASE Pass
  <2>1. /\ since_hb' = since_hb + 1 /\ waited' = waited + 1 /\ quiet' = quiet + 1 /\ idle' = idle + 1
        /\ UNCHANGED <<inbox, eof, kindlet, put_off>>
        /\ kindlet = "live" /\ ~eof => idle < HEARTBEAT + LATE
        /\ \/ pc = "off" /\ waited < OFF_DEADLINE
           \/ pc = "on" /\ waited < ON_DEADLINE
           \/ pc = "poll" /\ waited < TICK /\ inbox = {} /\ ~(cmds > 0)
           \/ pc = "relay" /\ waited < RELAY
    BY <1>3, Zenon DEF Pass, queue, Readable
  <2>2. ClocksOK'
    BY <1>1, <2>1 DEF ClocksOK
  <2>3. Delay \in Nat
    BY DelayBounds, Zenon
  <2>4. DeadInv'
    BY <1>1, <2>1, <2>3 DEF ClocksOK, DeadInv
  <2>5. ASSUME Beating' PROVE BeatInv'
    <3>1. Beating /\ idle < HEARTBEAT + LATE
      BY <2>1, <2>5, Zenon DEF Beating
    <3>2. /\ quiet = idle /\ inbox \subseteq Counts \cup {"STOP"}
          /\ inbox = {} /\ cmds = 0 => pc \in {"relay", "ended"} \/ since_hb <= quiet
      BY <3>1, Zenon DEF BeatInv
    <3>3. quiet' = idle' /\ idle' <= HEARTBEAT + LATE /\ pc' # "top"
      BY <1>1, <2>1, <3>1, <3>2 DEF ClocksOK
    <3>4. since_hb <= quiet => since_hb' <= quiet'
      BY <2>1 DEF ClocksOK
    <3> QED  BY <1>1, <2>1, <3>2, <3>3, <3>4, Zenon DEF BeatInv
  <2>6. NoFalseExpiry'
    BY <1>1, <2>1, Zenon DEF NoFalseExpiry
  <2> QED  BY <2>2, <2>4, <2>5, <2>6, Zenon DEF BeatInv
<1> QED  BY <1>2, <1>3, Zenon

\* LeaseInv holds in every reachable state.
THEOREM LeaseInvariant ==
  LeaseSpec => []LeaseInv
<1>1. LeaseInit => LeaseInv
  BY LeaseInitInv, Zenon
<1>2. LeaseInv /\ [LeaseNext]_leaseVars => LeaseInv'
  <2> SUFFICES ASSUME LeaseInv, [LeaseNext]_leaseVars PROVE LeaseInv'
    OBVIOUS
  <2>1. CASE Done \/ UNCHANGED leaseVars
    BY <2>1, Zenon DEF Done, leaseVars, LeaseInv, ClocksOK, BeatInv, DeadInv, NoFalseExpiry, Beating, Delay
  <2> QED  BY <2>1, SupervisorInv, ReadInv, RelayedInv, WriteInv, KindletInv, Zenon DEF LeaseNext
<1> QED  BY <1>1, <1>2, PTL DEF LeaseSpec

\* A Kindlet that keeps its beat does not lose the lease to the timeout, for
\* every value of the deadlines that fits.
THEOREM NoLeaseExpiresFalsely ==
  LeaseSpec => []NoFalseExpiry
<1>1. LeaseInv => NoFalseExpiry
  BY Zenon DEF LeaseInv
<1> QED  BY <1>1, LeaseInvariant, PTL

\* A peer that is silent for the deadlines together, and a relay for every
\* command it left behind, has lost the lease, however many these are.
THEOREM EveryDeadLeaseEnds ==
  LeaseSpec => []DeadLeaseEnds
<1>1. LeaseInv => DeadLeaseEnds
  <2> SUFFICES ASSUME LeaseInv, pc # "ended"
               PROVE  quiet <= OFF_DEADLINE + ON_DEADLINE + backlog * RELAY + SUP_HEARTBEAT_TIMEOUT + TICK
    BY Zenon DEF DeadLeaseEnds
  <2>1. /\ Delay \in Nat /\ OFF_DEADLINE + ON_DEADLINE <= Delay
        /\ Delay <= OFF_DEADLINE + ON_DEADLINE + backlog * RELAY /\ backlog * RELAY \in Nat
        /\ relays > 0 => Delay + RELAY <= OFF_DEADLINE + ON_DEADLINE + backlog * RELAY
    BY DelayBounds, Zenon DEF LeaseInv
  <2>2. CASE pc \in {"off", "on", "top", "poll"}
    BY <2>1, <2>2, Deadlines DEF LeaseInv, ClocksOK, DeadInv
  <2>3. CASE pc = "relay"
    BY <2>1, <2>3, Deadlines DEF LeaseInv, ClocksOK, DeadInv
  <2> QED  BY <2>2, <2>3, Zenon DEF LeaseInv, ClocksOK
<1> QED  BY <1>1, LeaseInvariant, PTL
=============================================================================

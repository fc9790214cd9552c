----------------------------- MODULE Supervisor -----------------------------
(***************************************************************************)
(* One run of airplay-supervisor after the other (supervisor_main.c), with *)
(* the scripts it runs (airplay-on, airplay-off), the receiver they start  *)
(* and kill, the device settings they change, the Wi-Fi toggle of the menu *)
(* that changes them beside the supervisor (airplay-wifi), and the signals *)
(* the Kindlet sends to the whole process group when it is closed.         *)
(*                                                                         *)
(* Time is left to module Lease: a deadline here is a step that becomes    *)
(* possible in the state it guards.                                        *)
(***************************************************************************)
EXTENDS Integers

CONSTANTS
  MAX_RUNS,   \* bound: supervisors launched
  MAX_TERMS,  \* bound: group TERMs per supervisor (stop, then destroy)
  MAX_FLIPS   \* bound: uses of the Wi-Fi toggle

ASSUME SupervisorAssumption == MAX_RUNS \in Nat /\ MAX_TERMS \in Nat /\ MAX_FLIPS \in Nat

VARIABLES
  sup,      \* gone, boot, reconcile, prelease, on, lease, off
  g_stop,
  phase,    \* IDLE or ACTIVE
  torn,     \* g_torn
  script,   \* the script being run: [name, pc, hung, wifi as airplay-on read it]
  rc,       \* exit status of the last script
  peer,     \* the Kindlet's end of the lease: away, live, silent, closed
  fw,       \* the firewall is open
  perf,     \* Wi-Fi power-save is off
  raopd,    \* none, starting, up, terming
  child,    \* raopd is the child of the airplay-on that is running
  rpid,     \* raopd.pid: none, live, stale
  spid,     \* supervisor.pid exists
  cut,      \* what keeps the supervisor from its duty: a receiver it knows
            \* nothing of, airplay-off cut by a deadline or a TERM, a KILL,
            \* a toggle that applied its setting without a lease
  wifi,     \* WIFI in the configuration
  toggle,   \* where airplay-wifi is: idle, pid, fw, perf
  missed,   \* airplay-wifi left to airplay-on a flag that one had read
  flips,
  runs, terms

vars == <<sup, g_stop, phase, torn, script, rc, peer, fw, perf, raopd, child, rpid, spid, cut, wifi, toggle, missed, flips, runs, terms>>
device == <<fw, perf, raopd, child, rpid>>
daemon == <<sup, g_stop, phase, torn, spid, cut>>
menu == <<wifi, toggle, missed, flips>>
outside == <<peer, runs, terms, menu>>

NoScript == [name |-> "none", pc |-> "done", hung |-> FALSE, wifi |-> FALSE]
Begin(name, pc) == [name |-> name, pc |-> pc, hung |-> FALSE, wifi |-> FALSE]
Running(name, pc) == script.name = name /\ script.pc = pc /\ ~script.hung
GoTo(pc) == script' = [script EXCEPT !.pc = pc] /\ UNCHANGED rc
Exit(status) == script' = NoScript /\ rc' = status
Idle == script.name = "none"

Init ==
  /\ sup = "gone" /\ g_stop = FALSE /\ phase = "IDLE" /\ torn = FALSE
  /\ script = NoScript /\ rc = 0 /\ peer = "away"
  /\ fw = FALSE /\ perf = FALSE /\ raopd = "none" /\ child = FALSE
  /\ rpid = "none" /\ spid = FALSE /\ cut = "none" /\ runs = 0 /\ terms = 0
  /\ wifi \in BOOLEAN /\ toggle = "idle" /\ missed = FALSE /\ flips = 0

-----------------------------------------------------------------------------
\* airplay-off.

OffFirewall ==
  /\ Running("off", "fw")
  /\ fw' = FALSE /\ GoTo("perf")
  /\ UNCHANGED <<daemon, outside, perf, raopd, child, rpid>>

OffPowersave ==
  /\ Running("off", "perf")
  /\ perf' = FALSE /\ GoTo("pid")
  /\ UNCHANGED <<daemon, outside, fw, raopd, child, rpid>>

OffNoPidfile ==
  /\ Running("off", "pid") /\ rpid = "none"
  /\ Exit(0)
  /\ UNCHANGED <<daemon, outside, device>>

\* A pid that is not a raopd is not signalled.
OffTerm ==
  /\ Running("off", "pid") /\ rpid # "none"
  /\ IF rpid = "live" THEN raopd' = "terming" /\ GoTo("wait")
                      ELSE GoTo("rm") /\ UNCHANGED raopd
  /\ UNCHANGED <<daemon, outside, fw, perf, child, rpid>>

\* The wait ends when raopd has gone, or after ten seconds with a KILL.
OffWaited ==
  /\ Running("off", "wait")
  /\ raopd' = IF rpid = "live" THEN "none" ELSE raopd
  /\ rpid' = IF rpid = "live" THEN "stale" ELSE rpid
  /\ GoTo("rm")
  /\ UNCHANGED <<daemon, outside, fw, perf, child>>

OffRemove ==
  /\ Running("off", "rm")
  /\ rpid' = "none"
  /\ Exit(0)
  /\ UNCHANGED <<daemon, outside, fw, perf, raopd, child>>

airplay_off ==
  OffFirewall \/ OffPowersave \/ OffNoPidfile \/ OffTerm \/ OffWaited \/ OffRemove

\* airplay-on: the firewall and the power-save follow the configured WIFI, which
\* is read once.
OnReads ==
  /\ Running("on", "config")
  /\ script' = [script EXCEPT !.pc = "fw", !.wifi = wifi]
  /\ UNCHANGED <<daemon, outside, rc, device>>

OnFirewall ==
  /\ Running("on", "fw")
  /\ fw' = script.wifi /\ GoTo("perf")
  /\ UNCHANGED <<daemon, outside, perf, raopd, child, rpid>>

OnMaxperf ==
  /\ Running("on", "perf")
  /\ perf' = script.wifi /\ GoTo("spawn")
  /\ UNCHANGED <<daemon, outside, fw, raopd, child, rpid>>

\* A second raopd fails to take the lock and exits at once.
OnSpawn ==
  /\ Running("on", "spawn")
  /\ child' = (raopd = "none")
  /\ raopd' = IF raopd = "none" THEN "starting" ELSE raopd
  /\ GoTo("poll")
  /\ UNCHANGED <<daemon, outside, fw, perf, rpid>>

OnReady ==
  /\ Running("on", "poll") /\ child /\ raopd # "none" /\ rpid # "none"
  /\ Exit(0)
  /\ UNCHANGED <<daemon, outside, device>>

\* AIRPLAY_START_TRIES are used up.
OnGivesUp ==
  /\ Running("on", "poll")
  /\ raopd' = IF child /\ raopd # "none" THEN "terming" ELSE raopd
  /\ Exit(1)
  /\ UNCHANGED <<daemon, outside, fw, perf, child, rpid>>

airplay_on == OnReads \/ OnFirewall \/ OnMaxperf \/ OnSpawn \/ OnReady \/ OnGivesUp

\* raopd itself: it publishes its pidfile once it has the lock, may end by
\* itself (a crash, or no interface), and unlinks the pidfile when it is told
\* to stop.
RaopdPublish ==
  /\ raopd = "starting"
  /\ raopd' = "up" /\ rpid' = "live"
  /\ UNCHANGED <<daemon, outside, script, rc, fw, perf, child>>

RaopdDies ==
  /\ raopd \in {"starting", "up"}
  /\ raopd' = "none"
  /\ rpid' \in IF rpid = "live" THEN {"stale", "none"} ELSE {rpid}
  /\ UNCHANGED <<daemon, outside, script, rc, fw, perf, child>>

RaopdStops ==
  /\ raopd = "terming"
  /\ raopd' = "none" /\ rpid' = "none"
  /\ UNCHANGED <<daemon, outside, script, rc, fw, perf, child>>

\* airplay-wifi, chosen in the menu: it flips WIFI in the configuration, and then
\* applies it if raopd.pid names a living process, which for a stale pidfile is
\* some other process or none.
ToggleFlips ==
  /\ toggle = "idle" /\ flips < MAX_FLIPS
  /\ wifi' = ~wifi /\ toggle' = "pid" /\ flips' = flips + 1
  /\ UNCHANGED <<daemon, script, rc, device, peer, runs, terms, missed>>

ToggleApplies ==
  /\ toggle = "pid" /\ rpid # "none"
  /\ toggle' = "fw"
  /\ UNCHANGED <<daemon, script, rc, device, peer, runs, terms, wifi, missed, flips>>

ToggleLeaves ==
  /\ toggle = "pid" /\ rpid # "live"
  /\ toggle' = "idle"
  /\ missed' = (missed \/ (script.name = "on" /\ script.pc # "config"))
  /\ UNCHANGED <<daemon, script, rc, device, peer, runs, terms, wifi, flips>>

LateToggle == IF sup \notin {"on", "lease"} /\ cut = "none" THEN "toggle" ELSE cut

\* Faulty variant: the live change only ever opens the firewall.
ToggleOpens ==
  /\ toggle = "fw"
  /\ fw' = TRUE /\ toggle' = "perf" /\ cut' = LateToggle
  /\ UNCHANGED <<sup, g_stop, phase, torn, spid, script, rc, peer, runs, terms, wifi, missed, flips, perf, raopd, child, rpid>>

ToggleFirewall ==
  /\ toggle = "fw"
  /\ fw' = wifi /\ toggle' = "perf" /\ cut' = LateToggle
  /\ UNCHANGED <<sup, g_stop, phase, torn, spid, script, rc, peer, runs, terms, wifi, missed, flips, perf, raopd, child, rpid>>

TogglePower ==
  /\ toggle = "perf"
  /\ perf' = wifi /\ toggle' = "idle" /\ cut' = LateToggle
  /\ UNCHANGED <<sup, g_stop, phase, torn, spid, script, rc, peer, runs, terms, wifi, missed, flips, fw, raopd, child, rpid>>

airplay_wifi == ToggleFlips \/ ToggleApplies \/ ToggleLeaves \/ ToggleFirewall \/ TogglePower

-----------------------------------------------------------------------------
\* run_script: the wait is bounded, and airplay-on is also cancelled by g_stop.
\* The shell alone is killed.
ScriptHangs ==
  /\ script.pc \in {"fw", "perf"} /\ ~script.hung
  /\ script' = [script EXCEPT !.hung = TRUE]
  /\ UNCHANGED <<daemon, outside, rc, device>>

\* Faulty variant: waitpid without a deadline; only a cancel ends a hung script.
ScriptUnbounded ==
  /\ sup # "gone" /\ script.name = "on" /\ g_stop
  /\ Exit(-1)
  /\ UNCHANGED <<daemon, outside, device>>

ScriptKilled ==
  /\ sup # "gone"
  /\ script.hung \/ (script.name = "on" /\ g_stop)
  /\ Exit(-1)
  /\ cut' = IF script.name = "off" THEN "deadline" ELSE cut
  /\ UNCHANGED <<sup, g_stop, phase, torn, spid, outside, device>>

\* supervisor_teardown, the first time.

Teardown ==
  /\ torn' = TRUE /\ sup' = "off" /\ script' = Begin("off", "fw") /\ phase' = "IDLE"
  /\ UNCHANGED <<spid, cut, rc, outside, device>>

\* main, up to write_pidfile: a new supervisor can bind the port only once the
\* one before has gone.
Launch ==
  /\ sup = "gone" /\ runs < MAX_RUNS
  /\ sup' = "boot" /\ runs' = runs + 1 /\ terms' = 0
  /\ g_stop' = FALSE /\ torn' = FALSE /\ phase' = "IDLE" /\ peer' = "away"
  /\ UNCHANGED <<script, rc, spid, cut, device, menu>>

\* airplay-off cannot end a receiver that no pidfile names.
Inherited == IF raopd \in {"starting", "up"} /\ rpid # "live" THEN "orphan" ELSE "none"

\* Faulty variant: no startup reconciliation.
RegisterOnly ==
  /\ sup = "boot"
  /\ spid' = TRUE /\ cut' = Inherited /\ sup' = "reconcile"
  /\ UNCHANGED <<g_stop, phase, torn, script, rc, outside, device>>

Register ==
  /\ sup = "boot"
  /\ spid' = TRUE /\ cut' = Inherited /\ sup' = "reconcile" /\ script' = Begin("off", "fw")
  /\ UNCHANGED <<g_stop, phase, torn, rc, outside, device>>

RegisterFails ==
  /\ sup = "boot"
  /\ sup' = "gone"
  /\ UNCHANGED <<g_stop, phase, torn, script, rc, spid, cut, outside, device>>

Reconciled ==
  /\ sup = "reconcile" /\ Idle /\ ~g_stop
  /\ sup' = "prelease"
  /\ UNCHANGED <<g_stop, phase, torn, script, rc, spid, cut, outside, device>>

ReconcileStopped ==
  /\ sup = "reconcile" /\ Idle /\ g_stop
  /\ Teardown
  /\ UNCHANGED g_stop

\* The poll on the listener ends with nobody there, or with a signal.
Unleased ==
  /\ sup = "prelease" /\ (peer = "away" \/ g_stop)
  /\ g_stop' = TRUE
  /\ Teardown

\* accept, and SUP_EV_ACCEPT starts the receiver.
Accept ==
  /\ sup = "prelease" /\ peer # "away" /\ ~g_stop
  /\ phase' = "ACTIVE" /\ sup' = "on" /\ script' = Begin("on", "config") /\ missed' = FALSE
  /\ UNCHANGED <<g_stop, torn, spid, cut, rc, peer, runs, terms, wifi, toggle, flips, device>>

Started ==
  /\ sup = "on" /\ Idle /\ rc = 0
  /\ sup' = "lease"
  /\ UNCHANGED <<g_stop, phase, torn, script, rc, spid, cut, outside, device>>

\* airplay-on failed: the lease ends at once.
StartFailed ==
  /\ sup = "on" /\ Idle /\ rc # 0
  /\ Teardown
  /\ UNCHANGED g_stop

\* The lease ends: STOP, end of file, no heartbeat, or a signal.
LeaseEnds ==
  /\ sup = "lease" /\ (peer # "live" \/ g_stop)
  /\ Teardown
  /\ UNCHANGED g_stop

LeaseStop ==
  /\ sup = "lease" /\ peer = "live"
  /\ Teardown
  /\ UNCHANGED g_stop

\* airplay-off has returned: remove_pidfile, and the process exits.
Leave ==
  /\ sup = "off" /\ Idle
  /\ spid' = FALSE /\ sup' = "gone"
  /\ UNCHANGED <<g_stop, phase, torn, script, rc, cut, outside, device>>

-----------------------------------------------------------------------------
\* The Kindlet connects, hangs, or closes the lease.
PeerActs ==
  /\ sup # "gone"
  /\ \/ peer = "away" /\ sup # "boot" /\ peer' = "live"
     \/ peer = "live" /\ peer' \in {"silent", "closed"}
     \/ peer = "silent" /\ peer' = "closed"
  /\ UNCHANGED <<daemon, script, rc, device, runs, terms, menu>>

\* teardownAndWait: TERM to the group reaches the supervisor, the shell it
\* waits for and raopd.  stop() has closed the lease before.

\* Faulty variant: TERM to the supervisor alone.
TermLeader ==
  /\ sup \notin {"gone", "boot"} /\ terms < MAX_TERMS /\ peer \in {"away", "closed"}
  /\ terms' = terms + 1 /\ g_stop' = TRUE
  /\ UNCHANGED <<sup, phase, torn, spid, cut, script, rc, peer, runs, menu, device>>

GroupTerm ==
  /\ sup \notin {"gone", "boot"} /\ terms < MAX_TERMS /\ peer \in {"away", "closed"}
  /\ terms' = terms + 1 /\ g_stop' = TRUE
  /\ script' = NoScript /\ rc' = IF Idle THEN rc ELSE -1
  /\ cut' = IF script.name = "off" /\ torn THEN "TERM" ELSE cut
  /\ raopd' = IF raopd = "none" THEN "none" ELSE "terming"
  /\ UNCHANGED <<sup, phase, torn, spid, peer, runs, menu, fw, perf, child, rpid>>

\* The deadline passed: KILL to the group.
GroupKill ==
  /\ sup # "gone" /\ terms > 0
  /\ sup' = "gone" /\ script' = NoScript /\ cut' = "KILL"
  /\ raopd' = "none" /\ rpid' = IF rpid = "live" THEN "stale" ELSE rpid
  /\ UNCHANGED <<g_stop, phase, torn, spid, rc, outside, fw, perf, child>>

Scripts == airplay_on \/ airplay_off
Daemon ==
  \/ Register \/ RegisterFails \/ Reconciled \/ ReconcileStopped \/ Unleased \/ Accept
  \/ Started \/ StartFailed \/ LeaseEnds \/ Leave
Raopd == RaopdPublish \/ RaopdDies \/ RaopdStops
Next ==
  \/ Launch \/ Daemon \/ Scripts \/ ScriptHangs \/ ScriptKilled \/ Raopd \/ LeaseStop
  \/ airplay_wifi \/ PeerActs \/ GroupTerm \/ GroupKill
Spec == Init /\ [][Next]_vars

\* Every process that can take a step does, and every deadline passes; when the
\* Kindlet connects, hangs or closes is its own affair.
FairSpec == Spec /\ WF_vars(Daemon) /\ WF_vars(Scripts) /\ WF_vars(ScriptKilled) /\ WF_vars(Raopd)

\* The everyday course: no script hangs, airplay-on succeeds, and the lease ends
\* because the Kindlet's stop() closes it.
Everyday == ~script.hung /\ (sup = "on" => rc = 0) /\ (torn => peer = "closed")
EverydaySpec == Init /\ [][Next /\ Everyday']_vars

-----------------------------------------------------------------------------
\* The types; scripts run only while the supervisor waits for them, and only a
\* lease is ACTIVE.
TypeOK ==
  /\ sup \in {"gone", "boot", "reconcile", "prelease", "on", "lease", "off"}
  /\ script.name \in {"none", "on", "off"} /\ rc \in {-1, 0, 1}
  /\ cut \in {"none", "orphan", "TERM", "deadline", "KILL", "toggle"}
  /\ g_stop \in BOOLEAN /\ torn \in BOOLEAN /\ fw \in BOOLEAN /\ perf \in BOOLEAN
  /\ peer \in {"away", "live", "silent", "closed"}
  /\ raopd \in {"none", "starting", "up", "terming"} /\ rpid \in {"none", "live", "stale"}
  /\ ~Idle => sup = IF script.name = "on" THEN "on" ELSE IF torn THEN "off" ELSE "reconcile"
  /\ phase = "ACTIVE" /\ sup # "gone" => sup \in {"on", "lease"}
  /\ rpid = "live" => raopd \in {"up", "terming"}

Restored == ~fw /\ ~perf /\ rpid = "none" /\ raopd \in {"none", "terming"}

\* A supervisor whose airplay-off was not cut short, that inherited no receiver
\* without a pidfile, and beside which no airplay-wifi applied its setting after
\* the lease, leaves the device as it was found, whatever signal, hung airplay-on
\* or failed start ended it: firewall closed, power-save back, no receiver, no
\* pidfile.  Whatever a killed predecessor left behind, the wait for a lease
\* begins with the same clean device ("every launch self-healing").
CleanExit ==
  cut = "none" => /\ sup \in {"gone", "prelease"} => Restored
                  /\ sup = "gone" => ~spid

\* The comment on supervisor_teardown says more: a supervisor that is told to
\* stop always does ("a SIGTERM-driven exit still does fw_close +
\* wifi_powersave + raopd TERM/KILL + pidfile removal").
TermExitClean ==
  sup = "gone" /\ cut \in {"none", "TERM"} => ~fw /\ ~perf /\ raopd \in {"none", "terming"} /\ ~spid

\* While a receiver serves a lease the firewall and the power-save are what the
\* menu last asked for ("Apply live only while the daemon is up; otherwise
\* airplay-on applies it at start"), unless it was asked in the one window where
\* neither happens: airplay-on has read the configuration, and raopd has not
\* written its pidfile.
WifiFollows ==
  sup = "lease" /\ raopd = "up" /\ toggle = "idle" /\ cut = "none" /\ ~missed => fw = wifi /\ perf = wifi

\* No receiver outlives its supervisor, however that one ended, unless an
\* airplay-off hung: the one that was to end it, or the first one, whose stale
\* raopd.pid airplay-on then takes for the new receiver's.
NoOrphan == sup = "gone" /\ cut \notin {"deadline", "orphan"} => raopd \in {"none", "terming"}

\* Without a living Kindlet at the other end every supervisor goes away: one
\* that nobody connects to, one whose Kindlet hung or died, one whose script
\* hung, one that was told to stop.
Ends == []<>(sup = "gone" \/ (sup = "lease" /\ peer = "live"))
=============================================================================

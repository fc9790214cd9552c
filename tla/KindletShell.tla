---------------------------- MODULE KindletShell ----------------------------
(***************************************************************************)
(* The Kindlet's lifecycle (KindletShell.java, ShairKindle.java,           *)
(* NativeLauncher.java) against the supervisor processes it launches:      *)
(* start() and stop() on the framework's thread, one worker thread per     *)
(* start() that installs, launches, waits for the pidfile and connects the *)
(* lease, and the group signals of teardownAndWait.  A generation number   *)
(* guarded by lifecycleLock tells the workers whether they are still       *)
(* wanted.  A supervisor is reduced to what the Kindlet sees of it: its    *)
(* process, its port, its pidfile, its lease.                              *)
(***************************************************************************)
EXTENDS Integers, FiniteSets

CONSTANTS
  MAX_GEN,          \* bound: generations (calls of start and stop)
  Sups,             \* supervisor processes that can exist at a time
  LAUNCH_ATTEMPTS,
  NoSup

ASSUME ShellAssumption ==
  MAX_GEN \in Nat \ {0} /\ LAUNCH_ATTEMPTS \in Nat \ {0} /\ NoSup \notin Sups

VARIABLES
  generation, stopped, launching,   \* guarded by lifecycleLock
  conn,      \* generation of the published lease, 0 for none
  mpc,       \* framework thread: idle, await, close, resolve, wait
  closing,   \* the lease stop() or start() has detached and must close
  target,    \* the group being torn down
  wk,        \* wk[g]: none, join, install, gate, launch, line, hung, observe,
             \* connect, publish, done
  attempt,
  lease,     \* lease[g]: none, open, closed
  sup,       \* sup[s]: none, forked, up, leaving, exiting
  client,    \* client[s]: generation of the connection s serves, 0 for none
  pidfile,   \* the supervisor named in supervisor.pid, NoSup for no file
  excused,   \* since the last start() something failed that the user is told, or
             \* that start() came without a stop()
  slow       \* the waits of stop() and the worker may be too short, and the launch
             \* line may hang; never changes

vars == <<generation, stopped, launching, conn, mpc, closing, target, wk, attempt, lease,
          sup, client, pidfile, excused, slow>>
locked == <<generation, stopped, launching, conn>>
main == <<mpc, closing, target>>
native == <<sup, client, pidfile>>
Gens == 1 .. MAX_GEN

Init ==
  /\ generation = 0 /\ stopped = FALSE /\ launching = FALSE /\ conn = 0
  /\ mpc = "idle" /\ closing = 0 /\ target = NoSup
  /\ wk = [g \in Gens |-> "none"] /\ attempt = 0 /\ lease = [g \in Gens |-> "none"]
  /\ sup = [s \in Sups |-> "none"] /\ client = [s \in Sups |-> 0] /\ pidfile = NoSup
  /\ excused = FALSE /\ slow \in BOOLEAN

isCurrent(g) == generation = g /\ ~stopped
Alive == {s \in Sups : sup[s] # "none"}
\* Registered group leaders; the one there is holds the port.
Leaders == Alive \ {s \in Sups : sup[s] = "forked"}
Unseen == IF slow THEN Leaders = {} /\ Alive # Sups ELSE Alive = {}
Step(g, pc) == wk' = [wk EXCEPT ![g] = pc]

-----------------------------------------------------------------------------
\* The framework's calls.

\* start(): the lease of a generation that was never stopped is detached, a
\* worker is created, and the old lease is closed outside the lock.
Start ==
  /\ mpc = "idle" /\ generation < MAX_GEN
  /\ generation' = generation + 1 /\ stopped' = FALSE /\ conn' = 0
  /\ wk' = [wk EXCEPT ![generation + 1] = "join"]
  /\ lease' = IF conn = 0 THEN lease ELSE [lease EXCEPT ![conn] = "closed"]
  /\ excused' = (generation > 0 /\ ~stopped)
  /\ UNCHANGED <<launching, main, attempt, native>>

Stop ==
  /\ mpc = "idle" /\ generation \in 1 .. MAX_GEN - 1
  /\ generation' = generation + 1 /\ stopped' = TRUE
  /\ closing' = conn /\ conn' = 0 /\ mpc' = "await"
  /\ UNCHANGED <<launching, target, wk, attempt, lease, native, excused>>

\* A launch in flight is waited for, up to the deadline.

\* Faulty variant: it is not waited for.
AwaitNothing ==
  /\ mpc = "await"
  /\ mpc' = "close"
  /\ UNCHANGED <<locked, closing, target, wk, attempt, lease, native, excused>>

Await ==
  /\ mpc = "await" /\ (~launching \/ slow)
  /\ mpc' = "close"
  /\ UNCHANGED <<locked, closing, target, wk, attempt, lease, native, excused>>

CloseLease ==
  /\ mpc = "close"
  /\ lease' = IF closing = 0 THEN lease ELSE [lease EXCEPT ![closing] = "closed"]
  /\ closing' = 0 /\ mpc' = "resolve"
  /\ UNCHANGED <<locked, target, wk, attempt, native, excused>>

\* airplay-teardown-resolve: the pidfile if it names a living supervisor, else
\* one found by name; TERM to its group.  The helper may be too slow.
Resolve ==
  /\ mpc = "resolve"
  /\ \E s \in {NoSup} \cup Leaders :
       /\ (s = NoSup) => (Leaders = {} \/ slow)
       /\ (pidfile \in Leaders /\ s # NoSup) => s = pidfile
       /\ target' = s
       /\ mpc' = IF s = NoSup THEN "idle" ELSE "wait"
       /\ sup' = IF s # NoSup /\ sup[s] = "up" THEN [sup EXCEPT ![s] = "leaving"] ELSE sup
  /\ UNCHANGED <<locked, closing, wk, attempt, lease, client, pidfile, excused>>

GroupGone ==
  /\ mpc = "wait" /\ sup[target] = "none"
  /\ mpc' = "idle" /\ target' = NoSup
  /\ UNCHANGED <<locked, closing, wk, attempt, lease, native, excused>>

\* Faulty variant: at the deadline stop() simply returns.
DeadlineGivesUp ==
  /\ mpc = "wait"
  /\ mpc' = "idle" /\ target' = NoSup
  /\ UNCHANGED <<locked, closing, wk, attempt, lease, native, excused>>

\* The deadline passes: KILL to the group; its pidfile stays behind.
DeadlineKill ==
  /\ mpc = "wait"
  /\ sup' = [sup EXCEPT ![target] = "none"] /\ client' = [client EXCEPT ![target] = 0]
  /\ mpc' = "idle" /\ target' = NoSup
  /\ UNCHANGED <<locked, closing, wk, attempt, lease, pidfile, excused>>

-----------------------------------------------------------------------------
\* runWorker.

\* Every earlier worker is joined; then permissions and the install, which may
\* fail and are reported.
Join(g) ==
  /\ wk[g] = "join" /\ \A h \in 1 .. g - 1 : wk[h] \in {"none", "done"}
  /\ Step(g, IF isCurrent(g) THEN "install" ELSE "done")
  /\ UNCHANGED <<locked, main, attempt, lease, native, excused>>

Install(g) ==
  /\ wk[g] = "install"
  /\ \/ Step(g, IF isCurrent(g) THEN "gate" ELSE "done") /\ UNCHANGED excused
     \/ Step(g, "done") /\ excused' = TRUE
  /\ UNCHANGED <<locked, main, attempt, lease, native>>

\* launchAndAwaitReady: the latch is set under the lock, a stale pidfile removed.

Gate(g) ==
  /\ wk[g] = "gate"
  /\ IF isCurrent(g)
       THEN launching' = TRUE /\ attempt' = 0 /\ pidfile' = NoSup /\ Step(g, "launch")
       ELSE Step(g, "done") /\ UNCHANGED <<launching, attempt, pidfile>>
  /\ UNCHANGED <<generation, stopped, conn, main, lease, sup, client, excused>>

\* A new attempt is made only while wanted.

\* Faulty variant: attempts are not counted.
LaunchUncounted(g) ==
  /\ wk[g] = "launch"
  /\ IF isCurrent(g) THEN Step(g, "line") /\ UNCHANGED launching
                     ELSE Step(g, "done") /\ launching' = FALSE
  /\ UNCHANGED <<generation, stopped, conn, main, attempt, lease, native, excused>>

LaunchNative(g) ==
  /\ wk[g] = "launch"
  /\ IF isCurrent(g) THEN Step(g, "line") /\ attempt' = attempt + 1 /\ UNCHANGED launching
                     ELSE Step(g, "done") /\ launching' = FALSE /\ UNCHANGED attempt
  /\ UNCHANGED <<generation, stopped, conn, main, lease, native, excused>>

\* The launch line has run: its ps guard forks nothing while it sees a
\* supervisor running, and may miss one that has only been forked.
LaunchReturns(g) ==
  /\ wk[g] = "line" /\ Step(g, "observe")
  /\ IF Unseen THEN \E s \in Sups \ Alive : sup' = [sup EXCEPT ![s] = "forked"]
               ELSE UNCHANGED sup
  /\ UNCHANGED <<locked, main, attempt, lease, client, pidfile, excused>>

\* The worker waits for the line without a timeout, and a ps or sh that is stuck
\* keeps it there.
LaunchHangs(g) ==
  /\ wk[g] = "line" /\ slow /\ Step(g, "hung")
  /\ UNCHANGED <<locked, main, attempt, lease, native, excused>>

\* nativeReady: the latch is cleared once the pidfile is there.
Ready(g) ==
  /\ wk[g] = "observe" /\ pidfile # NoSup
  /\ launching' = FALSE /\ Step(g, "connect")
  /\ UNCHANGED <<generation, stopped, conn, main, attempt, lease, native, excused>>

\* The pidfile was not seen in time: another attempt while some supervisor is
\* running and attempts are left, else the launch has failed.  nativeAlive's
\* probe of the process list may miss one, or take too long and assume one.

NotReady(g) ==
  /\ wk[g] = "observe" /\ pidfile = NoSup
  /\ slow \/ \A s \in Sups : sup[s] # "forked"
  /\ \/ /\ slow \/ Alive # {}
        /\ attempt < LAUNCH_ATTEMPTS
        /\ Step(g, "launch") /\ UNCHANGED launching
     \/ /\ slow \/ Alive = {} \/ attempt >= LAUNCH_ATTEMPTS
        /\ Step(g, "done") /\ launching' = FALSE
  /\ UNCHANGED <<generation, stopped, conn, main, attempt, lease, native, excused>>

\* connectLoop.
Connect(g) ==
  /\ wk[g] = "connect" /\ isCurrent(g)
  /\ \E s \in Leaders :
       client' = IF client[s] = 0 THEN [client EXCEPT ![s] = g] ELSE client
  /\ lease' = [lease EXCEPT ![g] = "open"] /\ Step(g, "publish")
  /\ UNCHANGED <<locked, main, attempt, sup, pidfile, excused>>

ConnectEnds(g) ==
  /\ wk[g] = "connect" /\ (~isCurrent(g) \/ slow \/ Alive = {})
  /\ Step(g, "done")
  /\ UNCHANGED <<locked, main, attempt, lease, native, excused>>

\* publish, under the lock: a lease that is no longer wanted is closed.
Publish(g) ==
  /\ wk[g] = "publish" /\ Step(g, "done")
  /\ IF isCurrent(g) THEN conn' = g /\ UNCHANGED lease
                     ELSE lease' = [lease EXCEPT ![g] = "closed"] /\ UNCHANGED conn
  /\ UNCHANGED <<generation, stopped, launching, main, attempt, native, excused>>

-----------------------------------------------------------------------------
\* The supervisor: bind, then the pidfile; a second one cannot bind.
SupRegisters(s) ==
  /\ sup[s] = "forked" /\ Leaders = {}
  /\ sup' = [sup EXCEPT ![s] = "up"] /\ pidfile' = s
  /\ UNCHANGED <<locked, main, wk, attempt, lease, client, excused>>

SupFails(s) ==
  /\ sup[s] = "forked"
  /\ sup' = [sup EXCEPT ![s] = "none"] /\ excused' = TRUE
  /\ UNCHANGED <<locked, main, wk, attempt, lease, client, pidfile>>

\* Its lease is closed.
SupEof(s) ==
  /\ sup[s] = "up" /\ client[s] # 0 /\ lease[client[s]] = "closed"
  /\ sup' = [sup EXCEPT ![s] = "leaving"]
  /\ UNCHANGED <<locked, main, wk, attempt, lease, client, pidfile, excused>>

\* It ends a lease of its own accord: airplay-on failed, or no heartbeat came.
SupGivesUp(s) ==
  /\ sup[s] = "up" /\ client[s] # 0
  /\ sup' = [sup EXCEPT ![s] = "leaving"]
  /\ UNCHANGED <<locked, main, wk, attempt, lease, client, pidfile, excused, slow>>

\* Nobody connected within the pre-lease timeout.  That takes far longer than a
\* worker that is still on its way to connect.

SupUnleased(s) ==
  /\ sup[s] = "up" /\ client[s] = 0
  /\ slow \/ \A g \in Gens : wk[g] \in {"none", "done"}
  /\ sup' = [sup EXCEPT ![s] = "leaving"]
  /\ UNCHANGED <<locked, main, wk, attempt, lease, client, pidfile, excused>>

\* airplay-off has run: the pidfile is removed before the port is given back.

SupRemovesPidfile(s) ==
  /\ sup[s] = "leaving"
  /\ sup' = [sup EXCEPT ![s] = "exiting"] /\ pidfile' = NoSup
  /\ UNCHANGED <<locked, main, wk, attempt, lease, client, excused>>

SupExits(s) ==
  /\ sup[s] = "exiting"
  /\ sup' = [sup EXCEPT ![s] = "none"] /\ client' = [client EXCEPT ![s] = 0]
  /\ UNCHANGED <<locked, main, wk, attempt, lease, pidfile, excused>>

Framework == (Start \/ Stop) /\ UNCHANGED slow
Main == (Await \/ CloseLease \/ Resolve \/ GroupGone \/ DeadlineKill) /\ UNCHANGED slow
Worker(g) ==
  /\ \/ Join(g) \/ Install(g) \/ Gate(g)
     \/ LaunchNative(g) \/ LaunchReturns(g) \/ LaunchHangs(g) \/ Ready(g) \/ NotReady(g)
     \/ Connect(g) \/ ConnectEnds(g) \/ Publish(g)
  /\ UNCHANGED slow
Sup(s) ==
  /\ \/ SupRegisters(s) \/ SupFails(s) \/ SupEof(s) \/ SupUnleased(s)
     \/ SupRemovesPidfile(s) \/ SupExits(s)
  /\ UNCHANGED slow
Next ==
  Framework \/ Main \/ (\E g \in Gens : Worker(g)) \/ (\E s \in Sups : Sup(s) \/ SupGivesUp(s))
Spec == Init /\ [][Next]_vars

\* Threads and processes run; the framework calls what it likes.
FairSpec ==
  /\ Spec /\ WF_vars(Main)
  /\ \A g \in Gens : WF_vars(Worker(g))
  /\ \A s \in Sups : WF_vars(Sup(s))

-----------------------------------------------------------------------------
\* The types; the latch is up exactly while a worker is launching.
TypeOK ==
  /\ generation \in 0 .. MAX_GEN /\ stopped \in BOOLEAN /\ conn \in 0 .. MAX_GEN
  /\ mpc \in {"idle", "await", "close", "resolve", "wait"} /\ target \in Sups \cup {NoSup}
  /\ wk \in [Gens -> {"none", "join", "install", "gate", "launch", "line", "hung",
                    "observe", "connect", "publish", "done"}]
  /\ lease \in [Gens -> {"none", "open", "closed"}]
  /\ sup \in [Sups -> {"none", "forked", "up", "leaving", "exiting"}]
  /\ client \in [Sups -> 0 .. MAX_GEN] /\ pidfile \in Sups \cup {NoSup}
  /\ launching <=> \E g \in Gens : wk[g] \in {"launch", "line", "hung", "observe"}

\* When stop() has returned no supervisor is left, not even one that was being
\* forked when it was called, provided supervisors register within the time
\* stop() waits for them; and no lease is open, except one a worker is about to
\* find unwanted.
NoSurvivor ==
  mpc = "idle" /\ stopped =>
    /\ ~slow => Alive = {}
    /\ \A g \in Gens : lease[g] = "open" => wk[g] = "publish"

\* A start that follows a stop ends with a lease, unless the install or the
\* supervisor failed, which the user is told, or the waits were too short.
StartSucceeds ==
  ~slow /\ generation > 0 /\ ~stopped /\ wk[generation] = "done" /\ ~excused => conn = generation

\* Every worker ends, so that the next one, which joins it, gets its turn, unless
\* its own launch line or that of a worker it waits for never returns: launch()
\* waits for its shell without a timeout.
WorkersEnd ==
  \A g \in Gens : (wk[g] = "join") ~> (wk[g] = "done" \/ \E h \in 1 .. g : wk[h] = "hung")
=============================================================================

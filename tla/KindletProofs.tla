--------------------------- MODULE KindletProofs ----------------------------
(***************************************************************************)
(* Proofs about the Kindlet's lifecycle (module KindletShell), for any     *)
(* number of starts and supervisors.                                       *)
(***************************************************************************)
EXTENDS KindletShell, SupervisorLife, TLAPS

\* A worker past its join.
Active(g) == wk[g] \notin {"none", "join", "done"}

ShellTypes ==
  /\ generation \in 0 .. MAX_GEN /\ conn \in 0 .. MAX_GEN /\ closing \in 0 .. MAX_GEN
  /\ stopped \in BOOLEAN /\ launching \in BOOLEAN /\ excused \in BOOLEAN /\ slow \in BOOLEAN
  /\ mpc \in {"idle", "await", "close", "resolve", "wait"} /\ target \in Sups \cup {NoSup}
  /\ wk \in [Gens -> {"none", "join", "install", "gate", "launch", "line", "hung",
                    "observe", "connect", "publish", "done"}]
  /\ lease \in [Gens -> {"none", "open", "closed"}]
  /\ sup \in [Sups -> {"none", "forked", "up", "leaving", "exiting"}]
  /\ client \in [Sups -> 0 .. MAX_GEN] /\ pidfile \in Sups \cup {NoSup}

\* One worker at a time is past its join, and the latch is up while it launches.
WorkersInv ==
  /\ \A g \in Gens : g > generation => wk[g] = "none"
  /\ \A g \in Gens : Active(g) => \A h \in 1 .. g - 1 : wk[h] \in {"none", "done"}
  /\ \A g \in Gens : wk[g] \in {"launch", "line", "hung", "observe"} => launching
  /\ launching => \E g \in Gens : wk[g] \in {"launch", "line", "hung", "observe"}

\* An open lease is in the hands of someone who will close it.
LeaseInv ==
  /\ \A g \in Gens : lease[g] = "open" => wk[g] = "publish" \/ g \in {conn, closing}
  /\ conn # 0 => conn = generation /\ ~stopped
  /\ closing # 0 => mpc \in {"await", "close"}
  /\ mpc # "idle" => stopped
  /\ mpc = "wait" => target \in Sups

\* When the waits are long enough there is one supervisor at a time, a launch
\* sees the one it forked register, and stop() waits for the launch.
SupInv ==
  /\ \A s, t \in Alive : s = t
  /\ \A s \in Sups : sup[s] \in {"none", "forked"} => client[s] = 0
  /\ \A s \in Sups : sup[s] = "forked" => pidfile = NoSup /\ \E g \in Gens : wk[g] = "observe"
  /\ launching /\ pidfile # NoSup => sup[pidfile] \in {"up", "leaving"}
  /\ stopped /\ mpc # "await" => ~launching
  /\ mpc = "wait" => Alive \subseteq {target}
  /\ mpc = "idle" /\ (stopped \/ generation = 0) => Alive = {}

\* The way of a start that follows a stop.
StartInv ==
  generation > 0 /\ ~stopped /\ ~excused =>
    /\ wk[generation] # "none"
    /\ wk[generation] \in {"join", "install", "gate", "launch", "line"} => Alive = {}
    /\ wk[generation] \in {"launch", "line"} => pidfile = NoSup
    /\ \A g \in Gens : g # generation => wk[g] \notin {"launch", "line", "hung", "observe"}
    /\ wk[generation] \in {"observe", "connect"} =>
         \E s \in Alive : client[s] = 0 /\ (sup[s] = "up" \/ (sup[s] = "forked" /\ wk[generation] = "observe"))
    /\ wk[generation] = "observe" => \A s \in Alive : sup[s] = "up" => pidfile = s
    /\ wk[generation] = "done" => conn = generation

ShellInv == ShellTypes /\ WorkersInv /\ LeaseInv /\ (~slow => SupInv /\ StartInv)

\* No two workers are past their join: start() makes each one wait for the
\* worker before it.
LEMMA OneActive ==
  ASSUME ShellTypes, WorkersInv, NEW g \in Gens, Active(g), NEW h \in Gens, h # g
  PROVE  ~Active(h)
<1> USE ShellAssumption DEF Gens
<1>1. CASE h < g
  BY <1>1 DEF WorkersInv, Active
<1>2. CASE g < h
  BY <1>2 DEF WorkersInv, Active
<1> QED  BY <1>1, <1>2

\* The active worker moves on.
LEMMA ActiveMoves ==
  ASSUME ShellTypes, WorkersInv, NEW g \in Gens, Active(g),
         NEW p \in {"gate", "launch", "line", "hung", "observe", "connect", "done"},
         wk' = [wk EXCEPT ![g] = p], generation' = generation,
         launching' <=> p \in {"launch", "line", "hung", "observe"}
  PROVE  WorkersInv'
<1> USE ShellAssumption DEF Gens
<1>1. \A h \in Gens : h # g => ~Active(h)
  BY OneActive, Zenon
<1>2. wk'[g] = p /\ \A h \in Gens : h # g => wk'[h] = wk[h]
  BY Zenon DEF ShellTypes
<1>3. \A h \in Gens : h > generation' => wk'[h] = "none"
  BY <1>2, Zenon DEF WorkersInv, Active
<1>4. \A h \in Gens : Active(h)' => \A k \in 1 .. h - 1 : wk'[k] \in {"none", "done"}
  <2> SUFFICES ASSUME NEW h \in Gens, Active(h)', NEW k \in 1 .. h - 1
               PROVE  wk'[k] \in {"none", "done"}
    OBVIOUS
  <2>1. h = g /\ k # g
    BY <1>1, <1>2 DEF Active
  <2> QED  BY <1>2, <2>1 DEF WorkersInv
<1>5. \A h \in Gens : wk'[h] \in {"launch", "line", "hung", "observe"} => h = g
  BY <1>1, <1>2, Zenon DEF Active
<1> QED  BY <1>2, <1>3, <1>4, <1>5, Zenon DEF WorkersInv

\* start() and stop().
LEMMA FrameworkInv ==
  ASSUME ShellInv, Start \/ Stop, UNCHANGED slow
  PROVE  ShellInv'
<1> USE ShellAssumption DEF ShellInv, locked, main, native, Gens
<1>1. CASE Start
  <2>1. ShellTypes'
    <3>1. stopped' \in BOOLEAN /\ excused' \in BOOLEAN
      BY <1>1, Zenon DEF Start
    <3> QED  BY <1>1, <3>1 DEF Start, ShellTypes
  <2>2. WorkersInv'
    BY <1>1 DEF Start, ShellTypes, WorkersInv, Active
  <2>3. LeaseInv'
    BY <1>1 DEF Start, ShellTypes, WorkersInv, LeaseInv, Active
  <2>4. ~slow => SupInv'
    BY <1>1 DEF Start, ShellTypes, WorkersInv, LeaseInv, SupInv, Active, Alive
  <2>5. ~slow => StartInv'
    <3> SUFFICES ASSUME ~slow PROVE StartInv'
      OBVIOUS
    <3>1. ~excused' => stopped \/ ~(generation > 0)
      BY <1>1, Zenon DEF Start
    <3>2. ~excused' => Alive' = {}
      BY <1>1, <3>1 DEF Start, ShellTypes, SupInv, Alive
    <3>3. generation' \in Gens /\ wk'[generation'] = "join"
      BY <1>1 DEF Start, ShellTypes
    <3>4. stopped => \A g \in Gens : wk[g] \notin {"launch", "line", "hung", "observe"}
      BY <1>1, Zenon DEF Start, SupInv, WorkersInv
    <3>5. ~(generation > 0) => \A g \in Gens : wk[g] = "none"
      BY DEF ShellTypes, WorkersInv
    <3>6. \A g \in Gens : wk'[g] = wk[g] \/ wk'[g] = "join"
      BY <1>1, Zenon DEF Start, ShellTypes
    <3>7. ~excused' => \A g \in Gens : wk'[g] \notin {"launch", "line", "hung", "observe"}
      BY <3>1, <3>4, <3>5, <3>6, Zenon
    <3> QED  BY <3>2, <3>3, <3>7, Zenon DEF StartInv
  <2> QED  BY <2>1, <2>2, <2>3, <2>4, <2>5, Zenon
<1>2. CASE Stop
  <2>1. ShellTypes'
    BY <1>2 DEF Stop, ShellTypes
  <2>2. WorkersInv'
    BY <1>2 DEF Stop, ShellTypes, WorkersInv, Active
  <2>3. LeaseInv'
    BY <1>2, Zenon DEF Stop, ShellTypes, WorkersInv, LeaseInv, Active
  <2>4. ~slow => SupInv'
    BY <1>2, Zenon DEF Stop, ShellTypes, WorkersInv, LeaseInv, SupInv, Active, Alive
  <2>5. ~slow => StartInv'
    BY <1>2, Zenon DEF Stop, ShellTypes, WorkersInv, LeaseInv, SupInv, StartInv, Active, Alive
  <2> QED  BY <2>1, <2>2, <2>3, <2>4, <2>5, Zenon
<1> QED  BY <1>1, <1>2, Zenon

\* The rest of stop().
LEMMA MainInv ==
  ASSUME ShellInv, Await \/ CloseLease \/ Resolve \/ GroupGone \/ DeadlineKill, UNCHANGED slow
  PROVE  ShellInv'
<1> USE ShellAssumption DEF ShellInv, locked, main, native, Gens
<1>1. CASE Await
  <2>1. ShellTypes'
    BY <1>1, Zenon DEF Await, ShellTypes
  <2>2. WorkersInv'
    BY <1>1, Zenon DEF Await, ShellTypes, WorkersInv, Active
  <2>3. LeaseInv'
    BY <1>1, Zenon DEF Await, ShellTypes, WorkersInv, LeaseInv, Active
  <2>4. ~slow => SupInv'
    BY <1>1, Zenon DEF Await, ShellTypes, WorkersInv, LeaseInv, SupInv, Active, Alive
  <2>5. ~slow => StartInv'
    BY <1>1, Zenon DEF Await, ShellTypes, WorkersInv, LeaseInv, SupInv, StartInv, Active, Alive
  <2> QED  BY <2>1, <2>2, <2>3, <2>4, <2>5, Zenon
<1>2. CASE CloseLease
  <2>1. ShellTypes'
    BY <1>2 DEF CloseLease, ShellTypes
  <2>2. WorkersInv'
    BY <1>2, Zenon DEF CloseLease, ShellTypes, WorkersInv, Active
  <2>3. LeaseInv'
    BY <1>2, Zenon DEF CloseLease, ShellTypes, WorkersInv, LeaseInv, Active
  <2>4. ~slow => SupInv'
    BY <1>2, Zenon DEF CloseLease, ShellTypes, WorkersInv, LeaseInv, SupInv, Active, Alive
  <2>5. ~slow => StartInv'
    BY <1>2, Zenon DEF CloseLease, ShellTypes, WorkersInv, LeaseInv, SupInv, StartInv, Active, Alive
  <2> QED  BY <2>1, <2>2, <2>3, <2>4, <2>5, Zenon
<1>3. CASE Resolve
  <2>1. ShellTypes'
    BY <1>3, Zenon DEF Resolve, Leaders, Alive, ShellTypes
  <2>2. WorkersInv'
    BY <1>3, Zenon DEF Resolve, Leaders, ShellTypes, WorkersInv, Active
  <2>3. LeaseInv'
    BY <1>3, Zenon DEF Resolve, Leaders, Alive, ShellTypes, LeaseInv
  <2>4. ~slow => SupInv'
    BY <1>3 DEF Resolve, Leaders, ShellTypes, WorkersInv, LeaseInv, SupInv, Active, Alive
  <2>5. ~slow => StartInv'
    BY <1>3, Zenon DEF Resolve, Leaders, ShellTypes, WorkersInv, LeaseInv, SupInv, StartInv, Active, Alive
  <2> QED  BY <2>1, <2>2, <2>3, <2>4, <2>5, Zenon
<1>4. CASE GroupGone
  <2>1. ShellTypes'
    BY <1>4, Zenon DEF GroupGone, ShellTypes
  <2>2. WorkersInv'
    BY <1>4, Zenon DEF GroupGone, ShellTypes, WorkersInv, Active
  <2>3. LeaseInv'
    BY <1>4, Zenon DEF GroupGone, ShellTypes, WorkersInv, LeaseInv, Active
  <2>4. ~slow => SupInv'
    BY <1>4 DEF GroupGone, ShellTypes, WorkersInv, LeaseInv, SupInv, Active, Alive
  <2>5. ~slow => StartInv'
    BY <1>4, Zenon DEF GroupGone, ShellTypes, WorkersInv, LeaseInv, SupInv, StartInv, Active, Alive
  <2> QED  BY <2>1, <2>2, <2>3, <2>4, <2>5, Zenon
<1>5. CASE DeadlineKill
  <2>1. ShellTypes'
    BY <1>5, Zenon DEF DeadlineKill, ShellTypes, LeaseInv
  <2>2. WorkersInv'
    BY <1>5, Zenon DEF DeadlineKill, ShellTypes, WorkersInv, Active
  <2>3. LeaseInv'
    BY <1>5, Zenon DEF DeadlineKill, ShellTypes, WorkersInv, LeaseInv, Active
  <2>4. ~slow => SupInv'
    BY <1>5 DEF DeadlineKill, ShellTypes, WorkersInv, LeaseInv, SupInv, Active, Alive
  <2>5. ~slow => StartInv'
    BY <1>5, Zenon DEF DeadlineKill, ShellTypes, WorkersInv, LeaseInv, SupInv, StartInv, Active, Alive
  <2> QED  BY <2>1, <2>2, <2>3, <2>4, <2>5, Zenon
<1> QED  BY <1>1, <1>2, <1>3, <1>4, <1>5, Zenon

\* A worker's steps.
LEMMA WorkerInv ==
  ASSUME ShellInv, NEW g \in Gens, Worker(g)
  PROVE  ShellInv'
<1> USE ShellAssumption DEF ShellInv, locked, main, native, Gens
<1>0. UNCHANGED slow
  BY Zenon DEF Worker
<1>1. CASE Join(g)
  <2>1. ShellTypes'
    BY <1>0, <1>1, Zenon DEF Join, Step, isCurrent, ShellTypes
  <2>2. WorkersInv'
    BY <1>1 DEF Join, Step, isCurrent, ShellTypes, WorkersInv, Active
  <2>3. LeaseInv'
    BY <1>1, Zenon DEF Join, Step, isCurrent, ShellTypes, WorkersInv, LeaseInv, Active
  <2>4. ~slow => SupInv'
    BY <1>1 DEF Join, Step, isCurrent, ShellTypes, WorkersInv, LeaseInv, SupInv, Active, Alive
  <2>5. ~slow => StartInv'
    BY <1>1 DEF Join, Step, isCurrent, ShellTypes, WorkersInv, LeaseInv, SupInv, StartInv, Active, Alive
  <2> QED  BY <2>1, <2>2, <2>3, <2>4, <2>5, <1>0, Zenon
<1>2. CASE Install(g)
  <2>1. ShellTypes'
    BY <1>0, <1>2, Zenon DEF Install, Step, isCurrent, ShellTypes
  <2>2. WorkersInv'
    <3>1. Active(g) /\ generation' = generation
      BY <1>2, Zenon DEF Install, Active
    <3>2. ~launching
      BY <1>2, <3>1, OneActive, Zenon DEF Install, ShellTypes, WorkersInv, Active
    <3>3. PICK p \in {"gate", "launch", "line", "hung", "observe", "connect", "done"} :
            wk' = [wk EXCEPT ![g] = p] /\ (launching' <=> p \in {"launch", "line", "hung", "observe"})
      BY <1>2, <3>2, Zenon DEF Install, Step
    <3> QED  BY <3>1, <3>3, ActiveMoves, Zenon
  <2>3. LeaseInv'
    BY <1>2, Zenon DEF Install, Step, isCurrent, ShellTypes, WorkersInv, LeaseInv, Active
  <2>4. ~slow => SupInv'
    BY <1>2 DEF Install, Step, isCurrent, ShellTypes, WorkersInv, LeaseInv, SupInv, Active, Alive
  <2>5. ~slow => StartInv'
    BY <1>2 DEF Install, Step, isCurrent, ShellTypes, WorkersInv, LeaseInv, SupInv, StartInv, Active, Alive
  <2> QED  BY <2>1, <2>2, <2>3, <2>4, <2>5, <1>0, Zenon
<1>3. CASE Gate(g)
  <2>1. ShellTypes'
    BY <1>0, <1>3, Zenon DEF Gate, Step, isCurrent, ShellTypes
  <2>2. WorkersInv'
    <3>1. Active(g) /\ generation' = generation
      BY <1>3, Zenon DEF Gate, Active
    <3>2. ~launching
      BY <1>3, <3>1, OneActive, Zenon DEF Gate, ShellTypes, WorkersInv, Active
    <3>3. PICK p \in {"gate", "launch", "line", "hung", "observe", "connect", "done"} :
            wk' = [wk EXCEPT ![g] = p] /\ (launching' <=> p \in {"launch", "line", "hung", "observe"})
      BY <1>3, <3>2, Zenon DEF Gate, Step
    <3> QED  BY <3>1, <3>3, ActiveMoves, Zenon
  <2>3. LeaseInv'
    BY <1>3, Zenon DEF Gate, Step, isCurrent, ShellTypes, WorkersInv, LeaseInv, Active
  <2>4. ~slow => SupInv'
    BY <1>3 DEF Gate, Step, isCurrent, ShellTypes, WorkersInv, LeaseInv, SupInv, Active, Alive
  <2>5. ~slow => StartInv'
    BY <1>3 DEF Gate, Step, isCurrent, ShellTypes, WorkersInv, LeaseInv, SupInv, StartInv, Active, Alive
  <2> QED  BY <2>1, <2>2, <2>3, <2>4, <2>5, <1>0, Zenon
<1>4. CASE LaunchNative(g)
  <2>1. ShellTypes'
    BY <1>0, <1>4, Zenon DEF LaunchNative, Step, isCurrent, ShellTypes
  <2>2. WorkersInv'
    <3>1. Active(g) /\ generation' = generation
      BY <1>4, Zenon DEF LaunchNative, Active
    <3>2. PICK p \in {"gate", "launch", "line", "hung", "observe", "connect", "done"} :
            wk' = [wk EXCEPT ![g] = p] /\ (launching' <=> p \in {"launch", "line", "hung", "observe"})
      BY <1>4, Zenon DEF LaunchNative, Step, isCurrent, ShellTypes, WorkersInv
    <3> QED  BY <3>1, <3>2, ActiveMoves, Zenon
  <2>3. LeaseInv'
    BY <1>4, Zenon DEF LaunchNative, Step, isCurrent, ShellTypes, WorkersInv, LeaseInv, Active
  <2>4. ~slow => SupInv'
    BY <1>4 DEF LaunchNative, Step, isCurrent, ShellTypes, WorkersInv, LeaseInv, SupInv, Active, Alive
  <2>5. ~slow => StartInv'
    BY <1>4 DEF LaunchNative, Step, isCurrent, ShellTypes, WorkersInv, LeaseInv, SupInv, StartInv, Active, Alive
  <2> QED  BY <2>1, <2>2, <2>3, <2>4, <2>5, <1>0, Zenon
<1>10. CASE LaunchReturns(g)
  <2>1. ShellTypes'
    BY <1>0, <1>10, Zenon DEF LaunchReturns, Step, isCurrent, Unseen, ShellTypes
  <2>2. WorkersInv'
    <3>1. Active(g) /\ generation' = generation
      BY <1>10, Zenon DEF LaunchReturns, Active
    <3>2. PICK p \in {"gate", "launch", "line", "hung", "observe", "connect", "done"} :
            wk' = [wk EXCEPT ![g] = p] /\ (launching' <=> p \in {"launch", "line", "hung", "observe"})
      BY <1>10, Zenon DEF LaunchReturns, Step, isCurrent, ShellTypes, WorkersInv
    <3> QED  BY <3>1, <3>2, ActiveMoves, Zenon
  <2>3. LeaseInv'
    BY <1>10, Zenon DEF LaunchReturns, Step, isCurrent, Unseen, ShellTypes, WorkersInv, LeaseInv, Active
  <2>4. ~slow => SupInv'
    BY <1>10 DEF LaunchReturns, Step, isCurrent, Unseen, ShellTypes, WorkersInv, LeaseInv, SupInv, Active, Alive
  <2>5. ~slow => StartInv'
    BY <1>10 DEF LaunchReturns, Step, isCurrent, Unseen, ShellTypes, WorkersInv, LeaseInv, SupInv, StartInv, Active, Alive
  <2> QED  BY <2>1, <2>2, <2>3, <2>4, <2>5, <1>0, Zenon
<1>11. CASE LaunchHangs(g)
  <2>1. ShellTypes'
    BY <1>0, <1>11, Zenon DEF LaunchHangs, Step, isCurrent, ShellTypes
  <2>2. WorkersInv'
    <3>1. Active(g) /\ generation' = generation
      BY <1>11, Zenon DEF LaunchHangs, Active
    <3>2. PICK p \in {"gate", "launch", "line", "hung", "observe", "connect", "done"} :
            wk' = [wk EXCEPT ![g] = p] /\ (launching' <=> p \in {"launch", "line", "hung", "observe"})
      BY <1>11, Zenon DEF LaunchHangs, Step, isCurrent, ShellTypes, WorkersInv
    <3> QED  BY <3>1, <3>2, ActiveMoves, Zenon
  <2>3. LeaseInv'
    BY <1>11, Zenon DEF LaunchHangs, Step, isCurrent, ShellTypes, WorkersInv, LeaseInv, Active
  <2>4. ~slow => SupInv'
    BY <1>11 DEF LaunchHangs, Step, isCurrent, ShellTypes, WorkersInv, LeaseInv, SupInv, Active, Alive
  <2>5. ~slow => StartInv'
    BY <1>11 DEF LaunchHangs, Step, isCurrent, ShellTypes, WorkersInv, LeaseInv, SupInv, StartInv, Active, Alive
  <2> QED  BY <2>1, <2>2, <2>3, <2>4, <2>5, <1>0, Zenon
<1>5. CASE Ready(g)
  <2>1. ShellTypes'
    BY <1>0, <1>5, Zenon DEF Ready, Step, isCurrent, ShellTypes
  <2>2. WorkersInv'
    <3>1. Active(g) /\ generation' = generation
      BY <1>5, Zenon DEF Ready, Active
    <3>2. PICK p \in {"gate", "launch", "line", "hung", "observe", "connect", "done"} :
            wk' = [wk EXCEPT ![g] = p] /\ (launching' <=> p \in {"launch", "line", "hung", "observe"})
      BY <1>5, Zenon DEF Ready, Step, isCurrent, ShellTypes, WorkersInv
    <3> QED  BY <3>1, <3>2, ActiveMoves, Zenon
  <2>3. LeaseInv'
    BY <1>5, Zenon DEF Ready, Step, isCurrent, ShellTypes, WorkersInv, LeaseInv, Active
  <2>4. ~slow => SupInv'
    BY <1>5, Zenon DEF Ready, Step, isCurrent, ShellTypes, WorkersInv, LeaseInv, SupInv, Active, Alive
  <2>5. ~slow => StartInv'
    BY <1>5 DEF Ready, Step, isCurrent, ShellTypes, WorkersInv, LeaseInv, SupInv, StartInv, Active, Alive
  <2> QED  BY <2>1, <2>2, <2>3, <2>4, <2>5, <1>0, Zenon
<1>6. CASE NotReady(g)
  <2>1. ShellTypes'
    BY <1>0, <1>6, Zenon DEF NotReady, Step, isCurrent, ShellTypes
  <2>2. WorkersInv'
    <3>1. Active(g) /\ generation' = generation
      BY <1>6, Zenon DEF NotReady, Active
    <3>2. PICK p \in {"gate", "launch", "line", "hung", "observe", "connect", "done"} :
            wk' = [wk EXCEPT ![g] = p] /\ (launching' <=> p \in {"launch", "line", "hung", "observe"})
      BY <1>6 DEF NotReady, Step, isCurrent, ShellTypes, WorkersInv
    <3> QED  BY <3>1, <3>2, ActiveMoves, Zenon
  <2>3. LeaseInv'
    BY <1>6, Zenon DEF NotReady, Step, isCurrent, ShellTypes, WorkersInv, LeaseInv, Active
  <2>4. ~slow => SupInv'
    BY <1>6 DEF NotReady, Step, isCurrent, ShellTypes, WorkersInv, LeaseInv, SupInv, Active, Alive
  <2>5. ~slow => StartInv'
    BY <1>6 DEF NotReady, Step, isCurrent, ShellTypes, WorkersInv, LeaseInv, SupInv, StartInv, Active, Alive
  <2> QED  BY <2>1, <2>2, <2>3, <2>4, <2>5, <1>0, Zenon
<1>7. CASE Connect(g)
  <2>1. ShellTypes'
    BY <1>0, <1>7, Zenon DEF Connect, Step, isCurrent, Leaders, ShellTypes
  <2>2. WorkersInv'
    BY <1>7 DEF Connect, Step, isCurrent, Leaders, ShellTypes, WorkersInv, Active
  <2>3. LeaseInv'
    BY <1>7, Zenon DEF Connect, Step, isCurrent, Leaders, ShellTypes, WorkersInv, LeaseInv, Active
  <2>4. ~slow => SupInv'
    BY <1>7 DEF Connect, Step, isCurrent, Leaders, ShellTypes, WorkersInv, LeaseInv, SupInv, Active, Alive
  <2>5. ~slow => StartInv'
    BY <1>7 DEF Connect, Step, isCurrent, Leaders, ShellTypes, WorkersInv, LeaseInv, SupInv, StartInv, Active, Alive
  <2> QED  BY <2>1, <2>2, <2>3, <2>4, <2>5, <1>0, Zenon
<1>8. CASE ConnectEnds(g)
  <2>1. ShellTypes'
    BY <1>0, <1>8, Zenon DEF ConnectEnds, Step, isCurrent, ShellTypes
  <2>2. WorkersInv'
    BY <1>8 DEF ConnectEnds, Step, isCurrent, ShellTypes, WorkersInv, Active
  <2>3. LeaseInv'
    BY <1>8, Zenon DEF ConnectEnds, Step, isCurrent, ShellTypes, WorkersInv, LeaseInv, Active
  <2>4. ~slow => SupInv'
    BY <1>8 DEF ConnectEnds, Step, isCurrent, ShellTypes, WorkersInv, LeaseInv, SupInv, Active, Alive
  <2>5. ~slow => StartInv'
    BY <1>8 DEF ConnectEnds, Step, isCurrent, ShellTypes, WorkersInv, LeaseInv, SupInv, StartInv, Active, Alive
  <2> QED  BY <2>1, <2>2, <2>3, <2>4, <2>5, <1>0, Zenon
<1>9. CASE Publish(g)
  <2>1. ShellTypes'
    BY <1>0, <1>9 DEF Publish, Step, isCurrent, ShellTypes
  <2>2. WorkersInv'
    BY <1>9 DEF Publish, Step, isCurrent, ShellTypes, WorkersInv, Active
  <2>3. LeaseInv'
    BY <1>9 DEF Publish, Step, isCurrent, ShellTypes, WorkersInv, LeaseInv, Active
  <2>4. ~slow => SupInv'
    BY <1>9 DEF Publish, Step, isCurrent, ShellTypes, WorkersInv, LeaseInv, SupInv, Active, Alive
  <2>5. ~slow => StartInv'
    BY <1>9 DEF Publish, Step, isCurrent, ShellTypes, WorkersInv, LeaseInv, SupInv, StartInv, Active, Alive
  <2> QED  BY <2>1, <2>2, <2>3, <2>4, <2>5, <1>0, Zenon
<1> QED  BY <1>1, <1>2, <1>3, <1>4, <1>5, <1>6, <1>7, <1>8, <1>9, <1>10, <1>11, Zenon DEF Worker

\* While a supervisor leaves, or no worker runs, no start is on its way.
LEMMA NoStartUnderWay ==
  ASSUME ShellTypes, SupInv, StartInv, NEW s \in Sups, generation > 0, ~stopped, ~excused,
         sup[s] \in {"leaving", "exiting"} \/ \A g \in Gens : wk[g] \in {"none", "done"}
  PROVE  wk[generation] \notin {"none", "join", "install", "gate", "launch", "line", "observe", "connect"}
<1>1. generation \in Gens /\ wk[generation] # "none"
  BY ShellAssumption DEF ShellTypes, StartInv, Gens
<1>2. CASE \A g \in Gens : wk[g] \in {"none", "done"}
  BY <1>1, <1>2, Zenon
<1>3. CASE sup[s] \in {"leaving", "exiting"}
  <2>1. s \in Alive /\ \A t \in Alive : t = s
    BY <1>3, Zenon DEF SupInv, Alive
  <2> QED  BY <1>1, <1>3, <2>1, Zenon DEF StartInv
<1> QED  BY <1>2, <1>3, Zenon

\* A supervisor's steps.
LEMMA SupStepInv ==
  ASSUME ShellInv, NEW s \in Sups, SupRegisters(s) \/ SupFails(s) \/ SupEof(s) \/ SupGivesUp(s) \/ SupUnleased(s) \/ SupRemovesPidfile(s) \/ SupExits(s), UNCHANGED slow
  PROVE  ShellInv'
<1> USE ShellAssumption DEF ShellInv, locked, main, native, Gens
<1>1. CASE SupRegisters(s)
  <2>1. ShellTypes'
    BY <1>1, Zenon DEF SupRegisters, Leaders, ShellTypes
  <2>2. WorkersInv'
    BY <1>1, Zenon DEF SupRegisters, Leaders, ShellTypes, WorkersInv, Active
  <2>3. LeaseInv'
    BY <1>1, Zenon DEF SupRegisters, Leaders, ShellTypes, WorkersInv, LeaseInv, Active
  <2>4. ~slow => SupInv'
    <3> SUFFICES ASSUME ~slow PROVE SupInv'
      OBVIOUS
    <3>1. Alive = {s} /\ launching /\ \A t \in Sups : t # s => sup[t] = "none"
      BY <1>1 DEF SupRegisters, ShellTypes, WorkersInv, SupInv, Alive
    <3>2. /\ sup' = [sup EXCEPT ![s] = "up"] /\ pidfile' = s
          /\ UNCHANGED <<generation, stopped, launching, mpc, target, wk, client>>
      BY <1>1, Zenon DEF SupRegisters
    <3>3. Alive' = {s} /\ sup'[s] = "up" /\ \A t \in Sups : t # s => sup'[t] = "none"
      BY <3>1, <3>2, Zenon DEF Alive, ShellTypes
    <3> QED  BY <3>1, <3>2, <3>3, Zenon DEF SupInv, ShellTypes
  <2>5. ~slow => StartInv'
    BY <1>1 DEF SupRegisters, Leaders, ShellTypes, WorkersInv, LeaseInv, SupInv, StartInv, Active, Alive
  <2> QED  BY <2>1, <2>2, <2>3, <2>4, <2>5, Zenon
<1>2. CASE SupFails(s)
  <2>1. ShellTypes'
    BY <1>2, Zenon DEF SupFails, ShellTypes
  <2>2. WorkersInv'
    BY <1>2, Zenon DEF SupFails, ShellTypes, WorkersInv, Active
  <2>3. LeaseInv'
    BY <1>2, Zenon DEF SupFails, ShellTypes, WorkersInv, LeaseInv, Active
  <2>4. ~slow => SupInv'
    BY <1>2 DEF SupFails, ShellTypes, WorkersInv, LeaseInv, SupInv, Active, Alive
  <2>5. ~slow => StartInv'
    BY <1>2, Zenon DEF SupFails, ShellTypes, WorkersInv, LeaseInv, SupInv, StartInv, Active, Alive
  <2> QED  BY <2>1, <2>2, <2>3, <2>4, <2>5, Zenon
<1>3. CASE SupEof(s) \/ SupGivesUp(s)
  <2>1. /\ sup[s] = "up" /\ client[s] # 0 /\ sup' = [sup EXCEPT ![s] = "leaving"]
        /\ UNCHANGED <<locked, main, wk, attempt, lease, client, pidfile, excused>>
    BY <1>3, Zenon DEF SupEof, SupGivesUp
  <2>2. ShellTypes' /\ WorkersInv' /\ LeaseInv'
    BY <2>1 DEF ShellTypes, WorkersInv, LeaseInv, Active
  <2>3. ~slow => SupInv'
    BY <2>1 DEF ShellTypes, WorkersInv, LeaseInv, SupInv, Active, Alive
  <2>4. ~slow => StartInv'
    BY <2>1 DEF ShellTypes, WorkersInv, LeaseInv, SupInv, StartInv, Active, Alive
  <2> QED  BY <2>2, <2>3, <2>4, Zenon
<1>4. CASE SupUnleased(s)
  <2>1. ShellTypes'
    BY <1>4, Zenon DEF SupUnleased, ShellTypes
  <2>2. WorkersInv'
    BY <1>4, Zenon DEF SupUnleased, ShellTypes, WorkersInv, Active
  <2>3. LeaseInv'
    BY <1>4, Zenon DEF SupUnleased, ShellTypes, WorkersInv, LeaseInv, Active
  <2>4. ~slow => SupInv'
    BY <1>4 DEF SupUnleased, ShellTypes, WorkersInv, LeaseInv, SupInv, Active, Alive
  <2>5. ~slow => StartInv'
    <3> SUFFICES ASSUME ~slow, generation > 0, ~stopped, ~excused PROVE StartInv'
      BY <1>4, Zenon DEF SupUnleased, StartInv
    <3>1. wk[generation] \notin {"none", "join", "install", "gate", "launch", "line", "observe", "connect"}
      BY <1>4, NoStartUnderWay, Zenon DEF SupUnleased
    <3> QED  BY <1>4, <3>1, Zenon DEF SupUnleased, StartInv
  <2> QED  BY <2>1, <2>2, <2>3, <2>4, <2>5, Zenon
<1>5. CASE SupRemovesPidfile(s)
  <2>1. ShellTypes'
    BY <1>5, Zenon DEF SupRemovesPidfile, ShellTypes
  <2>2. WorkersInv'
    BY <1>5, Zenon DEF SupRemovesPidfile, ShellTypes, WorkersInv, Active
  <2>3. LeaseInv'
    BY <1>5, Zenon DEF SupRemovesPidfile, ShellTypes, WorkersInv, LeaseInv, Active
  <2>4. ~slow => SupInv'
    BY <1>5 DEF SupRemovesPidfile, ShellTypes, WorkersInv, LeaseInv, SupInv, Active, Alive
  <2>5. ~slow => StartInv'
    <3> SUFFICES ASSUME ~slow, generation > 0, ~stopped, ~excused PROVE StartInv'
      BY <1>5, Zenon DEF SupRemovesPidfile, StartInv
    <3>1. wk[generation] \notin {"none", "join", "install", "gate", "launch", "line", "observe", "connect"}
      BY <1>5, NoStartUnderWay, Zenon DEF SupRemovesPidfile
    <3> QED  BY <1>5, <3>1, Zenon DEF SupRemovesPidfile, StartInv
  <2> QED  BY <2>1, <2>2, <2>3, <2>4, <2>5, Zenon
<1>6. CASE SupExits(s)
  <2>1. ShellTypes'
    BY <1>6 DEF SupExits, ShellTypes
  <2>2. WorkersInv'
    BY <1>6, Zenon DEF SupExits, ShellTypes, WorkersInv, Active
  <2>3. LeaseInv'
    BY <1>6, Zenon DEF SupExits, ShellTypes, WorkersInv, LeaseInv, Active
  <2>4. ~slow => SupInv'
    BY <1>6 DEF SupExits, ShellTypes, WorkersInv, LeaseInv, SupInv, Active, Alive
  <2>5. ~slow => StartInv'
    <3> SUFFICES ASSUME ~slow, generation > 0, ~stopped, ~excused PROVE StartInv'
      BY <1>6, Zenon DEF SupExits, StartInv
    <3>1. wk[generation] \notin {"none", "join", "install", "gate", "launch", "line", "observe", "connect"}
      BY <1>6, NoStartUnderWay, Zenon DEF SupExits
    <3> QED  BY <1>6, <3>1, Zenon DEF SupExits, StartInv
  <2> QED  BY <2>1, <2>2, <2>3, <2>4, <2>5, Zenon
<1> QED  BY <1>1, <1>2, <1>3, <1>4, <1>5, <1>6, Zenon

\* ShellInv holds in every reachable state.
THEOREM ShellInvariant == Spec => []ShellInv
<1>1. Init => ShellInv
  <2> SUFFICES ASSUME Init PROVE ShellInv
    OBVIOUS
  <2>1. stopped \in BOOLEAN /\ launching \in BOOLEAN /\ excused \in BOOLEAN /\ slow \in BOOLEAN /\ ~launching
    BY Zenon DEF Init
  <2>2. ShellTypes
    BY <2>1, ShellAssumption DEF Init, ShellTypes, Gens
  <2>3. WorkersInv /\ LeaseInv
    BY <2>1, Zenon DEF Init, WorkersInv, LeaseInv, Gens, Active
  <2>4. SupInv /\ StartInv
    BY <2>1 DEF Init, SupInv, StartInv, Alive
  <2> QED  BY <2>2, <2>3, <2>4, Zenon DEF ShellInv
<1>2. ShellInv /\ [Next]_vars => ShellInv'
  <2> SUFFICES ASSUME ShellInv, [Next]_vars PROVE ShellInv'
    OBVIOUS
  <2>1. CASE UNCHANGED vars
    <3>1. ShellTypes' /\ WorkersInv' /\ LeaseInv'
      BY <2>1 DEF vars, ShellInv, ShellTypes, WorkersInv, LeaseInv, Active
    <3>2. ~slow => SupInv' /\ StartInv'
      BY <2>1, Zenon DEF vars, ShellInv, SupInv, StartInv, Alive
    <3> QED  BY <2>1, <3>1, <3>2, Zenon DEF vars, ShellInv
  <2>2. CASE Framework \/ Main
    BY <2>2, FrameworkInv, MainInv, Zenon DEF Framework, Main
  <2>3. ASSUME NEW g \in Gens, Worker(g) PROVE ShellInv'
    BY <2>3, WorkerInv, Zenon
  <2>4. ASSUME NEW s \in Sups, Sup(s) \/ SupGivesUp(s) PROVE ShellInv'
    BY <2>4, SupStepInv, Zenon DEF Sup, SupGivesUp
  <2> QED  BY <2>1, <2>2, <2>3, <2>4, Zenon DEF Next
<1> QED  BY <1>1, <1>2, PTL DEF Spec

\* At most one supervisor has the port, however short the waits, and the pidfile
\* of one that is about to exit is gone.
LeadersInv ==
  /\ \A s, t \in Leaders : s = t
  /\ \A s \in Sups : sup[s] = "exiting" => pidfile # s

\* What a step makes of every supervisor.
ShellLife == \A s \in Sups :
  LifeStep(sup[s], pidfile = s, sup'[s], pidfile' = s, mpc = "wait" /\ target = s /\ mpc' = "idle")

\* Supervisor s moves to m, and the pidfile stays, is removed, or names it.
Moves(s, m, kill) ==
  /\ sup' = [sup EXCEPT ![s] = m]
  /\ pidfile' \in {pidfile, NoSup, s}
  /\ kill => mpc = "wait" /\ target = s /\ mpc' = "idle"
  /\ m \in {"none", "forked"} \/ sup[s] \in {"up", "leaving", "exiting"} \/ Leaders = {}
  /\ m = "exiting" => pidfile' = NoSup

LEMMA OneMoves ==
  ASSUME ShellTypes, LeadersInv, NEW s \in Sups, NEW m, NEW kill \in BOOLEAN, Moves(s, m, kill),
         LifeStep(sup[s], pidfile = s, m, pidfile' = s, kill)
  PROVE  LeadersInv' /\ ShellLife
<1> USE DEF Moves
<1>1. sup'[s] = m /\ \A t \in Sups : t # s => sup'[t] = sup[t]
  BY Zenon DEF ShellTypes
<1>2. LeadersInv'
  <2>1. \A u, t \in Leaders' : u = t
    BY <1>1 DEF LeadersInv, Leaders, Alive, ShellTypes
  <2>2. \A t \in Sups : t # s /\ sup'[t] = "exiting" => pidfile' # t
    BY <1>1, ShellAssumption, Zenon DEF LeadersInv
  <2>3. sup'[s] = "exiting" => pidfile' # s
    BY <1>1, ShellAssumption, Zenon
  <2> QED  BY <2>1, <2>2, <2>3, Zenon DEF LeadersInv
<1>3. ASSUME NEW t \in Sups, t # s
      PROVE  sup'[t] = sup[t] /\ (~(pidfile' = t) \/ ((pidfile' = t) = (pidfile = t)))
  BY <1>1, <1>3, ShellAssumption, Zenon
<1>4. ASSUME NEW t \in Sups, t # s
      PROVE  LifeStep(sup[t], pidfile = t, sup'[t], pidfile' = t, mpc = "wait" /\ target = t /\ mpc' = "idle")
  BY <1>3, <1>4, Zenon DEF LifeStep, Disowned
<1>5. LifeStep(sup[s], pidfile = s, sup'[s], pidfile' = s, mpc = "wait" /\ target = s /\ mpc' = "idle")
  BY <1>1, Zenon DEF LifeStep, Killed
<1> QED  BY <1>2, <1>4, <1>5, Zenon DEF ShellLife

\* No supervisor moves, and the pidfile stays or is removed.
LEMMA NoneMoves ==
  ASSUME LeadersInv, sup' = sup, pidfile' \in {pidfile, NoSup}
  PROVE  LeadersInv' /\ ShellLife
<1>1. LeadersInv'
  BY ShellAssumption, Zenon DEF LeadersInv, Leaders, Alive
<1>2. ASSUME NEW t \in Sups
      PROVE  ~(pidfile' = t) \/ ((pidfile' = t) = (pidfile = t))
  BY ShellAssumption, Zenon
<1>3. ASSUME NEW t \in Sups
      PROVE  LifeStep(sup[t], pidfile = t, sup'[t], pidfile' = t, mpc = "wait" /\ target = t /\ mpc' = "idle")
  BY <1>2, <1>3, Zenon DEF LifeStep, Disowned
<1> QED  BY <1>1, <1>3, Zenon DEF ShellLife

\* Every step, from the supervisors' point of view.
LEMMA ShellLives ==
  ASSUME ShellInv, LeadersInv, [Next]_vars
  PROVE  LeadersInv' /\ ShellLife
<1> USE DEF ShellInv, native, locked, main
<1>1. CASE Start \/ Stop \/ Await \/ CloseLease \/ GroupGone \/ UNCHANGED vars
  <2>1. sup' = sup /\ pidfile' = pidfile
    BY <1>1, Zenon DEF Start, Stop, Await, CloseLease, GroupGone, vars
  <2> QED  BY <2>1, NoneMoves, Zenon
<1>2. CASE Resolve
  <2>1. pidfile' = pidfile
    BY <1>2, Zenon DEF Resolve
  <2>2. CASE sup' = sup
    BY <2>1, <2>2, NoneMoves, Zenon
  <2>3. ASSUME NEW s \in Sups, sup[s] = "up", sup' = [sup EXCEPT ![s] = "leaving"]
        PROVE  LeadersInv' /\ ShellLife
    <3>1. LifeStep(sup[s], pidfile = s, "leaving", pidfile' = s, FALSE)
      BY <2>1, <2>3, Zenon DEF LifeStep, Leaves
    <3>2. Moves(s, "leaving", FALSE)
      BY <2>1, <2>3, Zenon DEF Moves
    <3> QED  BY <3>1, <3>2, OneMoves, Zenon
  <2> QED  BY <1>2, <2>2, <2>3, Zenon DEF Resolve, Leaders, Alive
<1>3. CASE DeadlineKill
  <2>1. target \in Sups /\ sup' = [sup EXCEPT ![target] = "none"] /\ pidfile' = pidfile /\ mpc = "wait" /\ mpc' = "idle"
    BY <1>3, Zenon DEF DeadlineKill, LeaseInv
  <2>2. sup[target] \in {"none", "forked", "up", "leaving", "exiting"}
    BY <2>1, Zenon DEF ShellTypes
  <2>3. LifeStep(sup[target], pidfile = target, "none", pidfile' = target, TRUE)
    BY <2>1, <2>2, Zenon DEF LifeStep, Killed, GivesNoLife
  <2>4. Moves(target, "none", TRUE)
    BY <2>1, <2>2, Zenon DEF Moves
  <2> QED  BY <2>1, <2>3, <2>4, OneMoves, Zenon
<1>4. ASSUME NEW g \in Gens, Worker(g), ~LaunchReturns(g) PROVE LeadersInv' /\ ShellLife
  <2>1. sup' = sup /\ pidfile' \in {pidfile, NoSup}
    BY <1>4, Zenon DEF Worker, Join, Install, Gate, LaunchNative, LaunchHangs, Ready, NotReady, Connect, ConnectEnds, Publish
  <2> QED  BY <2>1, NoneMoves, Zenon
<1>5. ASSUME NEW g \in Gens, LaunchReturns(g) PROVE LeadersInv' /\ ShellLife
  <2>1. pidfile' = pidfile
    BY <1>5, Zenon DEF LaunchReturns
  <2>2. CASE sup' = sup
    BY <2>1, <2>2, NoneMoves, Zenon
  <2>3. ASSUME NEW s \in Sups, sup[s] = "none", sup' = [sup EXCEPT ![s] = "forked"]
        PROVE  LeadersInv' /\ ShellLife
    <3>1. LifeStep(sup[s], pidfile = s, "forked", pidfile' = s, FALSE)
      BY <2>1, <2>3, Zenon DEF LifeStep, Forks
    <3>2. Moves(s, "forked", FALSE)
      BY <2>1, <2>3, Zenon DEF Moves
    <3> QED  BY <3>1, <3>2, OneMoves, Zenon
  <2> QED  BY <1>5, <2>2, <2>3, Zenon DEF LaunchReturns, Alive
<1>6. ASSUME NEW s \in Sups, Sup(s) \/ SupGivesUp(s) PROVE LeadersInv' /\ ShellLife
  <2>1. CASE SupRegisters(s)
    <3>1. LifeStep(sup[s], pidfile = s, "up", pidfile' = s, FALSE)
      BY <2>1, Zenon DEF SupRegisters, LifeStep, Registers
    <3>2. Moves(s, "up", FALSE)
      BY <2>1, Zenon DEF Moves, SupRegisters
    <3> QED  BY <3>1, <3>2, OneMoves, Zenon
  <2>2. CASE SupFails(s)
    <3>1. LifeStep(sup[s], pidfile = s, "none", pidfile' = s, FALSE)
      BY <2>2, Zenon DEF SupFails, LifeStep, GivesNoLife
    <3>2. Moves(s, "none", FALSE)
      BY <2>2, Zenon DEF Moves, SupFails
    <3> QED  BY <3>1, <3>2, OneMoves, Zenon
  <2>3. CASE SupEof(s) \/ SupUnleased(s) \/ SupGivesUp(s)
    <3>1. sup[s] = "up" /\ sup' = [sup EXCEPT ![s] = "leaving"] /\ pidfile' = pidfile
      BY <2>3, Zenon DEF SupEof, SupUnleased, SupGivesUp
    <3>2. LifeStep(sup[s], pidfile = s, "leaving", pidfile' = s, FALSE)
      BY <3>1, Zenon DEF LifeStep, Leaves
    <3>3. Moves(s, "leaving", FALSE)
      BY <3>1, Zenon DEF Moves
    <3> QED  BY <3>2, <3>3, OneMoves, Zenon
  <2>4. CASE SupRemovesPidfile(s)
    <3>1. sup[s] = "leaving" /\ sup' = [sup EXCEPT ![s] = "exiting"] /\ pidfile' = NoSup /\ pidfile' # s
      BY <2>4, ShellAssumption, Zenon DEF SupRemovesPidfile
    <3>2. LifeStep(sup[s], pidfile = s, "exiting", pidfile' = s, FALSE)
      BY <3>1, Zenon DEF LifeStep, Unlinks
    <3>3. Moves(s, "exiting", FALSE)
      BY <3>1, Zenon DEF Moves
    <3> QED  BY <3>2, <3>3, OneMoves, Zenon
  <2>5. CASE SupExits(s)
    <3>1. sup[s] = "exiting" /\ sup' = [sup EXCEPT ![s] = "none"] /\ pidfile' = pidfile /\ pidfile' # s
      BY <2>5, Zenon DEF SupExits, LeadersInv
    <3>2. LifeStep(sup[s], pidfile = s, "none", pidfile' = s, FALSE)
      BY <3>1, Zenon DEF LifeStep, Exits
    <3>3. Moves(s, "none", FALSE)
      BY <3>1, Zenon DEF Moves
    <3> QED  BY <3>2, <3>3, OneMoves, Zenon
  <2> QED  BY <1>6, <2>1, <2>2, <2>3, <2>4, <2>5, Zenon DEF Sup
<1> QED  BY <1>1, <1>2, <1>3, <1>4, <1>5, <1>6, Zenon DEF Next, Framework, Main

\* LeadersInv holds in every reachable state.
LEMMA LeadersInvariant == Spec => []LeadersInv
<1>1. Init => LeadersInv
  BY Zenon DEF Init, LeadersInv, Leaders, Alive
<1> QED  BY <1>1, ShellInvariant, ShellLives, PTL DEF Spec

\* The supervisors of this module live the life that the supervisor of module
\* Supervisor is proved to live: what the Kindlet is checked against is what
\* supervisor_main.c does.
THEOREM ShellSupervisorsLive == Spec => [][ShellLife]_vars
<1> QED  BY LeadersInvariant, ShellInvariant, ShellLives, PTL DEF Spec

\* One worker at a time installs, launches or connects: each start() makes its
\* worker wait for the ones before it, so that no two installs touch the tree.
THEOREM OneWorkerAtATime == Spec => [](\A g, h \in Gens : Active(g) /\ Active(h) => g = h)
<1>1. ShellInv => \A g, h \in Gens : Active(g) /\ Active(h) => g = h
  BY OneActive, Zenon DEF ShellInv
<1> QED  BY <1>1, ShellInvariant, PTL

\* Unless a wait ran out, stop() leaves no supervisor and no lease behind it, for
\* every number of generations and supervisors.
THEOREM NothingSurvivesStop == Spec => []NoSurvivor
<1>1. ShellInv => NoSurvivor
  BY DEF ShellInv, ShellTypes, LeaseInv, SupInv, NoSurvivor, Gens
<1> QED  BY <1>1, ShellInvariant, PTL

\* A start that follows a stop ends with a lease, or with something reported.
THEOREM EveryStartSucceeds == Spec => []StartSucceeds
<1>1. ShellInv => StartSucceeds
  BY Zenon DEF ShellInv, ShellTypes, StartInv, StartSucceeds
<1> QED  BY <1>1, ShellInvariant, PTL

\* The attempts of the launch under way are within their number.
AttemptInv ==
  /\ attempt \in 0 .. LAUNCH_ATTEMPTS
  /\ \A g \in Gens : wk[g] = "launch" => attempt < LAUNCH_ATTEMPTS

\* The steps a worker may still take.
WorkLeft(g) ==
  CASE wk[g] = "join" -> 3 * LAUNCH_ATTEMPTS + 5
    [] wk[g] = "install" -> 3 * LAUNCH_ATTEMPTS + 4
    [] wk[g] = "gate" -> 3 * LAUNCH_ATTEMPTS + 3
    [] wk[g] = "launch" -> 3 * (LAUNCH_ATTEMPTS - attempt) + 2
    [] wk[g] = "line" -> 3 * (LAUNCH_ATTEMPTS - attempt) + 4
    [] wk[g] = "observe" -> 3 * (LAUNCH_ATTEMPTS - attempt) + 3
    [] wk[g] = "connect" -> 2
    [] wk[g] = "publish" -> 1
    [] OTHER -> 0

\* Each step of a worker leaves it fewer, and no other step leaves it more.
WorkShort == \A g \in Gens :
  wk[g] # "none" =>
    /\ WorkLeft(g) \in 0 .. 3 * LAUNCH_ATTEMPTS + 5 /\ WorkLeft(g)' <= WorkLeft(g)
    /\ wk'[g] # wk[g] => WorkLeft(g)' < WorkLeft(g)

\* runWorker makes no more than LAUNCH_ATTEMPTS attempts.
LEMMA AttemptsInvariant == Spec => []AttemptInv
<1> USE ShellAssumption
<1>1. Init => AttemptInv
  BY DEF Init, AttemptInv
<1>2. ShellInv /\ AttemptInv /\ [Next]_vars => AttemptInv'
  <2> SUFFICES ASSUME ShellInv, AttemptInv, [Next]_vars PROVE AttemptInv'
    OBVIOUS
  <2>1. wk \in [Gens -> {"none", "join", "install", "gate", "launch", "line", "hung",
                    "observe", "connect", "publish", "done"}]
    BY Zenon DEF ShellInv, ShellTypes
  <2> USE DEF AttemptInv, Step, locked, main, native
  <2>2. CASE Framework
    BY <2>1, <2>2, Zenon DEF Framework, Start, Stop, Gens
  <2>3. CASE Main
    BY <2>3, Zenon DEF Main, Await, CloseLease, Resolve, GroupGone, DeadlineKill
  <2>4. ASSUME NEW g \in Gens, Worker(g) PROVE AttemptInv'
    <3>1. \A h \in Gens : h # g /\ wk[g] \notin {"join", "none", "done"} => wk[h] # "launch"
      BY OneActive, Zenon DEF ShellInv, Active
    <3>2. CASE Join(g) \/ Install(g) \/ Connect(g) \/ ConnectEnds(g) \/ Publish(g) \/ Ready(g)
      BY <2>1, <3>2, Zenon DEF Join, Install, Connect, ConnectEnds, Publish, Ready
    <3>3. CASE Gate(g)
      BY <2>1, <3>3 DEF Gate
    <3>4. CASE LaunchNative(g)
      BY <2>1, <3>1, <3>4 DEF LaunchNative
    <3>5. CASE NotReady(g)
      BY <2>1, <3>5, Zenon DEF NotReady
    <3>6. CASE LaunchReturns(g) \/ LaunchHangs(g)
      BY <2>1, <3>6, Zenon DEF LaunchReturns, LaunchHangs
    <3> QED  BY <2>4, <3>2, <3>3, <3>4, <3>5, <3>6, Zenon DEF Worker
  <2>5. ASSUME NEW s \in Sups, Sup(s) \/ SupGivesUp(s) PROVE AttemptInv'
    BY <2>5, Zenon DEF Sup, SupGivesUp, SupRegisters, SupFails, SupEof, SupUnleased, SupRemovesPidfile,
                SupExits
  <2>6. CASE UNCHANGED vars
    BY <2>6, Zenon DEF vars
  <2> QED  BY <2>2, <2>3, <2>4, <2>5, <2>6, Zenon DEF Next
<1> QED  BY <1>1, <1>2, ShellInvariant, PTL DEF Spec

\* A worker's step takes it nearer its end and leaves the others where they are.
LEMMA WorkerAdvances ==
  ASSUME ShellInv, AttemptInv, NEW g \in Gens, Worker(g)
  PROVE  /\ WorkLeft(g)' \in Int /\ WorkLeft(g)' < WorkLeft(g)
         /\ \A h \in Gens : h # g => wk'[h] = wk[h] /\ WorkLeft(h)' = WorkLeft(h)
<1> USE ShellAssumption
<1>1. wk \in [Gens -> {"none", "join", "install", "gate", "launch", "line", "hung",
                    "observe", "connect", "publish", "done"}]
  BY Zenon DEF ShellInv, ShellTypes
<1>2. attempt \in 0 .. LAUNCH_ATTEMPTS /\ (wk[g] = "launch" => attempt < LAUNCH_ATTEMPTS)
  BY Zenon DEF AttemptInv
<1>3. \A h \in Gens : h # g /\ Active(g) => wk[h] \notin {"launch", "line", "observe"}
  BY OneActive, Zenon DEF ShellInv, Active
<1> USE DEF Step, locked, main, native
<1>4. CASE Join(g)
  BY <1>1, <1>2, <1>4 DEF Join, WorkLeft
<1>5. CASE Install(g)
  BY <1>1, <1>2, <1>5 DEF Install, WorkLeft
<1>6. CASE Gate(g)
  BY <1>1, <1>2, <1>3, <1>6 DEF Gate, WorkLeft, Active
<1>7. CASE LaunchNative(g)
  BY <1>1, <1>2, <1>3, <1>7 DEF LaunchNative, WorkLeft, Active
<1>8. CASE Ready(g) \/ NotReady(g)
  BY <1>1, <1>2, <1>8 DEF Ready, NotReady, WorkLeft
<1>9. CASE Connect(g) \/ ConnectEnds(g) \/ Publish(g)
  BY <1>1, <1>2, <1>9 DEF Connect, ConnectEnds, Publish, WorkLeft
<1>10. CASE LaunchReturns(g) \/ LaunchHangs(g)
  BY <1>1, <1>2, <1>10 DEF LaunchReturns, LaunchHangs, WorkLeft
<1> QED  BY <1>4, <1>5, <1>6, <1>7, <1>8, <1>9, <1>10, Zenon DEF Worker

\* A worker that start() created takes at most 3 LAUNCH_ATTEMPTS + 5 steps of its
\* own: no retry of the launch, the connection or the join starts over, whatever
\* the framework, the supervisors and the other workers do meanwhile.
THEOREM WorkersAreShort == Spec => [][WorkShort]_vars
<1>1. ShellInv /\ AttemptInv /\ [Next]_vars => [WorkShort]_vars
  <2> SUFFICES ASSUME ShellInv, AttemptInv, Next, NEW g \in Gens, wk[g] # "none"
               PROVE  /\ WorkLeft(g) \in 0 .. 3 * LAUNCH_ATTEMPTS + 5 /\ WorkLeft(g)' <= WorkLeft(g)
                      /\ wk'[g] # wk[g] => WorkLeft(g)' < WorkLeft(g)
    BY Zenon DEF WorkShort
  <2> USE ShellAssumption
  <2>1. WorkLeft(g) \in 0 .. 3 * LAUNCH_ATTEMPTS + 5
    BY DEF AttemptInv, WorkLeft
  <2>2. CASE wk'[g] = wk[g] /\ attempt' = attempt
    <3>1. WorkLeft(g)' = WorkLeft(g)
      BY <2>2, Zenon DEF WorkLeft
    <3> QED  BY <2>1, <2>2, <3>1
  <2>3. CASE \E h \in Gens : Worker(h)
    <3>1. PICK h \in Gens : Worker(h)
      BY <2>3, Zenon
    <3>2. CASE h = g
      BY <2>1, <3>1, <3>2, WorkerAdvances
    <3>3. CASE h # g
      <4>1. wk'[g] = wk[g] /\ WorkLeft(g)' = WorkLeft(g)
        BY <3>1, <3>3, WorkerAdvances, Zenon
      <4> QED  BY <2>1, <4>1
    <3> QED  BY <3>2, <3>3, Zenon
  <2> USE DEF locked, main, native
  <2>4. CASE Framework
    <3>1. wk'[g] = wk[g] /\ attempt' = attempt
      BY <2>4 DEF Framework, Start, Stop, ShellInv, ShellTypes, WorkersInv, Gens
    <3> QED  BY <2>2, <3>1, Zenon
  <2>5. CASE Main
    <3>1. wk' = wk /\ attempt' = attempt
      BY <2>5, Zenon DEF Main, Await, CloseLease, Resolve, GroupGone, DeadlineKill
    <3> QED  BY <2>2, <3>1, Zenon
  <2>6. CASE \E s \in Sups : Sup(s) \/ SupGivesUp(s)
    <3>1. wk' = wk /\ attempt' = attempt
      BY <2>6, Zenon DEF Sup, SupGivesUp, SupRegisters, SupFails, SupEof, SupUnleased,
                  SupRemovesPidfile, SupExits
    <3> QED  BY <2>2, <3>1, Zenon
  <2> QED  BY <2>3, <2>4, <2>5, <2>6, Zenon DEF Next
<1> QED  BY <1>1, ShellInvariant, AttemptsInvariant, PTL DEF Spec
=============================================================================

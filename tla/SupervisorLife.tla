--------------------------- MODULE SupervisorLife ---------------------------
(***************************************************************************)
(* What the Kindlet may count on of a supervisor process: where it is in   *)
(* its life, and whether supervisor.pid names it.  Module KindletShell     *)
(* keeps no more than this of a supervisor; module Supervisor has the      *)
(* whole of it.  Both are shown to move by these steps only.               *)
(***************************************************************************)
\* Forked by the launch line; a pidfile another one left may still be there.
Forks(l, f, m, g) == l = "none" /\ m = "forked" /\ g = f

\* It has the port, and writes the pidfile; or it cannot, and writes nothing.
Registers(l, f, m, g) == l = "forked" /\ m = "up" /\ g
GivesNoLife(l, f, m, g) == l = "forked" /\ m = "none" /\ g = f

\* Once it leaves it never serves again.
Leaves(l, f, m, g) == l = "up" /\ m = "leaving" /\ g = f

\* The pidfile is removed before the port is given back.
Unlinks(l, f, m, g) == l = "leaving" /\ m = "exiting" /\ ~g
Exits(l, f, m, g) == l \in {"leaving", "exiting"} /\ m = "none" /\ ~g

\* The Kindlet kills its group; only then does its pidfile outlive it.
Killed(l, f, m, g, kill) == kill /\ l \in {"up", "leaving", "exiting"} /\ m = "none" /\ g = f

\* The Kindlet removes a pidfile, or another supervisor writes it.
Disowned(l, f, m, g) == m = l /\ ~g

\* From life l to m; f and g tell whether the pidfile named it before and after,
\* kill whether the step is a KILL to its group.
LifeStep(l, f, m, g, kill) ==
  \/ Forks(l, f, m, g) \/ Registers(l, f, m, g) \/ GivesNoLife(l, f, m, g)
  \/ Leaves(l, f, m, g) \/ Unlinks(l, f, m, g) \/ Exits(l, f, m, g)
  \/ Killed(l, f, m, g, kill) \/ Disowned(l, f, m, g) \/ (m = l /\ g = f)
=============================================================================

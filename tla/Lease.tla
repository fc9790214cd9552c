-------------------------------- MODULE Lease -------------------------------
(***************************************************************************)
(* The timing of one lease: sup_step and the session loop of airplay-      *)
(* supervisor (supervisor.c, supervisor_main.c) against the idle heartbeat *)
(* of the Kindlet's writer thread (LeaseConnection.writerLoop).  Clocks    *)
(* count seconds.  The Kindlet connects while the supervisor still runs    *)
(* its first airplay-off, and the lease starts with airplay-on, during     *)
(* which nobody reads the socket.                                          *)
(***************************************************************************)
EXTENDS Integers

CONSTANTS
  SUP_HEARTBEAT_TIMEOUT, TICK,  \* 30 s and 5 s
  ON_DEADLINE, OFF_DEADLINE,    \* run_script's bounds, 20 s and 12 s
  HEARTBEAT,                    \* the writer's idle time, 10 s
  LATE,                         \* how late the writer may be scheduled
  RELAY,                        \* longest wait of relay_cmd for room in raopd's queue
  QUEUE                         \* bound: commands the Kindlet has written that are not relayed

ASSUME LeaseAssumption ==
  /\ {SUP_HEARTBEAT_TIMEOUT, TICK, ON_DEADLINE, OFF_DEADLINE, HEARTBEAT} \subseteq Nat \ {0}
  /\ LATE \in Nat /\ RELAY \in Nat /\ QUEUE \in Nat

\* The deadlines fit: airplay-on may not outlast the timeout, nor a late beat.
ASSUME DeadlinesFit ==
  ON_DEADLINE <= SUP_HEARTBEAT_TIMEOUT /\ HEARTBEAT + LATE <= SUP_HEARTBEAT_TIMEOUT

VARIABLES
  pc,       \* off (reconciling), on (airplay-on runs), top, poll, relay, ended
  since_hb, \* now_ms() - last_hb_ms
  waited,   \* time spent in the current script, poll or relay
  inbox,    \* kinds of complete lines in the socket buffer, commands apart
  cmds,     \* command lines in the socket buffer
  relays,   \* commands of the last read that are not relayed yet
  eof,      \* the peer has closed its end
  kindlet,  \* live, or silent (it sends no line that counts)
  quiet,    \* time since the peer last wrote a line that counts
  idle,     \* the writer's now() - lastWrite
  put_off,  \* a key that wrote nothing has postponed a heartbeat
  why,      \* why the lease ended
  backlog   \* history: commands not relayed when the peer last wrote a line that counts

leaseVars == <<pc, since_hb, waited, inbox, cmds, relays, eof, kindlet, quiet, idle, put_off, why, backlog>>
queue == <<inbox, cmds, relays>>
writer == <<eof, kindlet, quiet, idle, put_off, backlog>>

\* HELLO is written as soon as the connection is made.
LeaseInit ==
  /\ pc = "off" /\ since_hb = 0 /\ waited = 0 /\ inbox = {"HELLO"} /\ cmds = 0 /\ relays = 0
  /\ eof = FALSE /\ kindlet = "live" /\ quiet = 0 /\ idle = 0 /\ put_off = FALSE /\ why = "none"
  /\ backlog = 0

\* SUP_EV_ACCEPT: the lease is ACTIVE from here on.
AcceptLease ==
  /\ pc = "off"
  /\ pc' = "on" /\ waited' = 0 /\ since_hb' = 0
  /\ UNCHANGED <<queue, writer, why>>

OnSucceeds ==
  /\ pc = "on"
  /\ pc' = "top" /\ waited' = 0
  /\ UNCHANGED <<since_hb, queue, writer, why>>

\* airplay-on failed: the lease is given up.
OnFails ==
  /\ pc = "on"
  /\ pc' = "ended" /\ why' = "failed"
  /\ UNCHANGED <<since_hb, waited, queue, writer>>

\* SUP_EV_TICK, at the top of every iteration.
Tick ==
  /\ pc = "top"
  /\ IF since_hb > SUP_HEARTBEAT_TIMEOUT
       THEN pc' = "ended" /\ why' = "expired"
       ELSE pc' = "poll" /\ UNCHANGED why
  /\ waited' = 0
  /\ UNCHANGED <<since_hb, queue, writer>>

Readable == inbox # {} \/ cmds > 0 \/ eof

PollTimesOut ==
  /\ pc = "poll" /\ waited >= TICK /\ ~Readable
  /\ pc' = "top"
  /\ UNCHANGED <<since_hb, waited, queue, writer, why>>

\* read, which may leave a part of the lines for the next one, sup_lb_push, and
\* sup_step on every line: STOP ends the lease, HELLO, PING and the commands
\* refresh it, any other line does nothing.  n commands are relayed to raopd
\* one after the other, with no tick between them; sendto waits while raopd's
\* queue is full, and each refreshes the lease when it returns.  Commands that
\* come before STOP are those of the read before.

\* Faulty variant: back to the poll, so the tick is taken on a timeout only.
NextRoundPolls(n) == IF n > 0 THEN "relay" ELSE "poll"

NextRound(n) == IF n > 0 THEN "relay" ELSE "top"

ReadLines ==
  /\ pc = "poll"
  /\ \E lines \in SUBSET inbox, n \in 0 .. cmds :
       /\ lines # {} \/ n > 0
       /\ inbox' = inbox \ lines /\ cmds' = cmds - n /\ relays' = n
       /\ since_hb' = IF lines \cap {"HELLO", "PING"} # {} THEN 0 ELSE since_hb
       /\ IF "STOP" \in lines
            THEN n = 0 /\ pc' = "ended" /\ why' = "stop"
            ELSE pc' = NextRound(n) /\ UNCHANGED why
  /\ waited' = 0
  /\ UNCHANGED writer

\* Faulty variant: the lease is not refreshed by a command.
RefreshedByNothing == since_hb

Refreshed == 0

Relayed ==
  /\ pc = "relay"
  /\ relays' = relays - 1 /\ since_hb' = Refreshed /\ waited' = 0
  /\ pc' = IF relays > 1 THEN "relay" ELSE "top"
  /\ UNCHANGED <<inbox, cmds, writer, why>>

\* End of file, or a reset, which also discards what was not read.
ReadEof ==
  /\ pc = "poll" /\ eof
  /\ pc' = "ended" /\ why' = "eof"
  /\ UNCHANGED <<since_hb, waited, queue, writer>>

-----------------------------------------------------------------------------
\* The writer's idle heartbeat, due HEARTBEAT after its last write; a key comes
\* at any time and counts as well.  STOP is part of the protocol, though this
\* Kindlet never sends it.
Ping ==
  /\ kindlet = "live" /\ ~eof /\ idle >= HEARTBEAT
  /\ inbox' = inbox \cup {"PING"} /\ quiet' = 0 /\ idle' = 0 /\ backlog' = cmds + relays
  /\ UNCHANGED <<pc, since_hb, waited, cmds, relays, eof, kindlet, put_off, why>>

Key ==
  /\ kindlet = "live" /\ ~eof /\ pc # "ended"
  /\ \/ inbox' = inbox \cup {"STOP"} /\ UNCHANGED cmds
     \/ cmds + relays < QUEUE /\ cmds' = cmds + 1 /\ UNCHANGED inbox
  /\ quiet' = 0 /\ idle' = 0 /\ backlog' = cmds' + relays
  /\ UNCHANGED <<pc, since_hb, waited, relays, eof, kindlet, put_off, why>>

\* A release, an auto-repeat or an unmapped key: NowPlayingEncoder returns null,
\* nothing is written, and the writer takes it for a write.
KeySwallowed ==
  /\ kindlet = "live" /\ ~eof /\ pc # "ended"
  /\ idle' = 0 /\ put_off' = TRUE
  /\ UNCHANGED <<pc, since_hb, waited, queue, eof, kindlet, quiet, why, backlog>>

FallSilent ==
  /\ kindlet = "live" /\ pc # "ended"
  /\ kindlet' = "silent"
  /\ UNCHANGED <<pc, since_hb, waited, queue, eof, quiet, idle, put_off, why, backlog>>

\* A peer that fell silent may still keep the socket readable.
Junk ==
  /\ kindlet = "silent" /\ ~eof /\ pc # "ended"
  /\ inbox' = inbox \cup {"junk"}
  /\ UNCHANGED <<pc, since_hb, waited, cmds, relays, writer, why>>

KindletCloses ==
  /\ ~eof /\ pc # "ended"
  /\ eof' = TRUE
  /\ UNCHANGED <<pc, since_hb, waited, queue, kindlet, quiet, idle, put_off, why, backlog>>

\* A second passes.  The supervisor's own steps take no time; scripts end
\* before their deadline, poll returns when it can, the writer is at most LATE.
Pass ==
  /\ \/ pc = "off" /\ waited < OFF_DEADLINE
     \/ pc = "on" /\ waited < ON_DEADLINE
     \/ pc = "poll" /\ waited < TICK /\ ~Readable
     \/ pc = "relay" /\ waited < RELAY
  /\ kindlet = "live" /\ ~eof => idle < HEARTBEAT + LATE
  /\ since_hb' = since_hb + 1 /\ waited' = waited + 1 /\ quiet' = quiet + 1 /\ idle' = idle + 1
  /\ UNCHANGED <<pc, queue, eof, kindlet, put_off, why, backlog>>

Done == pc = "ended" /\ UNCHANGED leaseVars

LeaseNext ==
  \/ AcceptLease \/ OnSucceeds \/ OnFails \/ Tick \/ PollTimesOut \/ ReadLines \/ Relayed \/ ReadEof
  \/ Ping \/ Key \/ KeySwallowed \/ FallSilent \/ Junk \/ KindletCloses \/ Pass \/ Done
LeaseSpec == LeaseInit /\ [][LeaseNext]_leaseVars

-----------------------------------------------------------------------------
\* The types; a lease has ended exactly when there was a reason.
LeaseTypeOK ==
  /\ pc \in {"off", "on", "top", "poll", "relay", "ended"}
  /\ inbox \subseteq {"HELLO", "PING", "STOP", "junk"} /\ eof \in BOOLEAN /\ put_off \in BOOLEAN
  /\ kindlet \in {"live", "silent"} /\ why \in {"none", "failed", "expired", "stop", "eof"}
  /\ {since_hb, waited, quiet, idle, cmds, relays, backlog} \subseteq Nat
  /\ (pc = "ended") <=> (why # "none")

\* A Kindlet that writes its heartbeats, even LATE after they are due, never
\* loses the lease to the timeout, whatever time the scripts and the relaying of
\* commands took.  It may when keys that write nothing postpone them, in spite
\* of "using the remote keeps the lease alive" (supervisor.c).
NoFalseExpiry == why = "expired" => kindlet = "silent" \/ eof \/ put_off

\* A peer that wrote nothing that counts for the timeout and a tick has lost the
\* lease, even if it keeps the socket readable.  What delays the reading of its
\* last line comes on top: the scripts, and the wait of every command that it
\* had written before and that was not relayed yet, each of which renews the
\* lease once more when it is.
DeadLeaseEnds ==
  pc # "ended" =>
    quiet <= OFF_DEADLINE + ON_DEADLINE + backlog * RELAY + SUP_HEARTBEAT_TIMEOUT + TICK
=============================================================================

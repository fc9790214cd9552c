------------------------------- MODULE Session ------------------------------
(***************************************************************************)
(* The threads of a live session (session.c) and the player's pipe to the  *)
(* aplay child (sink.cpp): the RTSP thread that starts, flushes and stops  *)
(* the session, the receiver thread and the player thread.  Sections under *)
(* session->lock are one action each (the FLUSH is two, since its first    *)
(* effect is read without the lock); every step outside the lock is an     *)
(* action of its own, so a FLUSH or a stop can fall between any two.       *)
(*                                                                         *)
(* The jitter buffer is abstracted to what module Playback establishes of  *)
(* it: once the start gate has opened, a pop yields PCM of the current     *)
(* epoch, or stalls.  PCM is tagged with the generation it was popped in.  *)
(***************************************************************************)
EXTENDS Integers, Sequences

CONSTANTS
  FILL,         \* accepted packets that open the start gate          (63)
  CHUNK,        \* sink writes' worth of PCM in one popped packet
  PIPE,         \* capacity of the pipe, in the same unit
  BACKOFF_MAX,  \* MAX_BACKOFF_RETRIES of session_sink_write_all      (200)
  SPAWN_MAX,    \* spawn attempts sink_write makes before it gives up (1000)
  BUDGET,       \* RX_DRAIN_BUDGET                                    (64)
  MAX_FLUSH,    \* bound: number of FLUSHes
  SPAWN_FAILS   \* whether spawning the child may fail

ASSUME SessionAssumption ==
  /\ FILL \in Nat \ {0} /\ CHUNK \in Nat \ {0} /\ PIPE \in Nat \ {0}
  /\ BACKOFF_MAX \in Nat /\ SPAWN_MAX \in Nat /\ BUDGET \in Nat \ {0}
  /\ MAX_FLUSH \in Nat /\ SPAWN_FAILS \in BOOLEAN

VARIABLES
  main,         \* the RTSP thread's place in start, use, stop and destroy
  running, threads_up, sgen, sink_restart_pending,
  started, rx_count,
  fds_open,     \* the three RTP sockets, owned by the session
  pcm,          \* the player's scratch buffer is allocated
  rx,           \* receiver thread: off, loop, drain, done
  budget,       \* datagrams rx_drain may still take in this call
  pl,           \* player: off, top, restart, lock, check, sink, write, done
  g,            \* generation the player sampled with its PCM
  left,         \* PCM still to write
  took,         \* the current sink_write call has written something
  retries,      \* backoff_retries
  alive,        \* the aplay child runs
  pipe,         \* generation tags of the PCM in the child's pipe
  attempts,     \* g_spawn_attempts
  heard         \* generation of the PCM a child played last

mainVars == <<main, running, threads_up, fds_open, pcm>>
bufVars  == <<started, rx_count>>
rxVars   == <<rx, budget>>
plVars   == <<pl, g, left, took, retries>>
sinkVars == <<alive, pipe, attempts, heard>>
genVars  == <<sgen, sink_restart_pending>>
sessionVars == <<mainVars, bufVars, rxVars, plVars, sinkVars, genVars>>

\* sink_open: the first child is up.
SinkOpened == alive = TRUE /\ pipe = <<>> /\ attempts = 0 /\ heard = 0

\* session_create has succeeded: the sink is open and no thread exists.
SessionInit ==
  /\ main = "create" /\ running = FALSE /\ threads_up = FALSE
  /\ fds_open = TRUE /\ pcm = FALSE
  /\ started = FALSE /\ rx_count = 0
  /\ rx = "off" /\ budget = 0
  /\ pl = "off" /\ g = 0 /\ left = 0 /\ took = FALSE /\ retries = 0
  /\ SinkOpened
  /\ sgen = 0 /\ sink_restart_pending = FALSE

-----------------------------------------------------------------------------
\* session_start: allocate the scratch buffer and create the receiver thread;
\* either may fail.
StartRx ==
  /\ main = "create"
  /\ \/ main' = "rx_up" /\ running' = TRUE /\ pcm' = TRUE /\ rx' = "loop"
     \/ main' = "destroy" /\ UNCHANGED <<running, pcm, rx>>
  /\ UNCHANGED <<threads_up, fds_open, bufVars, budget, plVars, sinkVars, genVars>>

\* session_start: create the player thread, or stop the receiver again.
StartPl ==
  /\ main = "rx_up"
  /\ \/ main' = "pl_up" /\ pl' = "top" /\ UNCHANGED running
     \/ main' = "undo" /\ running' = FALSE /\ UNCHANGED pl
  /\ UNCHANGED <<threads_up, fds_open, pcm, bufVars, rxVars, g, left, took, retries,
                 sinkVars, genVars>>

StartUndo ==
  /\ main = "undo" /\ rx = "done"
  /\ main' = "destroy" /\ pcm' = FALSE
  /\ UNCHANGED <<running, threads_up, fds_open, bufVars, rxVars, plVars, sinkVars, genVars>>

StartDone ==
  /\ main = "pl_up"
  /\ main' = "up" /\ threads_up' = TRUE
  /\ UNCHANGED <<running, fds_open, pcm, bufVars, rxVars, plVars, sinkVars, genVars>>

\* session_flush, holding the lock: the new generation is visible at once to
\* the player's check, which reads it without the lock.
FlushBegin ==
  /\ main = "up" /\ sgen < MAX_FLUSH
  /\ main' = "flush" /\ sgen' = sgen + 1
  /\ UNCHANGED <<running, threads_up, fds_open, pcm, bufVars, rxVars, plVars, sinkVars,
                 sink_restart_pending>>

\* Faulty variant: the restart is requested only when something is playing.
FlushEndIfStarted ==
  /\ main = "flush"
  /\ main' = "up" /\ sink_restart_pending' = started
  /\ started' = FALSE /\ rx_count' = 0
  /\ UNCHANGED <<running, threads_up, fds_open, pcm, rxVars, plVars, sinkVars, sgen>>

\* session_flush: close the start gate, ask for the restart, release the lock.
FlushEnd ==
  /\ main = "flush"
  /\ main' = "up" /\ sink_restart_pending' = TRUE
  /\ started' = FALSE /\ rx_count' = 0
  /\ UNCHANGED <<running, threads_up, fds_open, pcm, rxVars, plVars, sinkVars, sgen>>

\* The RTSP thread does not hold session->lock.
LockFree == main # "flush"

\* session_stop: raise the flag, join the receiver, join the player.
Stop ==
  /\ main = "up"
  /\ main' = "join_rx" /\ running' = FALSE
  /\ UNCHANGED <<threads_up, fds_open, pcm, bufVars, rxVars, plVars, sinkVars, genVars>>

JoinRx ==
  /\ main = "join_rx" /\ rx = "done"
  /\ main' = "join_pl"
  /\ UNCHANGED <<running, threads_up, fds_open, pcm, bufVars, rxVars, plVars, sinkVars, genVars>>

\* Faulty variant: the player is not joined.
JoinPlSkipped ==
  /\ main = "join_pl"
  /\ main' = "destroy" /\ threads_up' = FALSE
  /\ UNCHANGED <<running, fds_open, pcm, bufVars, rxVars, plVars, sinkVars, genVars>>

JoinPl ==
  /\ main = "join_pl" /\ pl = "done"
  /\ main' = "destroy" /\ threads_up' = FALSE
  /\ UNCHANGED <<running, fds_open, pcm, bufVars, rxVars, plVars, sinkVars, genVars>>

\* session_destroy after its session_stop: sockets, buffer and sink go.
Destroy ==
  /\ main = "destroy"
  /\ main' = "gone" /\ fds_open' = FALSE /\ pcm' = FALSE
  /\ alive' = FALSE /\ pipe' = <<>>
  /\ UNCHANGED <<running, threads_up, bufVars, rxVars, plVars, attempts, heard, genVars>>

Main == \/ StartRx \/ StartPl \/ StartUndo \/ StartDone \/ FlushBegin \/ FlushEnd
        \/ Stop \/ JoinRx \/ JoinPl \/ Destroy

-----------------------------------------------------------------------------
\* Faulty variant: a readable socket is drained before the flag is looked at.
RxLoopDrainFirst ==
  /\ rx = "loop"
  /\ rx' \in IF running THEN {"loop", "drain"} ELSE {"drain", "done"}
  /\ budget' = IF rx' = "drain" THEN BUDGET ELSE 0
  /\ UNCHANGED <<mainVars, bufVars, plVars, sinkVars, genVars>>

\* rx_thread: leave, or poll the sockets and drain the readable ones.
RxLoop ==
  /\ rx = "loop"
  /\ IF running THEN rx' \in {"loop", "drain"} ELSE rx' = "done"
  /\ budget' = IF rx' = "drain" THEN BUDGET ELSE 0
  /\ UNCHANGED <<mainVars, bufVars, plVars, sinkVars, genVars>>

\* rx_drain: one datagram, which rx_insert may or may not accept.
RxRecv ==
  /\ rx = "drain" /\ running /\ budget > 0
  /\ budget' = budget - 1
  /\ rx_count' = rx_count \/ (LockFree /\ rx_count < FILL /\ rx_count' = rx_count + 1)
  /\ UNCHANGED <<mainVars, started, rx, plVars, sinkVars, genVars>>

\* rx_drain returns: stopped, out of budget, or nothing more to read.
RxDrained ==
  /\ rx = "drain"
  /\ rx' = "loop" /\ budget' = 0
  /\ UNCHANGED <<mainVars, bufVars, plVars, sinkVars, genVars>>

-----------------------------------------------------------------------------
\* pl_thread, top of the loop: leave, or take a pending restart.
PlTop ==
  /\ pl = "top"
  /\ pl' = IF ~running THEN "done"
           ELSE IF sink_restart_pending THEN "restart" ELSE "lock"
  /\ sink_restart_pending' = IF running THEN FALSE ELSE sink_restart_pending
  /\ UNCHANGED <<mainVars, bufVars, rxVars, g, left, took, retries, sinkVars, sgen>>

\* spawn_child: whether a child runs afterwards.  Without a command, a pipe or a
\* non-blocking write end none is left.
spawn_child == IF SPAWN_FAILS THEN BOOLEAN ELSE {TRUE}

\* sink_flush: kill the child and start another.
PlRestart ==
  /\ pl = "restart"
  /\ pl' = "lock"
  /\ pipe' = <<>> /\ attempts' = 0
  /\ alive' \in spawn_child
  /\ UNCHANGED <<mainVars, bufVars, rxVars, g, left, took, retries, heard, genVars>>

GateOpen == started \/ rx_count >= FILL

\* Faulty variant: the generation is not sampled again with each pop.
PlPopStaleGen ==
  /\ pl = "lock" /\ LockFree /\ GateOpen
  /\ started' = TRUE
  /\ left' = CHUNK /\ retries' = 0 /\ pl' = "check"
  /\ UNCHANGED <<mainVars, rx_count, rxVars, g, took, sinkVars, genVars>>

\* The locked part of an iteration that yields PCM (data, concealment or the
\* silence of a resync), and the generation sampled with it.
PlPop ==
  /\ pl = "lock" /\ LockFree /\ GateOpen
  /\ started' = TRUE
  /\ g' = sgen /\ left' = CHUNK /\ retries' = 0
  /\ pl' = "check"
  /\ UNCHANGED <<mainVars, rx_count, rxVars, took, sinkVars, genVars>>

\* The gate is shut, the buffer stalls, or the popped packet does not decode.
PlIdle ==
  /\ pl = "lock" /\ LockFree
  /\ started' = GateOpen
  /\ pl' = "top"
  /\ UNCHANGED <<mainVars, rx_count, rxVars, g, left, took, retries, sinkVars, genVars>>

\* session_sink_write_all: all written, flushed away, torn down, or write on.
PlCheck ==
  /\ pl = "check"
  /\ pl' = IF left = 0 \/ sgen # g \/ (threads_up /\ ~running) THEN "top" ELSE "sink"
  /\ took' = FALSE
  /\ UNCHANGED <<mainVars, bufVars, rxVars, g, left, retries, sinkVars, genVars>>

\* session_sink_write_all when sink_write returns: progress clears the backoff
\* count; no progress is retried BACKOFF_MAX times.
WriteReturns(progress) ==
  /\ retries' = IF progress THEN 0 ELSE retries + 1
  /\ pl' = IF retries' > BACKOFF_MAX THEN "top" ELSE "check"

\* sink_write finds the child running.
PlEnter ==
  /\ pl = "sink" /\ alive
  /\ pl' = "write"
  /\ UNCHANGED <<mainVars, bufVars, rxVars, g, left, took, retries, sinkVars, genVars>>

\* sink_write finds the child dead and spawns another, which may fail.
PlRespawn ==
  /\ pl = "sink" /\ ~alive /\ attempts < SPAWN_MAX
  /\ attempts' = attempts + 1
  /\ alive' \in spawn_child
  /\ IF alive' THEN pl' = "write" /\ UNCHANGED retries ELSE WriteReturns(FALSE)
  /\ UNCHANGED <<mainVars, bufVars, rxVars, g, left, took, pipe, heard, genVars>>

\* sink_write finds the child dead and has used up its attempts.
PlGiveUp ==
  /\ pl = "sink" /\ ~alive /\ attempts >= SPAWN_MAX
  /\ WriteReturns(FALSE)
  /\ UNCHANGED <<mainVars, bufVars, rxVars, g, left, took, sinkVars, genVars>>

\* sink_write's write(2) takes some of the PCM; the call ends with the last.
PlWrite ==
  /\ pl = "write" /\ alive
  /\ \E k \in 1 .. left :
       /\ Len(pipe) + k <= PIPE
       /\ pipe' = pipe \o [i \in 1 .. k |-> g]
       /\ left' = left - k
  /\ took' = TRUE
  /\ IF left' = 0 THEN WriteReturns(TRUE) ELSE UNCHANGED <<pl, retries>>
  /\ UNCHANGED <<mainVars, bufVars, rxVars, g, alive, attempts, heard, genVars>>

\* sink_write returns early: the pipe stayed too full for WRITE_WAIT_MS, or
\* the child has died.
PlCutShort ==
  /\ pl = "write"
  /\ ~alive \/ Len(pipe) + left > PIPE
  /\ WriteReturns(took)
  /\ UNCHANGED <<mainVars, bufVars, rxVars, g, left, took, sinkVars, genVars>>

-----------------------------------------------------------------------------
\* The aplay child plays what it reads, and may die with what it holds.
ChildPlays ==
  /\ alive /\ pipe # <<>>
  /\ heard' = Head(pipe) /\ pipe' = Tail(pipe)
  /\ UNCHANGED <<mainVars, bufVars, rxVars, plVars, alive, attempts, genVars>>

ChildDies ==
  /\ alive
  /\ alive' = FALSE /\ pipe' = <<>>
  /\ UNCHANGED <<mainVars, bufVars, rxVars, plVars, attempts, heard, genVars>>

Rx == RxLoop \/ RxRecv \/ RxDrained
Pl == \/ PlTop \/ PlRestart \/ PlPop \/ PlIdle \/ PlCheck
      \/ PlEnter \/ PlRespawn \/ PlGiveUp \/ PlWrite \/ PlCutShort
Gone == main = "gone" /\ UNCHANGED sessionVars

SessionNext == Main \/ Rx \/ Pl \/ ChildPlays \/ ChildDies \/ Gone

SessionSpec == SessionInit /\ [][SessionNext]_sessionVars

\* Every wait of the two threads is timed (poll, nanosleep, usleep), and the
\* RTSP thread goes on once a join returns.  It need not ever stop.
ThreadsRun ==
  /\ WF_sessionVars(Rx) /\ WF_sessionVars(Pl)
  /\ WF_sessionVars(StartRx \/ StartPl \/ StartUndo \/ StartDone \/ FlushEnd
             \/ JoinRx \/ JoinPl \/ Destroy)

\* A sender that keeps sending packets that are accepted, popped and decoded,
\* and a child that plays what it is given.
StreamFlows ==
  /\ SF_sessionVars(RxLoop /\ rx' = "drain")
  /\ SF_sessionVars(RxRecv /\ (rx_count < FILL => rx_count' > rx_count))
  /\ SF_sessionVars(PlPop)
  /\ WF_sessionVars(ChildPlays)

SessionFairSpec == SessionSpec /\ ThreadsRun

-----------------------------------------------------------------------------
FlagsOK ==
  /\ running \in BOOLEAN /\ threads_up \in BOOLEAN /\ started \in BOOLEAN
  /\ fds_open \in BOOLEAN /\ pcm \in BOOLEAN /\ took \in BOOLEAN
  /\ alive \in BOOLEAN /\ sink_restart_pending \in BOOLEAN

\* The types of the session's flags, thread positions, pipe and counters.
SessionTypeOK ==
  /\ FlagsOK
  /\ main \in {"create", "rx_up", "pl_up", "undo", "up", "flush", "join_rx", "join_pl",
               "destroy", "gone"}
  /\ rx \in {"off", "loop", "drain", "done"} /\ budget \in 0 .. BUDGET
  /\ pl \in {"off", "top", "restart", "lock", "check", "sink", "write", "done"}
  /\ g \in Nat /\ left \in 0 .. CHUNK /\ retries \in 0 .. BACKOFF_MAX + 1
  /\ rx_count \in 0 .. FILL /\ pipe \in Seq(Nat) /\ Len(pipe) <= PIPE
  /\ attempts \in 0 .. SPAWN_MAX /\ heard \in Nat /\ sgen \in Nat

\* The FLUSH barrier: once session_flush is through, PCM of an old epoch is in
\* the child's pipe only while the restart that discards it is still to come,
\* whatever the player was doing when session_flush ran.
Barrier ==
  \A i \in 1 .. Len(pipe) :
    pipe[i] = sgen \/ sink_restart_pending \/ pl = "restart" \/ main = "flush"

\* session_destroy frees nothing that a thread may still use: the receiver has
\* its sockets, the player its buffer, for as long as either runs, also when
\* session_start fails half-way.
NoUseAfterDestroy ==
  /\ rx \in {"loop", "drain"} => fds_open
  /\ pl \notin {"off", "done"} => fds_open /\ pcm

\* The inductive strengthening of the three invariants above.  PCM popped in an
\* old epoch is written only while the restart is pending; a thread runs only
\* where the RTSP thread is between creating and joining it; the retry count is
\* within its bound wherever it may still be incremented.
IInv ==
  /\ SessionTypeOK /\ Barrier
  /\ pl \in {"check", "sink", "write"} =>
       (g = sgen \/ sink_restart_pending \/ main = "flush") /\ retries <= BACKOFF_MAX
  /\ rx \in {"loop", "drain"} => main \in {"rx_up", "pl_up", "undo", "up", "flush", "join_rx"}
  /\ pl \notin {"off", "done"} => main \in {"pl_up", "up", "flush", "join_rx", "join_pl"}
  /\ main # "gone" => fds_open
  /\ main \in {"rx_up", "pl_up", "undo", "up", "flush", "join_rx", "join_pl"} => pcm

\* session_stop and the failure path of session_start end: a flooding peer does
\* not keep rx_drain, nor a child that reads nothing session_sink_write_all,
\* from seeing the flag.
StopCompletes == main \in {"join_rx", "undo"} ~> main = "gone"

\* If the stream flows, the new epoch is heard after a FLUSH, unless another
\* FLUSH or a stop comes first or the child has to be respawned SPAWN_MAX times
\* since the restart.
FreshFlows ==
  StreamFlows =>
    \A k \in 1 .. MAX_FLUSH :
      (sgen = k /\ sink_restart_pending) ~>
         \/ heard = k \/ sgen # k \/ main \notin {"up", "flush"}
         \/ attempts >= SPAWN_MAX /\ ~sink_restart_pending /\ pl # "restart"

\* No PCM of an old epoch enters the pipe once session_flush has returned.  The
\* code does not promise it: a FLUSH may fall between PlCheck and PlWrite.
OnlyFreshAfterBarrier == [][Len(pipe') > Len(pipe) => g = sgen \/ main = "flush"]_sessionVars
=============================================================================

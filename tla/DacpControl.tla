----------------------------- MODULE DacpControl ----------------------------
(***************************************************************************)
(* dacp_control_thread and its life in main.c, composed with the commands  *)
(* of module Dacp: the supervisor's tokens queue on control.sock, the      *)
(* thread takes them one at a time and runs dacp_send_command for each     *)
(* that is no repeat, and main joins it when run_loop has ended.           *)
(***************************************************************************)
EXTENDS Dacp, Sequences

CONSTANTS
  Ctl,   \* the control thread, one of the Senders
  QLEN   \* datagrams the socket holds (net.unix.max_dgram_qlen)

ASSUME DacpControlAssumption == Ctl \in Senders /\ QLEN \in Nat

VARIABLES
  main,    \* main(): loop (run_loop), join (pthread_join), down
  ctl,     \* the thread: start, check, poll, call, busy, exited
  queue,   \* per queued token, the generation it was sent in
  token    \* the same of the token in hand

ctlVars == <<main, ctl, queue, token>>
allVars == <<vars, ctlVars>>

ControlInit == Init /\ main = "loop" /\ ctl = "start" /\ queue = <<>> /\ token = 0

\* The socket is unlinked and bound; if that fails there is no thread.
CtlStarts ==
  /\ ctl = "start"
  /\ ctl' \in {"check", "exited"}
  /\ UNCHANGED <<vars, main, queue, token>>

\* relay_cmd of the supervisor: a datagram, if the socket is there.
Relay ==
  /\ ctl \notin {"start", "exited"} /\ Len(queue) < QLEN
  /\ queue' = Append(queue, st.generation)
  /\ UNCHANGED <<vars, main, ctl, token>>

CtlChecks ==
  /\ ctl = "check"
  /\ ctl' = IF main = "loop" THEN "poll" ELSE "exited"
  /\ queue' = IF main = "loop" THEN queue ELSE <<>>
  /\ UNCHANGED <<vars, main, token>>

\* poll returns after 250 ms without a token.

\* Faulty variant: poll waits until there is a token.
NoTimeout == FALSE

PollTimeout == queue = <<>>

CtlTimesOut ==
  /\ ctl = "poll" /\ PollTimeout
  /\ ctl' = "check"
  /\ UNCHANGED <<vars, main, queue, token>>

\* A token that is unknown or debounced is dropped.
CtlReceives ==
  /\ ctl = "poll" /\ queue # <<>>
  /\ queue' = Tail(queue) /\ token' = Head(queue)
  /\ ctl' \in {"check", "call"}
  /\ UNCHANGED <<vars, main>>

\* dacp_send_command, from the call to its return.
CtlSends ==
  /\ \/ ctl = "call" /\ (Snapshot(Ctl) \/ Ignore(Ctl))
     \/ ctl = "busy" /\ (Resolve(Ctl) \/ Publish(Ctl) \/ Guard(Ctl) \/ Send(Ctl))
  /\ ctl' = IF cmd'[Ctl].pc = "idle" THEN "check" ELSE "busy"
  /\ UNCHANGED <<main, queue, token>>

\* The self-probe runs on a detached thread that nobody joins.
ProbeSends ==
  /\ \E t \in Senders \ {Ctl} :
       Snapshot(t) \/ Ignore(t) \/ Resolve(t) \/ Publish(t) \/ Guard(t) \/ Send(t)
  /\ main # "down" /\ UNCHANGED ctlVars

\* The RTSP thread, while run_loop runs.
Serves ==
  /\ main = "loop"
  /\ \/ \E p \in Peers : Accept(p)
     \/ client # None /\ Teardown
     \/ Announce \/ CaptureInvalid
     \/ \E id \in Ids, active_remote \in Tokens : Capture(id, active_remote)
  /\ UNCHANGED ctlVars

\* run_loop has ended: ctl_stop is set and the thread is joined, if there is one.
Stop ==
  /\ main = "loop" /\ st.generation < MAX_GEN
  /\ main' = "join" /\ UNCHANGED <<vars, ctl, queue, token>>

Joined ==
  /\ main = "join" /\ ctl = "exited"
  /\ main' = "down" /\ Teardown
  /\ UNCHANGED <<ctl, queue, token>>

Thread == CtlStarts \/ CtlChecks \/ CtlTimesOut \/ CtlReceives \/ CtlSends

ControlNext == Thread \/ ProbeSends \/ Serves \/ Relay \/ Stop \/ Joined
\* Threads run; resolving, connecting and reading have their own deadlines.
ControlSpec ==
  /\ ControlInit /\ [][ControlNext]_allVars
  /\ WF_allVars(Thread) /\ WF_allVars(Joined)

-----------------------------------------------------------------------------
\* main's pthread_join returns, whatever the thread was doing when run_loop
\* ended and whatever is still queued: the stop flag wakes nobody, and only the
\* poll's timeout lets an idle thread see it.
JoinReturns == main = "join" ~> main = "down"

\* A key acts on the session it was pressed in.  It need not: a token that
\* waits behind a slow command is sent to whoever is connected by then.
KeyOfSession ==
  cmd[Ctl].pc = "send" /\ cmd[Ctl].snap.generation = st.generation =>
    token = st.generation
=============================================================================

----------------------------- MODULE RtspServer -----------------------------
(***************************************************************************)
(* The RTSP thread of raopd: the poll loop of main.c (one listening socket *)
(* and one client), the request state machine of rtsp.c, and the resources *)
(* they hand around: the RTP sockets, the play session, the wake lock and  *)
(* the playing flag.  Bytes are module RtspFraming's subject: here a       *)
(* readable client yields whole requests, an unframeable one, or an end.   *)
(*                                                                         *)
(* What a sender negotiates (SDP, ports, RTP-Info) is the number of the    *)
(* connection that sent it; 0 stands for absent.                           *)
(***************************************************************************)
EXTENDS Integers, FiniteSets

CONSTANTS
  MAX_CONN,    \* bound: connections accepted
  MAX_SOCKS,   \* bound: times rtp_open is called
  DEADLINE,    \* handshake_ticks, in poll ticks; 0 disables the deadline
  FG,          \* g_fg: raopd -f, as airplay-on starts it
  VOLUMES,     \* volume levels a sender may ask for
  DEFAULT_VOL, UNITY, NONE

ASSUME RtspServerAssumption ==
  /\ MAX_CONN \in Nat /\ MAX_SOCKS \in Nat /\ DEADLINE \in Nat
  /\ FG \in BOOLEAN /\ {DEFAULT_VOL, UNITY} \subseteq VOLUMES /\ NONE \notin VOLUMES

VARIABLES
  pc,        \* check, enter (about to poll), poll, woken, client, drain, reply, done
  ready,     \* what poll reported
  g_stop,
  client,    \* connection that holds the client slot, 0 when idle
  conns,     \* connections accepted so far
  age,       \* ticks since accept
  rtsp,      \* rtsp_session_t
  rtp_bound, \* socks open, not yet owned by a session
  socks,     \* the socket triple the server last opened
  open,      \* the sockets that are open, with the number of their triple
  bound,     \* number of rtp_open calls
  sess,      \* the active player, or NoSess
  gain,      \* g_gain_q8 of the sink
  wakelock, playing

netVars  == <<rtp_bound, socks, open, bound>>
playVars == <<sess, gain, wakelock, playing>>
loopVars == <<pc, ready, g_stop>>
connVars == <<client, conns, age>>
vars == <<loopVars, connVars, rtsp, netVars, playVars>>

NoSess == [socks |-> 0, sdp |-> 0, port |-> 0, rtp |-> 0]

rtsp_session_init ==
  [state |-> "IDLE", sdp |-> 0, sender_port |-> 0, server_port |-> 0,
   rtp |-> 0, volume |-> NONE, action |-> "NONE"]

Init ==
  /\ pc = "check" /\ ready = {} /\ g_stop = FALSE
  /\ client = 0 /\ conns = 0 /\ age = 0
  /\ rtsp = rtsp_session_init
  /\ rtp_bound = FALSE /\ socks = 0 /\ open = {} /\ bound = 0
  /\ sess = NoSess /\ gain = UNITY /\ wakelock = FALSE /\ playing = FALSE

Handshaking == client # 0 /\ sess = NoSess

-----------------------------------------------------------------------------
\* rtsp_handle, one operator per method: the session after the request.  A
\* request refused with 4xx or 501 only clears the action.
Refused(s) == [s EXCEPT !.action = "NONE"]

OnAnnounce(s, body_ok) ==
  IF s.state = "IDLE" /\ body_ok
  THEN [s EXCEPT !.state = "ANNOUNCED", !.sdp = client, !.action = "NONE"]
  ELSE Refused(s)

OnSetup(s, transport) ==
  IF s.state = "ANNOUNCED" /\ transport
  THEN [s EXCEPT !.state = "SETUP", !.sender_port = client, !.action = "BIND_RTP"]
  ELSE Refused(s)

OnRecord(s, info) ==
  IF s.state = "SETUP"
  THEN [s EXCEPT !.state = "PLAYING", !.action = "START_PLAY",
                 !.rtp = IF info THEN client ELSE @]
  ELSE Refused(s)

OnFlush(s, info) ==
  IF s.state = "PLAYING"
  THEN [s EXCEPT !.action = "FLUSH", !.rtp = IF info THEN client ELSE @]
  ELSE Refused(s)

\* A body without a usable "volume:" line is answered 200 and ignored.
OnSetParameter(s, vol) ==
  IF vol = NONE THEN Refused(s) ELSE [s EXCEPT !.volume = vol, !.action = "SET_VOLUME"]

OnTeardown(s) ==
  [s EXCEPT !.action = IF s.state = "IDLE" THEN "NONE" ELSE "TEARDOWN",
            !.state = "IDLE", !.sdp = 0, !.volume = NONE, !.sender_port = 0, !.rtp = 0]

\* OPTIONS, GET_PARAMETER and unknown methods change nothing.
Handled(s) ==
  {Refused(s), OnTeardown(s)}
    \cup {OnAnnounce(s, b) : b \in BOOLEAN} \cup {OnRecord(s, b) : b \in BOOLEAN}
    \cup {OnFlush(s, b) : b \in BOOLEAN} \cup {OnSetParameter(s, v) : v \in VOLUMES \cup {NONE}}

-----------------------------------------------------------------------------
\* rtp_open and rtp_close.  When one of rtp_open's calls fails, the sockets it
\* has opened so far are closed again.
Sockets == {"audio", "control", "timing"}
Triple(n) == {n} \X Sockets

rtp_close(fds, n) == fds \ Triple(n)

rtp_open_fails(n, opened) == rtp_close(open \cup ({n} \X opened), n)

\* Faulty variant: the protocol state survives the client.
ProtocolKept == rtsp

AfterClient == rtsp_session_init

\* A session owns the sockets it was given; without one the server does.
teardown_client ==
  /\ open' = IF sess # NoSess THEN rtp_close(open, sess.socks)
             ELSE IF rtp_bound THEN rtp_close(open, socks) ELSE open
  /\ wakelock' = IF sess # NoSess THEN FALSE ELSE wakelock
  /\ sess' = NoSess /\ playing' = FALSE
  /\ rtp_bound' = FALSE /\ client' = 0 /\ rtsp' = AfterClient
  /\ UNCHANGED <<socks, bound, gain, conns, age>>

-----------------------------------------------------------------------------
\* handle_msg.  rtsp_handle produces the new protocol state and the reply.
Continue == pc' = "drain" /\ UNCHANGED <<ready, g_stop>>
Return   == pc' = "check" /\ UNCHANGED <<ready, g_stop>>
Answer   == pc' = "reply" /\ UNCHANGED <<ready, g_stop>>

\* Every method but SETUP.
HandleMsg ==
  /\ pc = "drain"
  /\ rtsp' \in Handled(rtsp)
  /\ Answer /\ UNCHANGED <<connVars, netVars, playVars>>

\* SETUP binds the sockets before rtsp_handle builds the reply, whatever the
\* state: rtp_open may fail, and then the reply carries port 0.

\* Faulty variant: every SETUP opens sockets, whoever owns the current ones.
AlwaysBinds == TRUE

MayBind == ~rtp_bound /\ sess = NoSess

SetupBinds ==
  /\ pc = "drain" /\ MayBind /\ bound < MAX_SOCKS
  /\ bound' = bound + 1
  /\ \E transport \in BOOLEAN :
       \/ /\ rtp_bound' = TRUE /\ socks' = bound' /\ open' = open \cup Triple(bound')
          /\ rtsp' = OnSetup([rtsp EXCEPT !.server_port = bound'], transport)
       \/ /\ \E opened \in SUBSET Sockets : open' = rtp_open_fails(bound', opened)
          /\ UNCHANGED <<rtp_bound, socks>>
          /\ rtsp' = OnSetup(rtsp, transport)
  /\ Answer /\ UNCHANGED <<connVars, playVars>>

SetupBound ==
  /\ pc = "drain" /\ ~MayBind
  /\ \E transport \in BOOLEAN : rtsp' = OnSetup(rtsp, transport)
  /\ Answer /\ UNCHANGED <<connVars, netVars, playVars>>

-----------------------------------------------------------------------------
\* The rest of handle_msg: write_all blocks while the client does not read.  If
\* it fails, the client is dropped before the action is dispatched.
ReplyFails ==
  /\ pc = "reply"
  /\ teardown_client /\ Return

\* ACT_START_PLAY without sockets: the state stays PLAYING, without a session.
StartUnbound ==
  /\ pc = "reply" /\ rtsp.action = "START_PLAY" /\ ~rtp_bound
  /\ Continue /\ UNCHANGED <<connVars, rtsp, netVars, playVars>>

\* session_create or session_start fails: the sockets are closed, by the
\* server or by session_destroy.
StartFails ==
  /\ pc = "reply" /\ rtsp.action = "START_PLAY" /\ rtp_bound
  /\ open' = rtp_close(open, socks) /\ rtp_bound' = FALSE
  /\ Continue /\ UNCHANGED <<connVars, rtsp, socks, bound, playVars>>

\* The session takes the sockets.  sink_open ignores the volume it is given,
\* so the gain stays what it was.
StartSucceeds ==
  /\ pc = "reply" /\ rtsp.action = "START_PLAY" /\ rtp_bound
  /\ sess' = [socks |-> socks, sdp |-> rtsp.sdp, port |-> rtsp.sender_port, rtp |-> rtsp.rtp]
  /\ rtp_bound' = FALSE /\ wakelock' = TRUE /\ playing' = TRUE
  /\ Continue /\ UNCHANGED <<connVars, rtsp, socks, open, bound, gain>>

FlushSession ==
  /\ pc = "reply" /\ rtsp.action = "FLUSH"
  /\ sess' = IF sess = NoSess THEN sess ELSE [sess EXCEPT !.rtp = rtsp.rtp]
  /\ Continue /\ UNCHANGED <<connVars, rtsp, netVars, gain, wakelock, playing>>

SetVolume ==
  /\ pc = "reply" /\ rtsp.action = "SET_VOLUME"
  /\ gain' = IF sess = NoSess THEN gain ELSE rtsp.volume
  /\ Continue /\ UNCHANGED <<connVars, rtsp, netVars, sess, wakelock, playing>>

TeardownRequested ==
  /\ pc = "reply" /\ rtsp.action = "TEARDOWN"
  /\ teardown_client /\ Return

NothingToDo ==
  /\ pc = "reply" /\ rtsp.action \in {"NONE", "BIND_RTP"}
  /\ Continue /\ UNCHANGED <<connVars, rtsp, netVars, playVars>>

\* drain runs out of complete requests.
DrainEnds ==
  /\ pc = "drain"
  /\ Return /\ UNCHANGED <<connVars, rtsp, netVars, playVars>>

\* A malformed request, a closed connection or a receive error.
ClientGone ==
  /\ pc \in {"client", "drain"}
  /\ teardown_client /\ Return

ClientReads ==
  /\ pc = "client"
  /\ Continue /\ UNCHANGED <<connVars, rtsp, netVars, playVars>>

-----------------------------------------------------------------------------
\* run_loop.  The loop condition and the call of poll are separate steps: a
\* signal between them is not seen by the poll that follows.
LoopCheck ==
  /\ pc = "check" /\ ~g_stop
  /\ pc' = "enter"
  /\ UNCHANGED <<ready, g_stop, connVars, rtsp, netVars, playVars>>

LoopEnter ==
  /\ pc = "enter"
  /\ pc' = "poll"
  /\ UNCHANGED <<ready, g_stop, connVars, rtsp, netVars, playVars>>

\* poll times out after a second if it was given a timeout, as it is in the
\* foreground and while a client shakes hands.

\* Faulty variant: poll has a timeout only while a client shakes hands.
TimeoutIfHandshaking ==
  /\ pc = "poll" /\ Handshaking
  /\ ready' = {} /\ pc' = "woken"
  /\ UNCHANGED <<g_stop, connVars, rtsp, netVars, playVars>>

PollTimesOut ==
  /\ pc = "poll" /\ (FG \/ Handshaking)
  /\ ready' = {} /\ pc' = "woken"
  /\ UNCHANGED <<g_stop, connVars, rtsp, netVars, playVars>>

PollReady ==
  /\ pc = "poll"
  /\ ready' \in {{"listen"}, {"client"}, {"listen", "client"}}
  /\ "client" \in ready' => client # 0
  /\ pc' = "woken"
  /\ UNCHANGED <<g_stop, connVars, rtsp, netVars, playVars>>

\* Faulty variant: the deadline is looked at only when poll timed out.
ExpiredIfQuiet == Handshaking /\ DEADLINE > 0 /\ age > DEADLINE /\ ready = {}

Expired == Handshaking /\ DEADLINE > 0 /\ age > DEADLINE

DropExpired ==
  /\ pc = "woken" /\ Expired
  /\ teardown_client /\ Return

\* on_listen_readable: a second client is closed at once, and accept may fail.
Accept ==
  \/ /\ client = 0 /\ conns < MAX_CONN
     /\ client' = conns + 1 /\ conns' = conns + 1 /\ age' = 0
  \/ UNCHANGED connVars

Dispatch ==
  /\ pc = "woken" /\ ~Expired
  /\ IF "listen" \in ready THEN Accept ELSE UNCHANGED connVars
  /\ pc' = IF "client" \in ready THEN "client" ELSE "check"
  /\ UNCHANGED <<ready, g_stop, rtsp, netVars, playVars>>

\* Time passes; past the deadline it no longer matters how much.
Clock ==
  /\ client # 0 /\ age <= DEADLINE
  /\ age' = age + 1
  /\ UNCHANGED <<loopVars, client, conns, rtsp, netVars, playVars>>

\* on_term; a poll that is waiting returns with EINTR.
Term ==
  /\ ~g_stop /\ pc # "done"
  /\ g_stop' = TRUE
  /\ pc' = IF pc = "poll" THEN "check" ELSE pc
  /\ UNCHANGED <<ready, connVars, rtsp, netVars, playVars>>

\* main after run_loop.
Shutdown ==
  /\ pc = "check" /\ g_stop
  /\ teardown_client
  /\ pc' = "done" /\ UNCHANGED <<ready, g_stop>>

Stopped == pc = "done" /\ UNCHANGED vars

Requests == HandleMsg \/ SetupBinds \/ SetupBound
Replied ==
  \/ ReplyFails \/ StartUnbound \/ StartFails \/ StartSucceeds
  \/ FlushSession \/ SetVolume \/ TeardownRequested \/ NothingToDo
Client == DrainEnds \/ ClientGone \/ ClientReads
Loop == LoopCheck \/ LoopEnter \/ PollTimesOut \/ DropExpired \/ Dispatch \/ Shutdown

Next == Requests \/ Replied \/ Client \/ Loop \/ PollReady \/ Clock \/ Term \/ Stopped
Spec == Init /\ [][Next]_vars

\* The loop's thread runs and time passes.  A drain ends because the buffer
\* holds finitely many requests.  No request, connection or signal is promised,
\* nor that the client ever reads a reply.
FairSpec ==
  /\ Spec /\ WF_vars(Loop) /\ WF_vars(Clock)
  /\ SF_vars(DrainEnds \/ ClientGone) /\ WF_vars(ClientReads \/ ClientGone)

-----------------------------------------------------------------------------
States == {"IDLE", "ANNOUNCED", "SETUP", "PLAYING"}
Actions == {"NONE", "BIND_RTP", "START_PLAY", "FLUSH", "SET_VOLUME", "TEARDOWN"}

\* The type of the server's state; a session or bound sockets exist only while
\* a client holds the slot.
TypeOK ==
  /\ pc \in {"check", "enter", "poll", "woken", "client", "drain", "reply", "done"}
  /\ ready \subseteq {"listen", "client"} /\ g_stop \in BOOLEAN
  /\ client \in 0..MAX_CONN /\ conns \in client..MAX_CONN /\ age \in 0..(DEADLINE + 1)
  /\ rtsp.state \in States /\ rtsp.action \in Actions /\ rtsp.volume \in VOLUMES \cup {NONE}
  /\ {rtsp.sdp, rtsp.sender_port, rtsp.rtp} \subseteq 0..MAX_CONN
  /\ rtsp.server_port \in 0..MAX_SOCKS
  /\ rtp_bound \in BOOLEAN /\ bound \in 0..MAX_SOCKS /\ socks \in 0..bound
  /\ open \subseteq (1..bound) \X Sockets
  /\ DOMAIN sess = DOMAIN NoSess /\ gain \in VOLUMES
  /\ wakelock \in BOOLEAN /\ playing \in BOOLEAN
  /\ pc \in {"client", "drain", "reply"} => client # 0
  /\ client = 0 => ~rtp_bound /\ sess = NoSess

\* The open RTP sockets are exactly those of the session, or, before a session
\* took them over, those the server bound: whatever order SETUP, RECORD, their
\* failures, TEARDOWN and disconnects come in, none leaks (a K3 has few) and
\* none is closed under a session.
SocketsOwned ==
  open = IF sess # NoSess THEN Triple(sess.socks) ELSE IF rtp_bound THEN Triple(socks) ELSE {}

\* Nothing of an earlier client is used for a later one: SDP, sender ports and
\* RTP-Info, in the protocol state and in the session, are the current
\* client's own.
NothingInherited ==
  {rtsp.sdp, rtsp.sender_port, rtsp.rtp, sess.sdp, sess.port, sess.rtp} \subseteq {0, client}

\* Every reply is written in the end, or its client is found gone: write_all
\* does not stay blocked on a client that neither reads nor closes.
RepliesEnd == []<>(pc # "reply")

\* A client that has no session yet gets one or loses the client slot, however
\* it mixes silence and requests, as long as it takes the replies.
HandshakeEnds ==
  RepliesEnd =>
    \A c \in 1..MAX_CONN : (client = c /\ Handshaking) ~> (client # c \/ ~Handshaking)

\* After SIGTERM the loop ends and the client is torn down, in the foreground
\* mode airplay-on uses: its poll always has a timeout, so a signal that falls
\* between the loop's check and the poll is noticed a second later.  A signal
\* does not end a write that is blocked (write_all retries on EINTR).
StopsOnTerm == RepliesEnd => (g_stop ~> (pc = "done"))

\* The stream plays at the volume the sender asked for, or at the default:
\* RECORD passes that volume to session_create and on to sink_open, which
\* ignores it, so this does not hold.
VolumeApplied ==
  sess # NoSess => gain = IF rtsp.volume # NONE THEN rtsp.volume ELSE DEFAULT_VOL
=============================================================================

---------------------------- MODULE RaopdProofs -----------------------------
(***************************************************************************)
(* Proofs about raopd: the RTSP server (module RtspServer), for any number *)
(* of connections, sockets and volumes and any deadline; the threads of a  *)
(* session (module Session), for all sizes; and the display of what the    *)
(* server publishes (module NowPlaying), for any titles and covers.        *)
(* The three share no variable.                                            *)
(***************************************************************************)
EXTENDS RtspServer, Session, NowPlaying, TLAPS

Rtsp ==
  [state : States, sdp : Nat, sender_port : Nat, server_port : Nat, rtp : Nat,
   volume : VOLUMES \cup {NONE}, action : Actions]

ServerTypes ==
  /\ rtsp \in Rtsp /\ sess \in [socks : Nat, sdp : Nat, port : Nat, rtp : Nat]
  /\ client \in Nat /\ conns \in Nat /\ bound \in Nat /\ socks \in Nat
  /\ open \subseteq Nat \X Sockets

\* An idle client slot leaves nothing behind, and the numbers of bound triples
\* are not given out again.
ServerInv ==
  /\ ServerTypes
  /\ client = 0 => ~rtp_bound /\ sess = NoSess
  /\ pc \in {"client", "drain", "reply"} => client # 0
  /\ pc = "woken" /\ "client" \in ready => client # 0
  /\ rtp_bound => socks # 0 /\ socks <= bound /\ sess = NoSess
  /\ sess # NoSess => sess.socks # 0 /\ sess.socks <= bound
  /\ SocketsOwned
  /\ NothingInherited

\* A session that rtsp_session_init has set up.
LEMMA InitialRtsp ==
  /\ rtsp_session_init \in Rtsp
  /\ NoSess \in [socks : Nat, sdp : Nat, port : Nat, rtp : Nat]
  BY Zenon DEF rtsp_session_init, Rtsp, NoSess, States, Actions

\* A server that has just started.
LEMMA ServerInitInv == Init => ServerInv
  BY InitialRtsp DEF Init, ServerInv, ServerTypes, SocketsOwned, NothingInherited,
     rtsp_session_init, NoSess

\* Whatever rtsp_handle does, it takes over nothing but the client's own.
LEMMA HandledInv ==
  ASSUME NEW s \in Rtsp, client \in Nat, {s.sdp, s.sender_port, s.rtp} \subseteq {0, client},
         NEW r \in Handled(s) \cup {OnSetup(s, b) : b \in BOOLEAN}
  PROVE  r \in Rtsp /\ {r.sdp, r.sender_port, r.rtp} \subseteq {0, client}
<1> DEFINE Ok(x) == x \in Rtsp /\ {x.sdp, x.sender_port, x.rtp} \subseteq {0, client}
<1>1. Ok(Refused(s)) /\ Ok(OnTeardown(s))
  BY Zenon DEF Refused, OnTeardown, Rtsp, States, Actions
<1>2. ASSUME NEW b \in BOOLEAN PROVE Ok(OnAnnounce(s, b))
  <2>1. CASE s.state = "IDLE" /\ b
    BY <2>1, Zenon DEF OnAnnounce, Rtsp, States, Actions
  <2>2. CASE ~(s.state = "IDLE" /\ b)
    BY <1>1, <2>2, Zenon DEF OnAnnounce
  <2> QED  BY <2>1, <2>2, Zenon
<1>3. ASSUME NEW b \in BOOLEAN PROVE Ok(OnSetup(s, b))
  <2>1. CASE s.state = "ANNOUNCED" /\ b
    BY <2>1, Zenon DEF OnSetup, Rtsp, States, Actions
  <2>2. CASE ~(s.state = "ANNOUNCED" /\ b)
    BY <1>1, <2>2, Zenon DEF OnSetup
  <2> QED  BY <2>1, <2>2, Zenon
<1>4. ASSUME NEW b \in BOOLEAN PROVE Ok(OnRecord(s, b))
  <2>1. CASE s.state = "SETUP"
    BY <2>1, Zenon DEF OnRecord, Rtsp, States, Actions
  <2>2. CASE s.state # "SETUP"
    BY <1>1, <2>2, Zenon DEF OnRecord
  <2> QED  BY <2>1, <2>2, Zenon
<1>5. ASSUME NEW b \in BOOLEAN PROVE Ok(OnFlush(s, b))
  <2>1. CASE s.state = "PLAYING"
    BY <2>1, Zenon DEF OnFlush, Rtsp, States, Actions
  <2>2. CASE ~(s.state = "PLAYING")
    BY <1>1, <2>2, Zenon DEF OnFlush
  <2> QED  BY <2>1, <2>2, Zenon
<1>6. \A v \in VOLUMES \cup {NONE} : Ok(OnSetParameter(s, v))
  BY <1>1, Zenon DEF OnSetParameter, Rtsp, States, Actions
<1> HIDE DEF Ok
<1>7. Ok(r)
  BY <1>1, <1>2, <1>3, <1>4, <1>5, <1>6, Zenon DEF Handled
<1> QED  BY <1>7, Zenon DEF Ok

\* teardown_client returns everything the client held.
LEMMA TeardownInv ==
  ASSUME ServerInv, teardown_client, pc' \in {"check", "done"}
  PROVE  ServerInv'
<1>1. rtsp' = rtsp_session_init /\ sess' = NoSess /\ client' = 0 /\ rtp_bound' = FALSE
      /\ UNCHANGED <<socks, bound, conns>>
  BY Zenon DEF teardown_client, AfterClient
<1>2. open' = {}
  BY Zenon DEF teardown_client, ServerInv, SocketsOwned, rtp_close, Triple
<1>3. ServerTypes' /\ NothingInherited'
  BY <1>1, <1>2, InitialRtsp, Zenon DEF ServerInv, ServerTypes, NothingInherited, rtsp_session_init, NoSess
<1> QED  BY <1>1, <1>2, <1>3, Zenon DEF ServerInv, SocketsOwned

\* A request changes the protocol state; SETUP also binds sockets.
LEMMA RequestInv ==
  ASSUME ServerInv, Requests
  PROVE  ServerInv'
<1> USE DEF ServerInv, ServerTypes
<1>1. {rtsp.sdp, rtsp.sender_port, rtsp.rtp} \subseteq {0, client}
  BY Zenon DEF NothingInherited
<1>2. client # 0 /\ client' = client /\ pc' = "reply" /\ UNCHANGED <<conns, sess>>
  <2>1. pc = "drain" /\ UNCHANGED <<connVars, playVars>> /\ pc' = "reply"
    BY Zenon DEF Requests, HandleMsg, SetupBinds, SetupBound, Answer
  <2> QED  BY <2>1, Zenon DEF connVars, playVars
<1>3. ASSUME NEW s \in Rtsp, {s.sdp, s.sender_port, s.rtp} \subseteq {0, client},
             rtsp' \in Handled(s) \cup {OnSetup(s, b) : b \in BOOLEAN}
      PROVE  rtsp' \in Rtsp /\ NothingInherited'
  <2>1. rtsp' \in Rtsp /\ {rtsp'.sdp, rtsp'.sender_port, rtsp'.rtp} \subseteq {0, client}
    BY <1>3, HandledInv, Zenon
  <2> QED  BY <1>2, <2>1, Zenon DEF NothingInherited
<1>4. CASE HandleMsg \/ SetupBound
  <2>1. rtsp' \in Rtsp /\ NothingInherited'
    BY <1>1, <1>3, <1>4, Zenon DEF HandleMsg, SetupBound
  <2>2. UNCHANGED <<rtp_bound, socks, open, bound>>
    BY <1>4, Zenon DEF HandleMsg, SetupBound, netVars
  <2> QED  BY <1>2, <2>1, <2>2, Zenon DEF SocketsOwned
<1>5. CASE SetupBinds
  <2>1. bound' = bound + 1 /\ ~rtp_bound /\ sess = NoSess /\ open = {}
    BY <1>5, Zenon DEF SetupBinds, MayBind, SocketsOwned
  <2>2. CASE /\ rtp_bound' = TRUE /\ socks' = bound' /\ open' = open \cup Triple(bound')
             /\ \E b \in BOOLEAN : rtsp' = OnSetup([rtsp EXCEPT !.server_port = bound'], b)
    <3> DEFINE s == [rtsp EXCEPT !.server_port = bound']
    <3>1. s \in Rtsp /\ {s.sdp, s.sender_port, s.rtp} \subseteq {0, client}
      BY <1>1, <2>1 DEF Rtsp
    <3>2. rtsp' \in {OnSetup(s, b) : b \in BOOLEAN}
      BY <2>2, Zenon
    <3> HIDE DEF s
    <3>3. rtsp' \in Rtsp /\ NothingInherited'
      BY <1>3, <3>1, <3>2, Zenon
    <3> QED  BY <1>2, <2>1, <2>2, <3>3 DEF SocketsOwned, Triple
  <2>3. CASE /\ \E opened \in SUBSET Sockets : open' = rtp_open_fails(bound', opened)
             /\ UNCHANGED <<rtp_bound, socks>>
             /\ \E b \in BOOLEAN : rtsp' = OnSetup(rtsp, b)
    <3>1. open' = {}
      BY <2>1, <2>3, Zenon DEF rtp_open_fails, rtp_close, Triple
    <3>2. rtsp' \in Rtsp /\ NothingInherited'
      BY <1>1, <1>3, <2>3, Zenon
    <3> QED  BY <1>2, <2>1, <2>3, <3>1, <3>2 DEF SocketsOwned
  <2> QED  BY <1>5, <2>2, <2>3, Zenon DEF SetupBinds
<1> QED  BY <1>4, <1>5, Zenon DEF Requests

\* The dispatched action hands the sockets on or closes them.
LEMMA ReplyInv ==
  ASSUME ServerInv, Replied
  PROVE  ServerInv'
<1> USE DEF ServerInv, ServerTypes, connVars, netVars, playVars, Continue
<1>1. CASE ReplyFails \/ TeardownRequested
  BY <1>1, TeardownInv, Zenon DEF ReplyFails, TeardownRequested, Return
<1>2. CASE StartUnbound \/ SetVolume \/ NothingToDo
  BY <1>2 DEF StartUnbound, SetVolume, NothingToDo, SocketsOwned, NothingInherited
<1>3. CASE StartFails
  BY <1>3, Zenon DEF StartFails, SocketsOwned, NothingInherited, rtp_close
<1>4. CASE StartSucceeds
  <2>1. /\ sess' = [socks |-> socks, sdp |-> rtsp.sdp, port |-> rtsp.sender_port, rtp |-> rtsp.rtp]
        /\ rtp_bound /\ ~rtp_bound' /\ UNCHANGED <<client, conns, rtsp, socks, open, bound>>
        /\ pc' = "drain" /\ client # 0
    BY <1>4, Zenon DEF StartSucceeds
  <2>2. sess' # NoSess /\ sess'.socks = socks /\ socks # 0
    BY <2>1, Zenon DEF NoSess
  <2>3. sess' \in [socks : Nat, sdp : Nat, port : Nat, rtp : Nat] /\ NothingInherited'
    BY <2>1, Zenon DEF Rtsp, NothingInherited
  <2> QED  BY <2>1, <2>2, <2>3, Zenon DEF SocketsOwned
<1>5. CASE FlushSession
  <2>1. CASE sess = NoSess
    BY <1>5, <2>1, Zenon DEF FlushSession, SocketsOwned, NothingInherited
  <2>2. CASE sess # NoSess
    <3>1. sess' = [sess EXCEPT !.rtp = rtsp.rtp] /\ pc' = "drain" /\ client # 0
          /\ UNCHANGED <<client, conns, rtsp, rtp_bound, socks, open, bound>>
      BY <1>5, <2>2, Zenon DEF FlushSession
    <3>2. sess' \in [socks : Nat, sdp : Nat, port : Nat, rtp : Nat] /\ sess'.socks = sess.socks
          /\ sess' # NoSess /\ NothingInherited'
      BY <2>2, <3>1, Zenon DEF Rtsp, NothingInherited, NoSess
    <3> QED  BY <2>2, <3>1, <3>2, Zenon DEF SocketsOwned
  <2> QED  BY <2>1, <2>2, Zenon
<1> QED  BY <1>1, <1>2, <1>3, <1>4, <1>5, Zenon DEF Replied

\* The poll loop.
LEMMA LoopInv ==
  ASSUME ServerInv, Client \/ Loop \/ PollReady \/ Clock \/ Term \/ Stopped \/ UNCHANGED vars
  PROVE  ServerInv'
<1> USE DEF ServerInv, ServerTypes, connVars, netVars, playVars
<1>1. CASE ClientGone \/ DropExpired \/ Shutdown
  BY <1>1, TeardownInv, Zenon DEF ClientGone, DropExpired, Shutdown, Return
<1>2. CASE DrainEnds \/ ClientReads
  BY <1>2 DEF DrainEnds, ClientReads, Return, Continue, SocketsOwned, NothingInherited
<1>3. CASE LoopCheck \/ LoopEnter \/ PollTimesOut \/ PollReady
  BY <1>3, SMTT(30) DEF LoopCheck, LoopEnter, PollTimesOut, PollReady, SocketsOwned, NothingInherited
<1>4. CASE Dispatch
  <2>1. client' \in Nat /\ conns' \in Nat /\ (client' = client \/ client = 0)
        /\ pc' \in {"client", "check"} /\ (pc' = "client" => client' # 0)
        /\ UNCHANGED <<rtsp, netVars, playVars>>
    BY <1>4 DEF Dispatch, Accept
  <2> QED  BY <2>1, Zenon DEF SocketsOwned, NothingInherited
<1>5. CASE Clock
  BY <1>5, Zenon DEF Clock, SocketsOwned, NothingInherited
<1>6. CASE Term
  BY <1>6, Zenon DEF Term, SocketsOwned, NothingInherited
<1>7. CASE Stopped \/ UNCHANGED vars
  BY <1>7 DEF Stopped, vars, loopVars, SocketsOwned, NothingInherited
<1> QED  BY <1>1, <1>2, <1>3, <1>4, <1>5, <1>6, <1>7, Zenon DEF Client, Loop

\* ServerInv holds in every reachable state.
THEOREM ServerInvariant == Spec => []ServerInv
<1>1. ServerInv /\ [Next]_vars => ServerInv'
  BY RequestInv, ReplyInv, LoopInv, Zenon DEF Next
<1> QED  BY <1>1, ServerInitInv, PTL DEF Spec

\* Every open RTP socket has an owner that will close it, and no owner's
\* sockets are closed under it.
THEOREM SocketsAreOwned == Spec => []SocketsOwned
<1>1. ServerInv => SocketsOwned
  BY Zenon DEF ServerInv
<1> QED  BY <1>1, ServerInvariant, PTL

\* A client's session is made of what that client negotiated.
THEOREM NothingIsInherited == Spec => []NothingInherited
<1>1. ServerInv => NothingInherited
  BY Zenon DEF ServerInv
<1> QED  BY <1>1, ServerInvariant, PTL

-----------------------------------------------------------------------------
\* The session.

USE SessionAssumption

\* What sink_write puts behind the PCM in the pipe: k more items of tag t, and
\* nothing else changes.
LEMMA PipeAppend ==
  ASSUME NEW q \in Seq(Nat), NEW k \in Nat, NEW t \in Nat
  PROVE  LET r == q \o [i \in 1 .. k |-> t] IN
         /\ r \in Seq(Nat)
         /\ Len(r) = Len(q) + k
         /\ \A i \in 1 .. Len(r) : (i \in 1 .. Len(q) /\ r[i] = q[i]) \/ r[i] = t
<1> DEFINE s == [i \in 1 .. k |-> t]
<1>1. s \in Seq(Nat) /\ Len(s) = k
  OBVIOUS
<1>2. \A i \in 1 .. Len(s) : s[i] = t
  BY <1>1, Zenon
<1> HIDE DEF s
<1>3. q \o s \in Seq(Nat) /\ Len(q \o s) = Len(q) + k
  BY <1>1
<1>4. ASSUME NEW i \in 1 .. Len(q \o s)
      PROVE  (i \in 1 .. Len(q) /\ (q \o s)[i] = q[i]) \/ (q \o s)[i] = t
  <2>1. CASE i <= Len(q)
    BY <1>1, <2>1
  <2>2. CASE i > Len(q)
    <3>1. i - Len(q) \in 1 .. Len(s) /\ (q \o s)[i] = s[i - Len(q)]
      BY <1>1, <1>3, <2>2
    <3> QED  BY <1>2, <3>1, Zenon
  <2> QED  BY <1>1, <1>3, <2>1, <2>2
<1> QED  BY <1>3, <1>4, Zenon DEF s

\* The flags stay Boolean: each step sets a flag to a constant, keeps it, or
\* tests other flags.
LEMMA FlagsPreserved == FlagsOK /\ [SessionNext]_sessionVars => FlagsOK'
<1> SUFFICES ASSUME FlagsOK, [SessionNext]_sessionVars PROVE FlagsOK'
  OBVIOUS
<1> USE DEF mainVars, bufVars, rxVars, plVars, sinkVars, genVars
<1>1. CASE Main
  <2>1. CASE StartRx \/ StartPl
    BY <2>1, Zenon DEF FlagsOK, StartRx, StartPl
  <2>5. CASE StartUndo \/ StartDone
    BY <2>5, Zenon DEF FlagsOK, StartUndo, StartDone
  <2>2. CASE FlushBegin \/ FlushEnd
    BY <2>2, Zenon DEF FlagsOK, FlushBegin, FlushEnd
  <2>3. CASE Stop \/ JoinRx \/ JoinPl \/ Destroy
    BY <2>3, Zenon DEF FlagsOK, Stop, JoinRx, JoinPl, Destroy
  <2>4. QED
    BY <1>1, <2>1, <2>5, <2>2, <2>3, Zenon DEF Main
<1>2. CASE Rx
  BY <1>2, Zenon DEF FlagsOK, Rx, RxLoop, RxRecv, RxDrained
<1>3. CASE Pl
  <2>1. CASE PlTop \/ PlRestart
    BY <2>1, Zenon DEF FlagsOK, PlTop, PlRestart, spawn_child
  <2>2. CASE PlPop \/ PlIdle \/ PlCheck
    BY <2>2, Zenon DEF FlagsOK, PlPop, PlIdle, PlCheck, GateOpen
  <2>3. CASE PlEnter \/ PlRespawn \/ PlGiveUp
    BY <2>3, Zenon DEF FlagsOK, PlEnter, PlRespawn, PlGiveUp, spawn_child
  <2>4. CASE PlWrite \/ PlCutShort
    BY <2>4, Zenon DEF FlagsOK, PlWrite, PlCutShort
  <2>5. QED
    BY <1>3, <2>1, <2>2, <2>3, <2>4, Zenon DEF Pl
<1>4. CASE ChildPlays \/ ChildDies \/ Gone \/ UNCHANGED sessionVars
  BY <1>4, Zenon DEF FlagsOK, ChildPlays, ChildDies, Gone, sessionVars
<1>5. QED
  BY <1>1, <1>2, <1>3, <1>4, Zenon DEF SessionNext

\* The initial state of a created session satisfies the strengthening.
LEMMA InitIInv == SessionInit => IInv
<1> SUFFICES ASSUME SessionInit PROVE IInv
  OBVIOUS
<1>1. FlagsOK
  BY Zenon DEF SessionInit, SinkOpened, FlagsOK
<1>2. QED
  BY <1>1 DEF SessionInit, SinkOpened, IInv, SessionTypeOK, Barrier

\* Every step of the RTSP thread preserves it.
LEMMA MainIInv == IInv /\ Main /\ FlagsOK' => IInv'
<1> SUFFICES ASSUME IInv, Main, FlagsOK' PROVE IInv'
  OBVIOUS
<1> USE DEF mainVars, bufVars, rxVars, plVars, sinkVars, genVars
<1>1. CASE StartRx
  BY <1>1, Zenon DEF IInv, SessionTypeOK, Barrier, StartRx
<1>2. CASE StartPl
  BY <1>2, Zenon DEF IInv, SessionTypeOK, Barrier, StartPl
<1>3. CASE StartUndo
  BY <1>3, Zenon DEF IInv, SessionTypeOK, Barrier, StartUndo
<1>4. CASE StartDone
  BY <1>4, Zenon DEF IInv, SessionTypeOK, Barrier, StartDone
<1>5. CASE FlushBegin
  BY <1>5 DEF IInv, SessionTypeOK, Barrier, FlushBegin
<1>6. CASE Stop
  BY <1>6, Zenon DEF IInv, SessionTypeOK, Barrier, Stop
<1>7. CASE JoinRx
  BY <1>7, Zenon DEF IInv, SessionTypeOK, Barrier, JoinRx
<1>8. CASE JoinPl
  BY <1>8, Zenon DEF IInv, SessionTypeOK, Barrier, JoinPl
<1>9. CASE Destroy
  BY <1>9 DEF IInv, SessionTypeOK, Barrier, Destroy
<1>10. CASE FlushEnd
  BY <1>10 DEF IInv, SessionTypeOK, Barrier, FlushEnd
<1>11. QED
  BY <1>1, <1>2, <1>3, <1>4, <1>5, <1>6, <1>7, <1>8, <1>9, <1>10, Zenon DEF Main

\* Every step of the receiver thread preserves it.
LEMMA RxIInv == IInv /\ Rx /\ FlagsOK' => IInv'
<1> SUFFICES ASSUME IInv, Rx, FlagsOK' PROVE IInv'
  OBVIOUS
<1> USE DEF mainVars, bufVars, rxVars, plVars, sinkVars, genVars
<1>1. CASE RxLoop
  BY <1>1 DEF IInv, SessionTypeOK, Barrier, RxLoop
<1>2. CASE RxRecv
  BY <1>2 DEF IInv, SessionTypeOK, Barrier, RxRecv, LockFree
<1>3. CASE RxDrained
  BY <1>3 DEF IInv, SessionTypeOK, Barrier, RxDrained
<1>4. QED
  BY <1>1, <1>2, <1>3, Zenon DEF Rx

\* Every step of the player thread preserves it; only sink_write adds to the
\* pipe, and only PCM whose epoch is current or about to be discarded.
LEMMA PlIInv == IInv /\ Pl /\ FlagsOK' => IInv'
<1> SUFFICES ASSUME IInv, Pl, FlagsOK' PROVE IInv'
  OBVIOUS
<1> USE DEF mainVars, bufVars, rxVars, plVars, sinkVars, genVars
<1>1. CASE PlTop
  BY <1>1, Zenon DEF IInv, SessionTypeOK, Barrier, PlTop
<1>2. CASE PlRestart
  BY <1>2 DEF IInv, SessionTypeOK, Barrier, PlRestart, spawn_child
<1>3. CASE PlPop
  BY <1>3 DEF IInv, SessionTypeOK, Barrier, PlPop, LockFree
<1>4. CASE PlIdle
  BY <1>4, Zenon DEF IInv, SessionTypeOK, Barrier, PlIdle, LockFree
<1>5. CASE PlCheck
  BY <1>5, Zenon DEF IInv, SessionTypeOK, Barrier, PlCheck
<1>6. CASE PlEnter
  BY <1>6, Zenon DEF IInv, SessionTypeOK, Barrier, PlEnter
<1>7. CASE PlRespawn
  BY <1>7 DEF IInv, SessionTypeOK, Barrier, PlRespawn, WriteReturns, spawn_child
<1>8. CASE PlGiveUp
  BY <1>8 DEF IInv, SessionTypeOK, Barrier, PlGiveUp, WriteReturns
<1>9. CASE PlCutShort
  BY <1>9 DEF IInv, SessionTypeOK, Barrier, PlCutShort, WriteReturns
<1>10. CASE PlWrite
  <2>1. PICK k \in 1 .. left : /\ Len(pipe) + k <= PIPE
                               /\ pipe' = pipe \o [i \in 1 .. k |-> g]
                               /\ left' = left - k
    BY <1>10, Zenon DEF PlWrite
  <2>2. k \in Nat /\ g \in Nat /\ pipe \in Seq(Nat) /\ left \in Nat
    BY DEF IInv, SessionTypeOK
  <2>3. /\ pipe' \in Seq(Nat) /\ Len(pipe') <= PIPE
        /\ \A i \in 1 .. Len(pipe') :
             (i \in 1 .. Len(pipe) /\ pipe'[i] = pipe[i]) \/ pipe'[i] = g
    BY <2>1, <2>2, PipeAppend
  <2>4. SessionTypeOK'
    BY <1>10, <2>1, <2>3, SMTT(30) DEF IInv, SessionTypeOK, PlWrite, WriteReturns
  <2>5. Barrier'
    BY <1>10, <2>3, Zenon DEF IInv, Barrier, PlWrite
  <2>6. QED
    BY <1>10, <2>4, <2>5, SMTT(30) DEF IInv, SessionTypeOK, PlWrite, WriteReturns
<1>11. QED
  BY <1>1, <1>2, <1>3, <1>4, <1>5, <1>6, <1>7, <1>8, <1>9, <1>10, Zenon DEF Pl

\* The child only takes from the pipe.
LEMMA ChildIInv == IInv /\ (ChildPlays \/ ChildDies) /\ FlagsOK' => IInv'
<1> SUFFICES ASSUME IInv, ChildPlays \/ ChildDies, FlagsOK' PROVE IInv'
  OBVIOUS
<1> USE DEF mainVars, bufVars, rxVars, plVars, sinkVars, genVars
<1>1. CASE ChildPlays
  <2>1. /\ pipe \in Seq(Nat) /\ pipe # <<>> /\ pipe' = Tail(pipe)
        /\ Len(pipe) <= PIPE
    BY <1>1, Zenon DEF IInv, SessionTypeOK, ChildPlays
  <2>2. /\ pipe' \in Seq(Nat) /\ Len(pipe') = Len(pipe) - 1
        /\ Head(pipe) \in Nat
        /\ \A i \in 1 .. Len(pipe') : i + 1 \in 1 .. Len(pipe) /\ pipe'[i] = pipe[i + 1]
    BY <2>1
  <2>3. SessionTypeOK'
    BY <1>1, <2>1, <2>2 DEF IInv, SessionTypeOK, ChildPlays
  <2>4. Barrier'
    BY <1>1, <2>2, Zenon DEF IInv, Barrier, ChildPlays
  <2>5. QED
    BY <1>1, <2>3, <2>4, Zenon DEF IInv, ChildPlays
<1>2. CASE ChildDies
  BY <1>2 DEF IInv, SessionTypeOK, Barrier, ChildDies
<1>3. QED
  BY <1>1, <1>2, Zenon

\* The strengthening is an invariant of every session.
THEOREM IInvHolds == SessionSpec => []IInv
<1>1. IInv /\ [SessionNext]_sessionVars => IInv'
  <2> SUFFICES ASSUME IInv, [SessionNext]_sessionVars PROVE IInv'
    OBVIOUS
  <2>1. FlagsOK'
    BY FlagsPreserved, Zenon DEF IInv, SessionTypeOK
  <2>2. CASE Gone \/ UNCHANGED sessionVars
    <3>1. UNCHANGED sessionVars
      BY <2>2, Zenon DEF Gone
    <3>2. SessionTypeOK'
      BY <2>1, <3>1, Zenon DEF sessionVars, mainVars, bufVars, rxVars, plVars, sinkVars, genVars, IInv, SessionTypeOK
    <3>3. Barrier'
      BY <3>1, Zenon DEF sessionVars, mainVars, bufVars, rxVars, plVars, sinkVars, genVars, IInv, Barrier
    <3>4. QED
      BY <3>1, <3>2, <3>3, Zenon
         DEF sessionVars, mainVars, bufVars, rxVars, plVars, sinkVars, genVars, IInv
  <2>3. QED
    BY <2>1, <2>2, MainIInv, RxIInv, PlIInv, ChildIInv, Zenon DEF SessionNext
<1>2. QED
  BY <1>1, InitIInv, PTL DEF SessionSpec

\* The state of a session stays well-typed: in particular the spawn attempts,
\* the retries and the receive budget keep within their bounds.
THEOREM TypeCorrect == SessionSpec => []SessionTypeOK
BY IInvHolds, PTL DEF IInv

\* After session_flush, PCM of an old epoch is in the pipe only until the
\* pending sink restart of pl_thread discards it.
THEOREM FlushBarrier == SessionSpec => []Barrier
BY IInvHolds, PTL DEF IInv

\* session_destroy frees nothing that rx_thread or pl_thread may still use.
THEOREM DestroySafe == SessionSpec => []NoUseAfterDestroy
<1>1. IInv => NoUseAfterDestroy
  BY Zenon DEF IInv, NoUseAfterDestroy
<1>2. QED
  BY <1>1, IInvHolds, PTL

\* session_stop and the undoing of a failed session_start wait for the threads
\* with the running flag down.
Stopping == main \in {"undo", "join_rx", "join_pl"}

\* Who waits has cleared the flag, and a failed start has no player yet.
StopInv ==
  /\ Stopping => ~running
  /\ main \in {"up", "flush", "join_rx", "join_pl"} => threads_up
  /\ main \in {"create", "rx_up", "undo"} => pl = "off"

\* The steps a thread may still take before it sees the flag.
ReceiverLeft == IF rx = "drain" THEN 2 ELSE IF rx = "loop" THEN 1 ELSE 0
PlayerLeft ==
  CASE pl = "sink" -> left + 4 [] pl = "write" -> left + 3 [] pl = "restart" -> 4
    [] pl = "lock" -> 3 [] pl = "check" -> 2 [] pl = "top" -> 1 [] OTHER -> 0

\* While they are waited for, each step of a thread leaves it fewer, and no other
\* step leaves it more.
StopShort ==
  Stopping =>
    /\ ReceiverLeft \in 0 .. 2 /\ ReceiverLeft' <= ReceiverLeft
    /\ PlayerLeft \in 0 .. CHUNK + 4 /\ PlayerLeft' <= PlayerLeft
    /\ rxVars' # rxVars => ReceiverLeft' < ReceiverLeft
    /\ plVars' # plVars => PlayerLeft' < PlayerLeft

\* The flag stays down for as long as session_stop waits.
LEMMA StopInvariant == SessionSpec => []StopInv
<1>1. SessionInit => StopInv
  BY Zenon DEF SessionInit, StopInv, Stopping
<1>2. StopInv /\ [SessionNext]_sessionVars => StopInv'
  <2> SUFFICES ASSUME StopInv, [SessionNext]_sessionVars PROVE StopInv'
    OBVIOUS
  <2> USE DEF mainVars, bufVars, rxVars, plVars, sinkVars, genVars, StopInv, Stopping
  <2>1. CASE Main
    <3>1. CASE StartRx \/ StartPl
      BY <3>1, Zenon DEF StartRx, StartPl
    <3>2. CASE StartUndo \/ StartDone
      BY <3>2, Zenon DEF StartUndo, StartDone
    <3>3. CASE FlushBegin \/ FlushEnd
      BY <3>3, Zenon DEF FlushBegin, FlushEnd
    <3>4. CASE Stop
      BY <3>4, Zenon DEF Stop
    <3>5. CASE JoinRx \/ JoinPl
      BY <3>5, SMTT(30) DEF JoinRx, JoinPl
    <3>6. CASE Destroy
      BY <3>6, Zenon DEF Destroy
    <3> QED  BY <2>1, <3>1, <3>2, <3>3, <3>4, <3>5, <3>6, Zenon DEF Main
  <2>2. CASE Rx
    BY <2>2 DEF Rx, RxLoop, RxRecv, RxDrained
  <2>3. CASE Pl
    <3>1. UNCHANGED mainVars /\ pl # "off"
      BY <2>3, Zenon DEF Pl, PlTop, PlRestart, PlPop, PlIdle, PlCheck, PlEnter, PlRespawn,
                          PlGiveUp, PlWrite, PlCutShort
    <3> QED  BY <3>1, Zenon
  <2>4. CASE ChildPlays \/ ChildDies \/ Gone \/ UNCHANGED sessionVars
    <3>1. UNCHANGED <<main, running, threads_up, pl>>
      BY <2>4, Zenon DEF ChildPlays, ChildDies, Gone, sessionVars
    <3> QED  BY <3>1, Zenon
  <2> QED  BY <2>1, <2>2, <2>3, <2>4, Zenon DEF SessionNext
<1> QED  BY <1>1, <1>2, PTL DEF SessionSpec

\* Neither a flooding peer nor a child that reads nothing keeps a thread going.
LEMMA StopSteps ==
  ASSUME IInv, StopInv, [SessionNext]_sessionVars, Stopping
  PROVE  /\ rxVars' = rxVars \/ ReceiverLeft' < ReceiverLeft
         /\ plVars' = plVars \/ (PlayerLeft' \in Int /\ PlayerLeft' < PlayerLeft)
<1> USE DEF mainVars, bufVars, rxVars, plVars, sinkVars, genVars
<1>1. ~running /\ (pl # "off" => threads_up)
  BY Zenon DEF StopInv, Stopping
<1>2. left \in Nat
  BY DEF IInv, SessionTypeOK
<1>3. CASE Main
  BY <1>3, Zenon DEF Main, StartRx, StartPl, StartUndo, StartDone, FlushBegin, FlushEnd, Stop, JoinRx,
              JoinPl, Destroy, Stopping
<1>4. CASE Rx
  <2>1. UNCHANGED plVars
    BY <1>4, Zenon DEF Rx, RxLoop, RxRecv, RxDrained
  <2>2. ReceiverLeft' < ReceiverLeft
    BY <1>1, <1>4 DEF Rx, RxLoop, RxRecv, RxDrained, ReceiverLeft
  <2> QED  BY <2>1, <2>2, Zenon
<1>5. CASE Pl
  <2>1. UNCHANGED rxVars
    BY <1>5, Zenon DEF Pl, PlTop, PlRestart, PlPop, PlIdle, PlCheck, PlEnter, PlRespawn, PlGiveUp,
                       PlWrite, PlCutShort
  <2>2. PlayerLeft' \in Int /\ PlayerLeft' < PlayerLeft
    <3>1. CASE PlTop \/ PlRestart \/ PlPop \/ PlIdle \/ PlCheck
      <4>1. \/ pl = "top" /\ pl' = "done"
            \/ pl = "restart" /\ pl' = "lock"
            \/ pl = "lock" /\ pl' \in {"check", "top"}
            \/ pl = "check" /\ pl' = "top"
        BY <1>1, <3>1, Zenon DEF PlTop, PlRestart, PlPop, PlIdle, PlCheck
      <4> QED  BY <4>1 DEF PlayerLeft
    <3>2. CASE PlEnter \/ PlRespawn \/ PlGiveUp
      <4>1. pl = "sink" /\ pl' \in {"write", "check", "top"} /\ left' = left
        BY <3>2, Zenon DEF PlEnter, PlRespawn, PlGiveUp, WriteReturns
      <4> QED  BY <1>2, <4>1 DEF PlayerLeft
    <3>3. CASE PlWrite
      <4>1. PICK k \in 1 .. left : left' = left - k
        BY <3>3, Zenon DEF PlWrite
      <4>2. pl = "write" /\ pl' \in {"write", "check", "top"}
        BY <3>3, Zenon DEF PlWrite, WriteReturns
      <4> QED  BY <1>2, <4>1, <4>2 DEF PlayerLeft
    <3>4. CASE PlCutShort
      <4>1. pl = "write" /\ pl' \in {"check", "top"}
        BY <3>4, Zenon DEF PlCutShort, WriteReturns
      <4> QED  BY <1>2, <4>1 DEF PlayerLeft
    <3> QED  BY <1>5, <3>1, <3>2, <3>3, <3>4, Zenon DEF Pl
  <2> QED  BY <2>1, <2>2, Zenon
<1>6. CASE ChildPlays \/ ChildDies \/ Gone \/ UNCHANGED sessionVars
  BY <1>6, Zenon DEF ChildPlays, ChildDies, Gone, sessionVars
<1> QED  BY <1>3, <1>4, <1>5, <1>6, Zenon DEF SessionNext

\* Once session_stop or the undoing of a failed start has cleared the running flag,
\* rx_thread takes at most two more steps and pl_thread at most CHUNK + 4, whatever
\* the sender sends and the child does: no drain, retry or respawn loop outlasts it.
THEOREM StopIsShort == SessionSpec => [][StopShort]_sessionVars
<1>1. IInv /\ StopInv /\ [SessionNext]_sessionVars => [StopShort]_sessionVars
  <2> SUFFICES ASSUME IInv, StopInv, [SessionNext]_sessionVars, Stopping
               PROVE  /\ ReceiverLeft \in 0 .. 2 /\ ReceiverLeft' <= ReceiverLeft
                      /\ PlayerLeft \in 0 .. CHUNK + 4 /\ PlayerLeft' <= PlayerLeft
                      /\ rxVars' # rxVars => ReceiverLeft' < ReceiverLeft
                      /\ plVars' # plVars => PlayerLeft' < PlayerLeft
    BY Zenon DEF StopShort
  <2>1. ReceiverLeft \in 0 .. 2 /\ PlayerLeft \in 0 .. CHUNK + 4
    <3>1. left \in 0 .. CHUNK /\ CHUNK \in Nat
      BY Zenon DEF IInv, SessionTypeOK
    <3> QED  BY <3>1 DEF ReceiverLeft, PlayerLeft
  <2>2. rxVars' = rxVars => ReceiverLeft' = ReceiverLeft
    BY Zenon DEF rxVars, ReceiverLeft
  <2>3. plVars' = plVars => PlayerLeft' = PlayerLeft
    BY Zenon DEF plVars, PlayerLeft
  <2>4. ReceiverLeft' \in Int
    BY DEF ReceiverLeft
  <2> QED  BY <2>1, <2>2, <2>3, <2>4, StopSteps
<1> QED  BY <1>1, IInvHolds, StopInvariant, PTL DEF SessionSpec

-----------------------------------------------------------------------------
\* The display.
\* The values of np_state.
Snaps == [gen : Nat, art_serial : Nat, meta : Metas \cup {Blank}, have_art : BOOLEAN, playing : BOOLEAN]

DisplayTypes ==
  /\ np \in Snaps /\ snap \in Snaps /\ artfile \in Covers \cup {Blank}
  /\ caller \in {"idle", "art", "playing0", "wake", "join", "end"}
  /\ worker \in {"wait", "debounce", "snap", "decide", "child", "done"}
  /\ g_dirty \in BOOLEAN /\ missed \in BOOLEAN
  /\ seen \in Int \X Nat \X BOOLEAN
  /\ last \in [layout : {"none", "card", "splash"}, gen : Nat, have_art : BOOLEAN]

\* The generation and the serial number stand for what they count: a snapshot
\* that agrees with the state in both agrees in all but playing.
KeyInv ==
  /\ snap.gen <= np.gen /\ snap.art_serial <= np.art_serial
  /\ snap.gen = np.gen => snap.meta = np.meta
  /\ snap.gen = np.gen /\ snap.art_serial = np.art_serial => snap.have_art = np.have_art
  /\ seen[1] <= np.gen /\ seen[2] <= np.art_serial
  /\ np.have_art \/ snap.have_art \/ caller = "art" => artfile \in Covers

\* The screen shows what the key of the last draw stands for.
ScreenInv ==
  /\ ~missed /\ seen[1] = np.gen /\ seen[2] = np.art_serial /\ caller # "art" =>
       screen = Wanted([np EXCEPT !.playing = seen[3]])
  /\ ~missed /\ last.layout = "card" =>
       /\ screen.layout = "card" /\ screen.gen = last.gen
       /\ (screen.art # Blank) <=> last.have_art

\* Whoever has changed the state is about to wake the worker, or has.
Pending == g_dirty \/ caller # "idle"
WakeInv ==
  /\ worker \in {"decide", "child"} => Key(snap) = Key(np) \/ Pending
  /\ worker = "wait" /\ ~missed => seen = Key(np) \/ Pending
  /\ worker = "child" => mode = Mode(snap)

DisplayInv == DisplayTypes /\ KeyInv /\ ScreenInv /\ WakeInv

\* Fields set to values of their types.
LEMMA FieldsSet ==
  ASSUME NEW s \in Snaps, NEW n \in Nat, NEW m \in Metas \cup {Blank}, NEW b \in BOOLEAN
  PROVE  /\ [s EXCEPT !.gen = n, !.meta = m] \in Snaps
         /\ [s EXCEPT !.gen = n, !.meta = m, !.have_art = b] \in Snaps
         /\ [s EXCEPT !.have_art = b, !.art_serial = n] \in Snaps
         /\ [s EXCEPT !.playing = b] \in Snaps
  BY Zenon DEF Snaps

\* What the calls of the RTSP thread publish is a state.
LEMMA Published ==
  ASSUME NEW s \in Snaps
  PROVE  /\ \A m \in Metas : [s EXCEPT !.gen = @ + 1, !.meta = m] \in Snaps
         /\ [s EXCEPT !.have_art = TRUE, !.art_serial = @ + 1] \in Snaps
         /\ Reset(s) \in Snaps /\ [Reset(s) EXCEPT !.playing = FALSE] \in Snaps
<1>1. TRUE \in BOOLEAN /\ FALSE \in BOOLEAN /\ Blank \in Metas \cup {Blank}
  BY Zenon
<1>2. s.gen + 1 \in Nat /\ s.art_serial + 1 \in Nat
  BY DEF Snaps
<1>3. \A m \in Metas : m \in Metas \cup {Blank}
  OBVIOUS
<1>4. \A m \in Metas : [s EXCEPT !.gen = s.gen + 1, !.meta = m] \in Snaps
  BY <1>1, <1>2, <1>3, FieldsSet, Zenon
<1>5. [s EXCEPT !.have_art = TRUE, !.art_serial = s.art_serial + 1] \in Snaps
  BY <1>1, <1>2, FieldsSet, Zenon
<1>6. Reset(s) \in Snaps
  BY <1>1, <1>2, FieldsSet, Zenon DEF Reset
<1>7. [Reset(s) EXCEPT !.playing = FALSE] \in Snaps
  BY <1>1, <1>2, <1>6, FieldsSet, Zenon
<1> QED  BY <1>4, <1>5, <1>6, <1>7, Zenon

\* The key of no draw.
LEMMA FirstKey == <<-1, 0, FALSE>> \in Int \X Nat \X BOOLEAN
<1>1. \A b \in BOOLEAN : <<-1, 0, b>> \in Int \X Nat \X BOOLEAN
  OBVIOUS
<1>2. FALSE \in BOOLEAN
  BY Zenon
<1> QED  BY <1>1, <1>2, Zenon

\* The display satisfies the invariant when raopd starts.
LEMMA DisplayInitInv == DisplayInit => DisplayInv
<1> SUFFICES ASSUME DisplayInit PROVE DisplayInv
  OBVIOUS
<1>1. g_dirty \in BOOLEAN /\ missed \in BOOLEAN /\ ~missed /\ g_dirty
  BY Zenon DEF DisplayInit
<1>2. np \in Snaps /\ snap \in Snaps /\ np.gen = 0 /\ np.art_serial = 0 /\ ~np.have_art /\ snap = np
  BY Zenon DEF DisplayInit, NpZero, Snaps
<1>3. seen = <<-1, 0, FALSE>>
  BY Zenon DEF DisplayInit
<1>4. seen \in Int \X Nat \X BOOLEAN /\ seen[1] = -1 /\ seen[2] = 0
  BY <1>3, FirstKey, Zenon
<1>5. last \in [layout : {"none", "card", "splash"}, gen : Nat, have_art : BOOLEAN] /\ last.layout = "none"
  BY Zenon DEF DisplayInit
<1> QED
  BY <1>1, <1>2, <1>4, <1>5 DEF DisplayInit, DisplayInv, DisplayTypes, KeyInv, ScreenInv, WakeInv, Pending

\* A publication that counts leaves every earlier key behind, one that only
\* starts or stops playing keeps the rest.
LEMMA NewKeyInv ==
  ASSUME DisplayInv, np' \in Snaps, caller' \in {"playing0", "wake", "end"},
         np'.gen >= np.gen, np'.art_serial >= np.art_serial,
         np'.gen # np.gen \/ np'.art_serial # np.art_serial,
         np'.gen = np.gen => np'.meta = np.meta,
         np'.have_art => artfile \in Covers,
         UNCHANGED <<artfile, g_dirty, worker, snap, mode, seen, last, screen, missed>>
  PROVE  DisplayInv'
  BY DEF DisplayInv, DisplayTypes, KeyInv, ScreenInv, WakeInv, Pending, Snaps, Mode

\* Starting or stopping to play changes nothing else.
LEMMA PlayingInv ==
  ASSUME DisplayInv, NEW p \in BOOLEAN, np' = [np EXCEPT !.playing = p], caller' = "wake", caller # "art",
         UNCHANGED <<artfile, g_dirty, worker, snap, mode, seen, last, screen, missed>>
  PROVE  DisplayInv'
<1> USE DEF DisplayInv, DisplayTypes, Snaps
<1>1. /\ np' \in Snaps /\ np'.gen = np.gen /\ np'.art_serial = np.art_serial
      /\ np'.meta = np.meta /\ np'.have_art = np.have_art
  OBVIOUS
<1>2. [np' EXCEPT !.playing = seen[3]] = [np EXCEPT !.playing = seen[3]]
  BY Zenon
<1> QED
  BY <1>1, <1>2 DEF KeyInv, ScreenInv, WakeInv, Pending, Wanted, Mode

\* Steps of the RTSP thread.
LEMMA PublishInv ==
  ASSUME DisplayInv, MainNext
  PROVE  DisplayInv'
<1> USE DEF DisplayInv, DisplayTypes, KeyInv, ScreenInv, WakeInv, Pending, Snaps,
            npVars, callerVars, flagVars, workVars, outVars, Key, Wanted, Mode
<1>1. ASSUME NEW m \in Metas, PublishMeta(m) PROVE DisplayInv'
  <2>1. CASE np.meta = m
    BY <1>1, <2>1 DEF PublishMeta
  <2>2. CASE np.meta # m
    <3>1. np' \in Snaps
      BY <1>1, <2>2, Published, Zenon DEF PublishMeta
    <3>2. /\ np'.gen = np.gen + 1 /\ np'.art_serial = np.art_serial
          /\ np'.have_art = np.have_art /\ caller' = "wake"
      BY <1>1, <2>2, Zenon DEF PublishMeta
    <3> QED  BY <1>1, <3>1, <3>2, NewKeyInv, SMTT(30) DEF PublishMeta
  <2> QED  BY <2>1, <2>2, Zenon
<1>2. ASSUME NEW c \in Covers, ReplaceArt(c) PROVE DisplayInv'
  BY <1>2 DEF ReplaceArt
<1>3. CASE PublishArt
  <2>1. np' \in Snaps
    BY <1>3, Published, Zenon DEF PublishArt
  <2>2. /\ np'.gen = np.gen /\ np'.art_serial = np.art_serial + 1
        /\ np'.meta = np.meta /\ caller = "art" /\ caller' = "wake"
    BY <1>3, Zenon DEF PublishArt
  <2>3. /\ artfile \in Covers
        /\ UNCHANGED <<artfile, g_dirty, worker, snap, mode, seen, last, screen, missed>>
    BY <1>3, <2>2, Zenon DEF PublishArt
  <2>4. DisplayInv /\ caller' \in {"playing0", "wake", "end"}
    BY <2>2, Zenon
  <2>5. /\ np'.gen >= np.gen /\ np'.art_serial >= np.art_serial
        /\ np'.art_serial # np.art_serial
    BY <2>2
  <2> QED
    <3> HIDE DEF DisplayInv, Snaps
    <3> QED  BY <2>1, <2>2, <2>3, <2>4, <2>5, NewKeyInv, Zenon
<1>4. CASE StartPlaying
  BY <1>4, PlayingInv, Zenon DEF StartPlaying
<1>5. CASE TeardownReset
  <2>1. np' \in Snaps
    BY <1>5, Published, Zenon DEF TeardownReset
  <2>2. /\ np'.gen = np.gen + 1 /\ np'.art_serial = np.art_serial
        /\ ~np'.have_art /\ caller' \in {"playing0", "end"}
    BY <1>5, Zenon DEF TeardownReset, Reset
  <2> QED  BY <1>5, <2>1, <2>2, NewKeyInv DEF TeardownReset
<1>6. CASE TeardownPlaying
  BY <1>6, PlayingInv, Zenon DEF TeardownPlaying
<1>7. CASE Wake
  BY <1>7 DEF Wake
<1>8. CASE StopWorker
  BY <1>8 DEF StopWorker
<1>9. CASE Join
  <2>1. np' \in Snaps
    BY <1>9, Published, Zenon DEF Join
  <2>2. /\ np'.gen = np.gen + 1 /\ np'.art_serial = np.art_serial
        /\ ~np'.have_art /\ caller' \in {"playing0", "end"}
    BY <1>9, Zenon DEF Join, Reset
  <2> QED  BY <1>9, <2>1, <2>2, NewKeyInv DEF Join
<1> QED  BY <1>1, <1>2, <1>3, <1>4, <1>5, <1>6, <1>7, <1>8, <1>9, Zenon DEF MainNext

\* Steps of the display thread.
LEMMA WorkerInv ==
  ASSUME DisplayInv, WorkerNext
  PROVE  DisplayInv'
<1> USE DEF DisplayInv, DisplayTypes, KeyInv, ScreenInv, WakeInv, Pending, Snaps,
            npVars, callerVars, flagVars, workVars, outVars, Key, Wanted, Mode
<1>1. CASE WorkerWakes
  BY <1>1 DEF WorkerWakes
<1>2. CASE WorkerClears
  <2>1. g_dirty' \in BOOLEAN
    BY <1>2, Zenon DEF WorkerClears
  <2> QED  BY <1>2, <2>1 DEF WorkerClears
<1>3. CASE WorkerSnaps
  BY <1>3 DEF WorkerSnaps
<1>4. CASE RenderFails
  BY <1>4 DEF RenderFails
<1>5. CASE RenderSpawns
  BY <1>5 DEF RenderSpawns
<1>6. CASE ChildDraws
  <2>1. /\ UNCHANGED <<np, artfile, caller, g_dirty, snap, mode>>
        /\ worker' = "wait" /\ seen' = <<snap.gen, snap.art_serial, snap.playing>>
        /\ screen' = Wanted(snap)
    BY <1>6, Zenon DEF ChildDraws, Dispatched
  <2>2. missed' \in BOOLEAN /\ ~missed'
    BY <1>6, Zenon DEF ChildDraws
  <2>3. /\ seen' \in Int \X Nat \X BOOLEAN
        /\ seen'[1] = snap.gen /\ seen'[2] = snap.art_serial /\ seen'[3] = snap.playing
    BY <2>1
  <2>4. /\ last' \in [layout : {"none", "card", "splash"}, gen : Nat, have_art : BOOLEAN]
        /\ last'.layout = "card" <=> snap.playing
        /\ snap.playing => last'.gen = snap.gen /\ last'.have_art = snap.have_art
    BY <1>6, Zenon DEF ChildDraws, Dispatched
  <2>5. DisplayTypes' /\ KeyInv'
    BY <2>1, <2>2, <2>3, <2>4
  <2>6. ScreenInv'
    <3>1. ASSUME snap.gen = np.gen, snap.art_serial = np.art_serial
          PROVE  Wanted(snap) = Wanted([np EXCEPT !.playing = snap.playing])
      BY <3>1, Zenon
    <3>2. ASSUME snap.playing
          PROVE  /\ screen'.layout = "card" /\ screen'.gen = snap.gen
                 /\ (screen'.art # Blank) <=> snap.have_art
      BY <2>1, <3>2, NowPlayingAssumption, Zenon
    <3> QED  BY <2>1, <2>2, <2>3, <2>4, <3>1, <3>2, Zenon
  <2>7. WakeInv'
    BY <1>6, <2>1, Zenon DEF ChildDraws
  <2> QED  BY <2>5, <2>6, <2>7, Zenon
<1>7. CASE ChildFails
  BY <1>7 DEF ChildFails, Dispatched
<1> QED  BY <1>1, <1>2, <1>3, <1>4, <1>5, <1>6, <1>7, Zenon DEF WorkerNext

\* The inductive invariant of the display holds in every reachable state.
THEOREM DisplayInvariant ==
  DisplaySpec => []DisplayInv
<1>1. DisplayInit => DisplayInv
  BY DisplayInitInv, Zenon
<1>2. DisplayInv /\ [DisplayNext]_displayVars => DisplayInv'
  <2> SUFFICES ASSUME DisplayInv, [DisplayNext]_displayVars PROVE DisplayInv'
    OBVIOUS
  <2>1. CASE Ended \/ UNCHANGED displayVars
    BY <2>1 DEF Ended, displayVars, npVars, callerVars, flagVars, workVars, outVars,
                DisplayInv, DisplayTypes, KeyInv, ScreenInv, WakeInv, Pending, Wanted, Key, Mode
  <2> QED  BY <2>1, PublishInv, WorkerInv, Zenon DEF DisplayNext
<1> QED  BY <1>1, <1>2, PTL DEF DisplaySpec

\* When the display thread waits and nobody is about to wake it, the screen shows
\* what was published last, unless a render failed: for every set of titles and
\* covers and any number of publications (npstate.c, nprender.c).
THEOREM ScreenSettles ==
  DisplaySpec => []Settled
<1>1. DisplayInv => Settled
  <2> SUFFICES ASSUME DisplayInv, worker = "wait", ~g_dirty, caller = "idle", ~missed
               PROVE  screen = Wanted(np)
    BY Zenon DEF Settled
  <2>1. seen = Key(np)
    BY Zenon DEF DisplayInv, WakeInv, Pending
  <2>2. [np EXCEPT !.playing = np.playing] = np
    BY Zenon DEF DisplayInv, DisplayTypes, Snaps
  <2> QED  BY <2>1, <2>2, Zenon DEF DisplayInv, ScreenInv, Key
<1> QED  BY <1>1, DisplayInvariant, PTL

\* A draw without a flash goes over the card of the same track with the same
\* kind of art region, unless a render failed.
THEOREM LightDrawsAreSound ==
  DisplaySpec => []LightDrawSound
<1>1. DisplayInv => LightDrawSound
  BY Zenon DEF DisplayInv, DisplayTypes, Snaps, ScreenInv, WakeInv, Mode, LightDrawSound
<1> QED  BY <1>1, DisplayInvariant, PTL
=============================================================================

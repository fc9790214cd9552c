--------------------------- MODULE ControlProofs ----------------------------
(***************************************************************************)
(* Proofs about the way of a command from the Kindlet to the sender.       *)
(* First module Dacp, for any number of senders, controllers and sessions, *)
(* and that the control thread of module DacpControl, with the             *)
(* supervisor's tokens and main's shutdown around it, does nothing that    *)
(* module Dacp does not allow, so that the same holds of the program.      *)
(* Then the lines in which the supervisor gets the commands (module        *)
(* LineBuffer), for streams of any length and reads of any size.           *)
(***************************************************************************)
EXTENDS DacpControl, LineBuffer, FiniteSetTheorems, TLAPS

Steps == {"idle", "resolve", "publish", "guard", "send"}

DacpTypes ==
  /\ st \in States /\ client \in Peers \cup {None}
  /\ cmd \in [Senders -> [pc : Steps, snap : States, port : Ids \cup {None}]]

\* What a command holds of the session it began in, while that session lasts.
OfSession(c) ==
  /\ c.snap.id \in seen
  /\ c.pc \in {"publish", "guard", "send"} => c.port \in seen
  /\ c.pc = "send" => c.snap.peer = client

\* Credentials are those of the connected client, and no command is ahead of
\* the generation.
DacpInv ==
  /\ DacpTypes
  /\ st.have_creds => st.id \in seen /\ st.peer = client
  /\ PortOfSession
  /\ \A t \in Senders : cmd[t].pc # "idle" =>
       /\ cmd[t].snap.generation <= st.generation
       /\ cmd[t].snap.generation = st.generation => OfSession(cmd[t])

\* A cleared dacp_state_t.
LEMMA EmptyIsState == \A g \in 0 .. MAX_GEN : Empty(g) \in States
  BY DacpAssumption DEF Empty, States

\* The state raopd starts with.
LEMMA DacpInitInv == Init => DacpInv
<1> SUFFICES ASSUME Init PROVE DacpInv
  OBVIOUS
<1>1. st \in States /\ Empty(0) \in States
  BY EmptyIsState, DacpAssumption DEF Init
<1>2. DacpTypes
  BY <1>1, Zenon DEF Init, DacpTypes, Idle, Steps
<1>3. PortOfSession /\ ~st.have_creds
  BY Zenon DEF Init, PortOfSession, Empty
<1>4. \A t \in Senders : cmd[t].pc = "idle"
  BY Zenon DEF Init, Idle
<1> QED  BY <1>2, <1>3, <1>4, Zenon DEF DacpInv

\* A new generation leaves every command of the old one behind.
LEMMA NewSessionInv ==
  ASSUME DacpInv, NewSession, client' \in Peers \cup {None}
  PROVE  DacpInv'
<1> USE DEF DacpInv, DacpTypes
<1>1. st.generation + 1 \in 0 .. MAX_GEN /\ st.generation \in Nat
  BY DacpAssumption DEF NewSession, States
<1>2. st' \in States
  BY <1>1, EmptyIsState, Zenon DEF NewSession
<1>3. st'.generation = st.generation + 1 /\ ~st'.have_creds /\ st'.port = None
  BY Zenon DEF NewSession, Empty
<1>4. \A t \in Senders : cmd[t].pc # "idle" => cmd[t].snap.generation < st'.generation
  BY <1>1, <1>3, DacpAssumption DEF States
<1>5. UNCHANGED cmd
  BY Zenon DEF NewSession
<1>6. \A t \in Senders : cmd'[t].pc # "idle" =>
         cmd'[t].snap.generation \in Nat /\ cmd'[t].snap.generation < st'.generation
  BY <1>4, <1>5, DacpAssumption DEF States
<1> QED  BY <1>1, <1>2, <1>3, <1>5, <1>6 DEF PortOfSession

\* The RTSP thread captures credentials, or starts a new session.
LEMMA CaptureInv ==
  ASSUME DacpInv, CaptureInvalid \/ (\E id \in Ids, active_remote \in Tokens : Capture(id, active_remote))
  PROVE  DacpInv'
<1> USE DEF DacpInv, DacpTypes
<1>1. CASE CaptureInvalid
  BY <1>1, Zenon DEF CaptureInvalid, States, PortOfSession, OfSession
<1>2. ASSUME NEW id \in Ids, NEW active_remote \in Tokens, Capture(id, active_remote)
      PROVE  DacpInv'
  <2> DEFINE same == st.have_creds /\ st.id = id /\ st.token = active_remote
             port == IF same THEN st.port ELSE None
             port_gen == IF same THEN st.port_gen ELSE 0
  <2>1. port \in Ids \cup {None} /\ port_gen \in 0 .. MAX_GEN
    BY DacpAssumption DEF States
  <2>2. st' = [st EXCEPT !.peer = client, !.have_creds = TRUE, !.id = id, !.token = active_remote,
                         !.port = port, !.port_gen = port_gen]
    BY <1>2, Zenon DEF Capture, States
  <2>3. st' \in States /\ st'.generation = st.generation
    <3> HIDE DEF port, port_gen
    <3> QED  BY <2>1, <2>2, Zenon DEF States
  <2>4. st'.id \in seen' /\ st'.peer = client' /\ seen \subseteq seen' /\ UNCHANGED <<client, cmd>>
    BY <1>2, Zenon DEF Capture, States
  <2>5. PortOfSession'
    BY <1>2, Zenon DEF Capture, States, PortOfSession
  <2> QED  BY <2>3, <2>4, <2>5, Zenon DEF OfSession
<1> QED  BY <1>1, <1>2, Zenon

\* A command thread takes its snapshot, resolves, publishes and sends.
LEMMA CommandInv ==
  ASSUME DacpInv, NEW t \in Senders,
         Snapshot(t) \/ Resolve(t) \/ Publish(t) \/ Guard(t) \/ Send(t)
  PROVE  DacpInv'
<1> USE DEF DacpInv, DacpTypes
<1>1. Idle \in [pc : Steps, snap : States, port : Ids \cup {None}] /\ Idle.pc = "idle"
  BY EmptyIsState, DacpAssumption DEF Idle, Steps
<1>2. CASE Snapshot(t)
  BY <1>2, DacpAssumption DEF Snapshot, States, Steps, PortOfSession, OfSession
<1>3. CASE Resolve(t)
  BY <1>1, <1>3, SMTT(30) DEF Resolve, Steps, PortOfSession, OfSession, States
<1>4. CASE Publish(t)
  <2>1. st' \in States /\ st'.generation = st.generation /\ UNCHANGED <<client, seen>>
        /\ st'.have_creds = st.have_creds /\ st'.id = st.id /\ st'.peer = st.peer
    BY <1>4, Zenon DEF Publish, States, Steps
  <2>2. PortOfSession'
    BY <1>4, Zenon DEF Publish, States, Steps, PortOfSession, OfSession
  <2>3. cmd' \in [Senders -> [pc : Steps, snap : States, port : Ids \cup {None}]]
    BY <1>4, Zenon DEF Publish, Steps
  <2>4. \A u \in Senders : /\ cmd'[u].snap = cmd[u].snap /\ cmd'[u].port = cmd[u].port
                           /\ \/ cmd'[u].pc = cmd[u].pc
                              \/ cmd[u].pc = "publish" /\ cmd'[u].pc = "guard"
    BY <1>4, Zenon DEF Publish, States, Steps
  <2> QED  BY <2>1, <2>2, <2>3, <2>4 DEF OfSession
<1>5. CASE Guard(t)
  <2>1. CASE StillCurrent(cmd[t].snap)
    <3> DEFINE sent == [cmd[t] EXCEPT !.pc = "send", !.snap = st]
    <3>1. cmd' = [cmd EXCEPT ![t] = sent] /\ UNCHANGED <<st, client, seen>>
      BY <1>5, <2>1, Zenon DEF Guard
    <3>2. /\ sent \in [pc : Steps, snap : States, port : Ids \cup {None}]
          /\ sent.snap = st /\ sent.port = cmd[t].port /\ sent.pc = "send"
      BY Zenon DEF Steps
    <3>3. cmd[t].port \in seen /\ st.id \in seen /\ st.peer = client
      BY <1>5, <2>1, Zenon DEF Guard, StillCurrent, OfSession
    <3> HIDE DEF sent
    <3> QED  BY <3>1, <3>2, <3>3, DacpAssumption DEF PortOfSession, OfSession, States
  <2>2. CASE ~StillCurrent(cmd[t].snap)
    BY <1>1, <1>5, <2>2, Zenon DEF Guard, PortOfSession, OfSession
  <2> QED  BY <2>1, <2>2, Zenon
<1>6. CASE Send(t)
  BY <1>1, <1>6, Zenon DEF Send, PortOfSession, OfSession
<1> QED  BY <1>2, <1>3, <1>4, <1>5, <1>6, Zenon

\* DacpInv holds in every reachable state.
THEOREM DacpInvariant == Spec => []DacpInv
<1>1. DacpInv /\ [Next]_vars => DacpInv'
  <2> SUFFICES ASSUME DacpInv, [Next]_vars PROVE DacpInv'
    OBVIOUS
  <2>1. ASSUME NEW p \in Peers, Accept(p) PROVE DacpInv'
    BY <2>1, NewSessionInv, Zenon DEF Accept
  <2>2. CASE Announce \/ Teardown
    BY <2>2, NewSessionInv, Zenon DEF Announce, Teardown, DacpInv, DacpTypes
  <2>3. CASE (\E t \in Senders : Ignore(t)) \/ UNCHANGED vars
    BY <2>3, Zenon DEF Ignore, vars, DacpInv, DacpTypes, PortOfSession, OfSession
  <2> QED  BY <2>1, <2>2, <2>3, CaptureInv, CommandInv, Zenon DEF Next
<1> QED  BY <1>1, DacpInitInv, PTL DEF Spec

\* No answer of an earlier session's resolve is ever cached for a later one.
THEOREM PortIsOfSession == Spec => []PortOfSession
<1>1. DacpInv => PortOfSession
  BY Zenon DEF DacpInv
<1> QED  BY <1>1, DacpInvariant, PTL

\* The request about to be sent is addressed to a controller of the session,
\* at the connected client's address, with the token that goes with it.
THEOREM SendIsCoherent == Spec => []SendCoherent
<1>1. DacpInv => SendCoherent
  BY Zenon DEF DacpInv, SendCoherent, OfSession
<1> QED  BY <1>1, DacpInvariant, PTL

-----------------------------------------------------------------------------
\* A step of the control thread, of main or of the supervisor is, for the
\* credentials and the commands, a step of Dacp or none at all.
LEMMA ControlStep == ControlNext => [Next]_vars
<1> SUFFICES ASSUME ControlNext PROVE [Next]_vars
  OBVIOUS
<1>1. CASE Thread
  <2>1. CASE CtlStarts \/ CtlChecks \/ CtlTimesOut \/ CtlReceives
    BY <2>1, Zenon DEF CtlStarts, CtlChecks, CtlTimesOut, CtlReceives, vars
  <2>2. CASE CtlSends
    BY <2>2, DacpControlAssumption, Zenon DEF CtlSends, Next
  <2> QED  BY <1>1, <2>1, <2>2, Zenon DEF Thread
<1>2. CASE ProbeSends
  BY <1>2, Zenon DEF ProbeSends, Next
<1>3. CASE Serves
  BY <1>3, Zenon DEF Serves, Next
<1>4. CASE Relay \/ Stop
  BY <1>4, Zenon DEF Relay, Stop, vars
<1>5. CASE Joined
  BY <1>5, Zenon DEF Joined, Next
<1> QED  BY <1>1, <1>2, <1>3, <1>4, <1>5, Zenon DEF ControlNext

\* The daemon's threads implement the abstract protocol of credentials and
\* commands: what dacp_control_thread, the self-probe and main's shutdown do is
\* some behaviour of module Dacp.
THEOREM ControlImplementsDacp == ControlSpec => Spec
<1>1. ControlInit => Init
  BY Zenon DEF ControlInit
<1>2. [ControlNext]_allVars => [Next]_vars
  BY ControlStep, Zenon DEF allVars
<1> QED  BY <1>1, <1>2, PTL DEF ControlSpec, Spec

\* With the control thread, its queue of tokens and the shutdown in place, no
\* old session's port is cached in a new one.
THEOREM ControlPortIsOfSession == ControlSpec => []PortOfSession
  BY ControlImplementsDacp, PortIsOfSession, PTL

\* And whatever token it holds, the control thread sends a request that
\* belongs together.
THEOREM ControlSendIsCoherent == ControlSpec => []SendCoherent
  BY ControlImplementsDacp, SendIsCoherent, PTL

\* The steps the control thread may still take before it sees the stop flag.
CommandLeft(pc) ==
  CASE pc = "resolve" -> 5 [] pc = "publish" -> 4 [] pc = "guard" -> 3 [] pc = "send" -> 2 [] OTHER -> 0
ControlLeft ==
  CASE ctl = "poll" -> 7 [] ctl = "call" -> 6 [] ctl = "busy" -> CommandLeft(cmd[Ctl].pc)
    [] ctl = "start" -> 2 [] ctl = "check" -> 1 [] OTHER -> 0

\* After run_loop each step of the thread leaves it fewer, and no other step
\* leaves it more.
ControlShort ==
  main # "loop" =>
    /\ ControlLeft \in 0 .. 7 /\ ControlLeft' <= ControlLeft
    /\ Thread => ControlLeft' < ControlLeft

\* A step of the command in hand.
LEMMA CommandAdvances ==
  ASSUME DacpInv, CtlSends
  PROVE  ControlLeft' \in Int /\ ControlLeft' < ControlLeft
<1> USE DacpControlAssumption
<1>1. cmd \in [Senders -> [pc : Steps, snap : States, port : Ids \cup {None}]]
  BY Zenon DEF DacpInv, DacpTypes
<1>2. ctl' = IF cmd'[Ctl].pc = "idle" THEN "check" ELSE "busy"
  BY Zenon DEF CtlSends
<1>3. CASE ctl = "call"
  <2>1. cmd'[Ctl].pc \in {"idle", "resolve", "guard"}
    BY <1>1, <1>3 DEF CtlSends, Snapshot, Ignore, vars
  <2> QED  BY <1>2, <1>3, <2>1 DEF ControlLeft, CommandLeft
<1>4. CASE ctl = "busy"
  <2>1. CASE Resolve(Ctl)
    <3>1. cmd[Ctl].pc = "resolve" /\ cmd'[Ctl].pc \in {"publish", "idle"}
      BY <1>1, <2>1 DEF Resolve, Idle
    <3> QED  BY <1>2, <1>4, <3>1 DEF ControlLeft, CommandLeft
  <2>2. CASE Publish(Ctl)
    <3>1. cmd[Ctl].pc = "publish" /\ cmd'[Ctl].pc = "guard"
      BY <1>1, <2>2, Zenon DEF Publish
    <3> QED  BY <1>2, <1>4, <3>1 DEF ControlLeft, CommandLeft
  <2>3. CASE Guard(Ctl)
    <3>1. cmd[Ctl].pc = "guard" /\ cmd'[Ctl].pc \in {"send", "idle"}
      BY <1>1, <2>3, Zenon DEF Guard, Idle
    <3> QED  BY <1>2, <1>4, <3>1 DEF ControlLeft, CommandLeft
  <2>4. CASE Send(Ctl)
    <3>1. cmd[Ctl].pc = "send" /\ cmd'[Ctl].pc = "idle"
      BY <1>1, <2>4, Zenon DEF Send, Idle
    <3> QED  BY <1>2, <1>4, <3>1 DEF ControlLeft, CommandLeft
  <2> QED  BY <1>4, <2>1, <2>2, <2>3, <2>4, Zenon DEF CtlSends
<1> QED  BY <1>3, <1>4, Zenon DEF CtlSends

\* Once run_loop has ended, dacp_control_thread takes at most seven more steps,
\* whatever is queued on control.sock, whatever the supervisor goes on sending
\* and wherever in dacp_send_command the thread was: main's pthread_join waits
\* for one poll and one command at most.
THEOREM ControlStopIsShort == ControlSpec => [][ControlShort]_allVars
<1>1. DacpInv /\ [ControlNext]_allVars => [ControlShort]_allVars
  <2> SUFFICES ASSUME DacpInv, ControlNext, main # "loop"
               PROVE  /\ ControlLeft \in 0 .. 7 /\ ControlLeft' <= ControlLeft
                      /\ Thread => ControlLeft' < ControlLeft
    BY Zenon DEF ControlShort
  <2>1. ControlLeft \in 0 .. 7
    BY DEF ControlLeft, CommandLeft
  <2>2. Thread => ControlLeft' \in Int /\ ControlLeft' < ControlLeft
    <3>1. CASE CtlStarts \/ CtlChecks \/ CtlTimesOut \/ CtlReceives
      BY <3>1 DEF CtlStarts, CtlChecks, CtlTimesOut, CtlReceives, ControlLeft, CommandLeft
    <3> QED  BY <3>1, CommandAdvances, Zenon DEF Thread
  <2>3. CASE ctl' = ctl /\ cmd'[Ctl] = cmd[Ctl]
    <3>1. ControlLeft' = ControlLeft
      BY <2>3, Zenon DEF ControlLeft, CommandLeft
    <3> QED  BY <2>1, <2>2, <3>1
  <2>4. CASE ProbeSends
    <3>1. PICK t \in Senders \ {Ctl} :
            Snapshot(t) \/ Ignore(t) \/ Resolve(t) \/ Publish(t) \/ Guard(t) \/ Send(t)
      BY <2>4, Zenon DEF ProbeSends
    <3>2. cmd'[Ctl] = cmd[Ctl]
      BY <3>1, DacpControlAssumption, Zenon
         DEF DacpInv, DacpTypes, Snapshot, Ignore, Resolve, Publish, Guard, Send, vars
    <3> QED  BY <2>3, <2>4, <3>2, Zenon DEF ProbeSends, ctlVars
  <2>5. CASE Relay \/ Joined
    <3>1. UNCHANGED <<ctl, cmd>>
      BY <2>5, Zenon DEF Relay, Joined, Teardown, NewSession, vars
    <3> QED  BY <2>3, <3>1, Zenon
  <2>6. ~Serves /\ ~Stop
    BY Zenon DEF Serves, Stop
  <2> QED  BY <2>1, <2>2, <2>4, <2>5, <2>6 DEF ControlNext
<1> QED  BY <1>1, ControlImplementsDacp, DacpInvariant, PTL DEF ControlSpec

-----------------------------------------------------------------------------
\* A nonempty set of naturals has a least member: what the inductions below use.
LEMMA LeastNat ==
  ASSUME NEW T \in SUBSET Nat, T # {}
  PROVE  \E x \in T : \A y \in T : x <= y
<1> DEFINE R == OpToRel(<, Nat)
<1>1. \A x, y \in Nat : <<y, x>> \in R <=> y < x
  BY Zenon DEF OpToRel
<1>2. IsWellFoundedOn(R, Nat)
  BY NatLessThanWellFounded, Zenon
<1> HIDE DEF R
<1>3. PICK x \in T : \A y \in T : ~(<<y, x>> \in R)
  BY <1>2, WFMin, Zenon
<1>4. ASSUME NEW y \in T PROVE x <= y
  <2>1. x \in Nat /\ y \in Nat /\ ~(y < x)
    BY <1>1, <1>3, Zenon
  <2> QED  BY <2>1
<1> QED  BY <1>4, Zenon

Events == {"HEARTBEAT", "NONE"}

\* The buffer b and the events es are what the bytes s leave behind: the last,
\* unfinished line starts at p.
Buffered(s, b, es) ==
  /\ EventsOf(s, es)
  /\ \E p \in 1 .. Len(s) + 1 :
       /\ p = 1 \/ s[p - 1] = NL
       /\ \A j \in p .. Len(s) : s[j] # NL
       /\ b = IF Len(s) - p < LB_MAX THEN Buffer(SubSeq(s, p, Len(s)))
              ELSE Overlong

\* One more byte leaves the lines that have ended as they are.
LEMMA LinesKept ==
  ASSUME NEW s \in Seq(Bytes), NEW c \in Bytes, NEW i \in 1 .. Len(s), NEW p \in 1 .. i
  PROVE  IsLine(Append(s, c), p, i) <=> IsLine(s, p, i)
<1> DEFINE t == Append(s, c)
<1>1. \A j \in 1 .. Len(s) : t[j] = s[j]
  OBVIOUS
<1>2. Len(s) \in Nat
  OBVIOUS
<1> HIDE DEF t
<1>3. t[i] = s[i] /\ (p = 1 \/ t[p - 1] = s[p - 1]) /\ \A j \in p .. i - 1 : t[j] = s[j]
  BY <1>1, <1>2
<1>4. IsLine(t, p, i) <=> IsLine(s, p, i)
  BY <1>3, Zenon DEF IsLine
<1> QED  BY <1>4, Zenon DEF t

\* Only a line that the byte ends can join those that fit.
LEMMA FittingKept ==
  ASSUME NEW s \in Seq(Bytes), NEW c \in Bytes
  PROVE  /\ Fitting(s) \subseteq Fitting(Append(s, c))
         /\ Fitting(Append(s, c)) \subseteq Fitting(s) \cup {Len(s) + 1}
         /\ IsFiniteSet(Fitting(s)) /\ Fitting(s) \subseteq 1 .. Len(s)
<1> DEFINE t == Append(s, c)
<1>1. Len(t) = Len(s) + 1 /\ Len(s) \in Nat
  OBVIOUS
<1>2. \A i \in 1 .. Len(s) : \A p \in 1 .. i : IsLine(t, p, i) <=> IsLine(s, p, i)
  BY LinesKept, Zenon
<1> HIDE DEF t
<1>3. Fitting(s) \subseteq Fitting(t) /\ Fitting(t) \subseteq Fitting(s) \cup {Len(s) + 1}
  BY <1>1, <1>2 DEF Fitting
<1>4. IsFiniteSet(1 .. Len(s))
  BY <1>1, FS_Interval
<1>5. Fitting(s) \subseteq 1 .. Len(s)
  BY Zenon DEF Fitting
<1>6. IsFiniteSet(Fitting(s))
  BY <1>4, <1>5, FS_Subset, Zenon
<1> QED  BY <1>3, <1>5, <1>6, Zenon DEF t

\* The number of a line that fits is that of its event.
LEMMA RankBounds ==
  ASSUME NEW s \in Seq(Bytes), NEW i \in Fitting(s)
  PROVE  Cardinality({j \in Fitting(s) : j <= i}) \in 1 .. Cardinality(Fitting(s))
<1> DEFINE U == {j \in Fitting(s) : j <= i}
<1>1. IsFiniteSet(Fitting(s)) /\ Fitting(s) \subseteq 1 .. Len(s)
  BY FittingKept, Zenon DEF Bytes
<1>2. U \subseteq Fitting(s) /\ i \in U
  BY <1>1
<1> HIDE DEF U
<1>3. IsFiniteSet(U) /\ Cardinality(U) <= Cardinality(Fitting(s))
  BY <1>1, <1>2, FS_Subset, Zenon
<1>4. Cardinality(U) \in Nat /\ Cardinality(Fitting(s)) \in Nat
  BY <1>1, <1>3, FS_CardinalityType, Zenon
<1>5. Cardinality(U) # 0
  BY <1>2, <1>3, FS_EmptySet, Zenon
<1>6. Cardinality(U) \in 1 .. Cardinality(Fitting(s))
  BY <1>3, <1>4, <1>5
<1> QED  BY <1>6, Zenon DEF U

\* A byte that ends no line that fits leaves the events alone.
LEMMA EventsKept ==
  ASSUME NEW s \in Seq(Bytes), NEW c \in Bytes, NEW es, EventsOf(s, es),
         Len(s) + 1 \notin Fitting(Append(s, c))
  PROVE  EventsOf(Append(s, c), es)
<1> DEFINE t == Append(s, c)
<1>1. Len(t) = Len(s) + 1 /\ Len(s) \in Nat
  OBVIOUS
<1>2. Fitting(t) = Fitting(s)
  BY FittingKept, Zenon
<1>3. \A i \in 1 .. Len(s) : \A p \in 1 .. i :
        (IsLine(t, p, i) <=> IsLine(s, p, i)) /\ SubSeq(t, p, i - 1) = SubSeq(s, p, i - 1)
  <2> SUFFICES ASSUME NEW i \in 1 .. Len(s), NEW p \in 1 .. i
               PROVE  (IsLine(t, p, i) <=> IsLine(s, p, i)) /\ SubSeq(t, p, i - 1) = SubSeq(s, p, i - 1)
    OBVIOUS
  <2>1. SubSeq(t, p, i - 1) = SubSeq(s, p, i - 1)
    OBVIOUS
  <2> QED  BY <2>1, LinesKept, Zenon
<1> HIDE DEF t
<1>4. ASSUME NEW i \in 1 .. Len(t), NEW p \in 1 .. i, IsLine(t, p, i), i - p <= LB_MAX
      PROVE  i \in 1 .. Len(s) /\ p \in 1 .. i
  <2>1. i \in Fitting(t)
    BY <1>4, Zenon DEF Fitting
  <2> QED  BY <1>1, <2>1 DEF t
<1>5. EventsOf(t, es)
  BY <1>2, <1>3, <1>4, Zenon DEF EventsOf
<1> QED  BY <1>5, Zenon DEF t

\* A line that fits adds its event.
LEMMA EventAdded ==
  ASSUME NEW s \in Seq(Bytes), NEW es \in Seq(Events), EventsOf(s, es),
         NEW p \in 1 .. Len(s) + 1, p = 1 \/ s[p - 1] = NL,
         \A j \in p .. Len(s) : s[j] # NL, Len(s) - p < LB_MAX
  PROVE  EventsOf(Append(s, NL), Append(es, sup_classify_line(SubSeq(s, p, Len(s)))))
<1> DEFINE t == Append(s, NL)
           n == Len(s) + 1
           e == sup_classify_line(SubSeq(s, p, Len(s)))
<1> USE LineBufferAssumption
<1>0. NL \in Bytes
  BY Zenon DEF Bytes
<1>1. Len(t) = n /\ Len(s) \in Nat /\ t[n] = NL /\ \A j \in 1 .. Len(s) : t[j] = s[j]
  OBVIOUS
<1>2. \A q \in 1 .. n : SubSeq(t, q, Len(s)) = SubSeq(s, q, Len(s))
  OBVIOUS
<1>3. \A i \in 1 .. Len(s) : \A q \in 1 .. i :
        (IsLine(t, q, i) <=> IsLine(s, q, i)) /\ SubSeq(t, q, i - 1) = SubSeq(s, q, i - 1)
  <2> SUFFICES ASSUME NEW i \in 1 .. Len(s), NEW q \in 1 .. i
               PROVE  (IsLine(t, q, i) <=> IsLine(s, q, i)) /\ SubSeq(t, q, i - 1) = SubSeq(s, q, i - 1)
    OBVIOUS
  <2>1. SubSeq(t, q, i - 1) = SubSeq(s, q, i - 1)
    OBVIOUS
  <2> QED  BY <1>0, <2>1, LinesKept, Zenon
<1>4. /\ Fitting(s) \subseteq Fitting(t) /\ Fitting(t) \subseteq Fitting(s) \cup {n}
      /\ IsFiniteSet(Fitting(s)) /\ Fitting(s) \subseteq 1 .. Len(s)
  BY <1>0, FittingKept, Zenon
<1> HIDE DEF t, e
<1>5. IsLine(t, p, n) /\ n - p <= LB_MAX
  <2>1. p \in Nat /\ n - p <= LB_MAX /\ (p = 1 \/ p - 1 \in 1 .. Len(s))
    BY <1>1
  <2>2. p = 1 \/ t[p - 1] = NL
    BY <1>1, <2>1, Zenon
  <2>3. \A j \in p .. n - 1 : t[j] # NL
    BY <1>1, <2>1
  <2> QED  BY <1>1, <2>1, <2>2, <2>3, Zenon DEF IsLine
<1>6. \A q \in 1 .. n : IsLine(t, q, n) => q = p
  <2> SUFFICES ASSUME NEW q \in 1 .. n, IsLine(t, q, n), q # p PROVE FALSE
    OBVIOUS
  <2>1. CASE q < p
    BY <1>1, <2>1 DEF IsLine
  <2>2. CASE p < q
    BY <1>1, <2>2 DEF IsLine
  <2> QED  BY <1>1, <2>1, <2>2
<1>7. n \in Fitting(t)
  BY <1>1, <1>5 DEF Fitting
<1>8. Fitting(t) = Fitting(s) \cup {n} /\ n \notin Fitting(s)
  BY <1>1, <1>4, <1>7
<1>9. Cardinality(Fitting(t)) = Cardinality(Fitting(s)) + 1 /\ Cardinality(Fitting(s)) \in Nat
  BY <1>4, <1>8, FS_AddElement, FS_CardinalityType, Zenon
<1>10. Len(es) = Cardinality(Fitting(s))
  BY Zenon DEF EventsOf
<1>11. /\ Len(Append(es, e)) = Cardinality(Fitting(t))
       /\ Append(es, e)[Cardinality(Fitting(t))] = e
       /\ \A k \in 1 .. Cardinality(Fitting(s)) : Append(es, e)[k] = es[k]
  BY <1>9, <1>10
<1>12. ASSUME NEW i \in 1 .. Len(t), NEW q \in 1 .. i, IsLine(t, q, i), i - q <= LB_MAX
       PROVE  Append(es, e)[Cardinality({j \in Fitting(t) : j <= i})] = sup_classify_line(SubSeq(t, q, i - 1))
  <2>1. CASE i = n
    <3>1. {j \in Fitting(t) : j <= i} = Fitting(t)
      BY <1>1, <1>4, <2>1, SMTT(30)
    <3>2. q = p /\ i - 1 = Len(s)
      BY <1>1, <1>6, <1>12, <2>1
    <3> QED  BY <1>2, <1>11, <3>1, <3>2, Zenon DEF e
  <2>2. CASE i # n
    <3>1. i \in 1 .. Len(s) /\ i \in Fitting(s) /\ IsLine(s, q, i)
      BY <1>1, <1>3, <1>12, <2>2 DEF Fitting
    <3>2. {j \in Fitting(t) : j <= i} = {j \in Fitting(s) : j <= i}
      BY <1>1, <1>4, <3>1
    <3>3. Cardinality({j \in Fitting(s) : j <= i}) \in 1 .. Cardinality(Fitting(s))
      BY <3>1, RankBounds, Zenon
    <3>4. es[Cardinality({j \in Fitting(s) : j <= i})] = sup_classify_line(SubSeq(s, q, i - 1))
      BY <1>12, <3>1, Zenon DEF EventsOf
    <3> QED  BY <1>3, <1>11, <3>1, <3>2, <3>3, <3>4, Zenon
  <2> QED  BY <2>1, <2>2, Zenon
<1>13. EventsOf(t, Append(es, e))
  BY <1>11, <1>12, Zenon DEF EventsOf
<1> QED  BY <1>13, Zenon DEF t, e

LineStates == [line : Seq(Bytes), discarding : BOOLEAN]
PushStates == [lb : LineStates, evs : Seq(Events)]

\* The two kinds of buffer: the line so far, or the rest of an overlong one.
LEMMA BufferKinds ==
  /\ \A line \in Seq(Bytes) : /\ Buffer(line) \in LineStates /\ Buffer(line).line = line
                             /\ ~Buffer(line).discarding
  /\ Overlong \in LineStates /\ Overlong.discarding
<1>1. <<>> \in Seq(Bytes)
  OBVIOUS
<1>2. FALSE \in BOOLEAN /\ TRUE \in BOOLEAN
  OBVIOUS
<1> QED  BY <1>1, <1>2, Zenon DEF Buffer, Overlong, LineStates

\* What a push makes of a byte.
LEMMA PushByteCases ==
  ASSUME NEW r \in PushStates, NEW c
  PROVE  /\ r.lb.discarding => /\ PushByte(r, c).evs = r.evs
                              /\ PushByte(r, c).lb = IF c = NL THEN Buffer(<<>>) ELSE r.lb
         /\ ~r.lb.discarding /\ c = NL /\ Len(r.evs) < READ =>
              /\ PushByte(r, c).lb = Buffer(<<>>)
              /\ PushByte(r, c).evs = Append(r.evs, sup_classify_line(r.lb.line))
         /\ ~r.lb.discarding /\ c # NL =>
              /\ PushByte(r, c).evs = r.evs
              /\ PushByte(r, c).lb = IF Len(r.lb.line) < LB_MAX THEN Buffer(Append(r.lb.line, c)) ELSE Overlong
         /\ PushByte(r, c).lb \in LineStates /\ PushByte(r, c).evs \in Seq(Events) => PushByte(r, c) \in PushStates
<1>1. r = [lb |-> r.lb, evs |-> r.evs]
  BY Zenon DEF PushStates
<1>2. \A b : [r EXCEPT !.lb = b] = [lb |-> b, evs |-> r.evs]
  BY <1>1
<1>3. PushByte(r, c) = [lb |-> PushByte(r, c).lb, evs |-> PushByte(r, c).evs]
  BY <1>1, <1>2, Zenon DEF PushByte
<1>4. PushByte(r, c).lb \in LineStates /\ PushByte(r, c).evs \in Seq(Events) => PushByte(r, c) \in PushStates
  BY <1>3, Zenon DEF PushStates
<1> QED  BY <1>1, <1>2, <1>4, Zenon DEF PushByte, sup_lb_init

\* An event is appended to the events of earlier reads.
LEMMA ConcatAppend ==
  ASSUME NEW x \in Seq(Events), NEW y \in Seq(Events), NEW e \in Events
  PROVE  Append(x \o y, e) = x \o Append(y, e)
OBVIOUS

\* One byte: the buffer and the events stay those of the bytes pushed so far, as
\* long as there is room in evs.
LEMMA PushByteKeeps ==
  ASSUME NEW s \in Seq(Bytes), NEW c \in Bytes, NEW es \in Seq(Events), NEW r \in PushStates,
         Len(r.evs) < READ, Buffered(s, r.lb, es \o r.evs)
  PROVE  /\ PushByte(r, c) \in PushStates
         /\ Len(PushByte(r, c).evs) <= Len(r.evs) + 1
         /\ Buffered(Append(s, c), PushByte(r, c).lb, es \o PushByte(r, c).evs)
<1> DEFINE t == Append(s, c)
           q == PushByte(r, c)
<1> USE LineBufferAssumption
<1>1. PICK p \in 1 .. Len(s) + 1 :
        /\ p = 1 \/ s[p - 1] = NL
        /\ \A j \in p .. Len(s) : s[j] # NL
        /\ r.lb = IF Len(s) - p < LB_MAX THEN Buffer(SubSeq(s, p, Len(s)))
                  ELSE Overlong
  BY Zenon DEF Buffered
<1>2. EventsOf(s, es \o r.evs)
  BY Zenon DEF Buffered
<1>3. /\ Len(t) = Len(s) + 1 /\ Len(s) \in Nat /\ t[Len(s) + 1] = c
      /\ \A j \in 1 .. Len(s) : t[j] = s[j]
  OBVIOUS
<1>4. r.lb \in LineStates /\ r.evs \in Seq(Events) /\ Len(r.evs) \in Nat
  BY DEF PushStates
<1>5. Len(SubSeq(s, p, Len(s))) = Len(s) + 1 - p /\ SubSeq(s, p, Len(s)) \in Seq(Bytes)
  BY <1>3
<1>6. es \o r.evs \in Seq(Events)
  BY <1>4
<1>7. /\ r.lb.discarding => q.evs = r.evs /\ q.lb = IF c = NL THEN Buffer(<<>>) ELSE r.lb
      /\ ~r.lb.discarding /\ c = NL => q.lb = Buffer(<<>>) /\ q.evs = Append(r.evs, sup_classify_line(r.lb.line))
      /\ ~r.lb.discarding /\ c # NL =>
           /\ q.evs = r.evs
           /\ q.lb = IF Len(r.lb.line) < LB_MAX THEN Buffer(Append(r.lb.line, c)) ELSE Overlong
      /\ q.lb \in LineStates /\ q.evs \in Seq(Events) => q \in PushStates
  BY PushByteCases, Zenon
<1>8. Len(s) + 1 \notin Fitting(t) => EventsOf(t, es \o r.evs)
  BY <1>2, EventsKept, Zenon
<1>9. SubSeq(t, p, Len(t)) = Append(SubSeq(s, p, Len(s)), c) /\ SubSeq(t, p, Len(t)) \in Seq(Bytes)
  BY <1>3, SMTT(30)
<1> HIDE DEF q, t
<1>10. SUFFICES q \in PushStates /\ Len(q.evs) <= Len(r.evs) + 1 /\ Buffered(t, q.lb, es \o q.evs)
  BY Zenon DEF q, t
<1>11. CASE c # NL
  <2>1. Len(s) + 1 \notin Fitting(t)
    BY <1>3, <1>11, Zenon DEF Fitting, IsLine
  <2>2. EventsOf(t, es \o r.evs)
    BY <1>8, <2>1, Zenon
  <2>3. p \in 1 .. Len(t) + 1 /\ (p = 1 \/ t[p - 1] = NL) /\ \A j \in p .. Len(t) : t[j] # NL
    <3>1. p \in 1 .. Len(t) + 1 /\ (p = 1 \/ t[p - 1] = s[p - 1])
      BY <1>3
    <3>2. \A j \in p .. Len(t) : j = Len(s) + 1 \/ (j \in p .. Len(s) /\ t[j] = s[j])
      BY <1>3
    <3> QED  BY <1>1, <1>3, <1>11, <3>1, <3>2, Zenon
  <2>4. CASE Len(s) - p < LB_MAX
    <3>1. r.lb.line = SubSeq(s, p, Len(s)) /\ ~r.lb.discarding
      BY <1>1, <1>5, <2>4, BufferKinds, Zenon
    <3>2. q.evs = r.evs
      BY <1>7, <1>11, <3>1, Zenon
    <3>3. q.lb = IF Len(s) + 1 - p < LB_MAX THEN Buffer(SubSeq(t, p, Len(t))) ELSE Overlong
      BY <1>5, <1>7, <1>9, <1>11, <3>1, Zenon
    <3>4. Len(s) + 1 - p = Len(t) - p
      BY <1>3
    <3>5. q.lb = IF Len(t) - p < LB_MAX THEN Buffer(SubSeq(t, p, Len(t))) ELSE Overlong
      BY <3>3, <3>4, Zenon
    <3>6. q.lb \in LineStates
      BY <1>9, <3>3, BufferKinds, Zenon
    <3>7. Buffered(t, q.lb, es \o q.evs)
      BY <2>2, <2>3, <3>2, <3>5, Zenon DEF Buffered
    <3> QED  BY <1>4, <1>7, <3>2, <3>6, <3>7
  <2>5. CASE ~(Len(s) - p < LB_MAX)
    <3>1. r.lb = Overlong /\ ~(Len(t) - p < LB_MAX)
      BY <1>1, <1>3, <2>5
    <3>2. q.evs = r.evs /\ q.lb = Overlong
      BY <1>7, <1>11, <3>1, BufferKinds, Zenon
    <3>3. Buffered(t, q.lb, es \o q.evs)
      BY <2>2, <2>3, <3>1, <3>2, Zenon DEF Buffered
    <3> QED  BY <1>4, <1>7, <3>2, <3>3, BufferKinds
  <2> QED  BY <2>4, <2>5, Zenon
<1>12. CASE c = NL
  <2>1. /\ Len(t) + 1 \in 1 .. Len(t) + 1 /\ t[(Len(t) + 1) - 1] = NL
        /\ \A j \in Len(t) + 1 .. Len(t) : t[j] # NL
    BY <1>3, <1>12
  <2>2. Len(t) - (Len(t) + 1) < LB_MAX /\ SubSeq(t, Len(t) + 1, Len(t)) = <<>> /\ <<>> \in Seq(Bytes)
    BY <1>3 DEF t
  <2>3. q.lb = Buffer(<<>>) /\ q.lb \in LineStates
    BY <1>7, <1>12, <2>2, BufferKinds, Zenon
  <2>4. \A es2 : EventsOf(t, es2) => Buffered(t, q.lb, es2)
    BY <2>1, <2>2, <2>3, Zenon DEF Buffered
  <2>5. CASE Len(s) - p < LB_MAX
    <3>1. r.lb.line = SubSeq(s, p, Len(s)) /\ ~r.lb.discarding
      BY <1>1, <1>5, <2>5, BufferKinds, Zenon
    <3> DEFINE e == sup_classify_line(SubSeq(s, p, Len(s)))
    <3>2. e \in Events
      BY Zenon DEF sup_classify_line, Events
    <3>3. q.evs = Append(r.evs, e)
      BY <1>7, <1>12, <3>1, Zenon
    <3>4. EventsOf(t, Append(es \o r.evs, e))
      BY <1>1, <1>2, <1>6, <1>12, <2>5, EventAdded, Zenon DEF t
    <3> HIDE DEF e
    <3>5. Append(r.evs, e) \in Seq(Events) /\ Len(Append(r.evs, e)) = Len(r.evs) + 1
      BY <1>4, <3>2
    <3>6. Append(es \o r.evs, e) = es \o Append(r.evs, e)
      BY <1>4, <3>2, ConcatAppend, Zenon
    <3>7. Buffered(t, q.lb, es \o q.evs)
      BY <2>4, <3>3, <3>4, <3>6, Zenon
    <3> QED  BY <1>4, <1>7, <2>3, <3>3, <3>5, <3>7
  <2>6. CASE ~(Len(s) - p < LB_MAX)
    <3>1. r.lb = Overlong
      BY <1>1, <2>6, Zenon
    <3>2. q.evs = r.evs
      BY <1>7, <3>1, BufferKinds, Zenon
    <3>3. Len(s) + 1 \notin Fitting(t)
      <4> SUFFICES ASSUME NEW k \in 1 .. Len(s) + 1, IsLine(t, k, Len(s) + 1), Len(s) + 1 - k <= LB_MAX
                   PROVE  FALSE
        BY DEF Fitting
      <4>1. p < k
        BY <1>3, <2>6
      <4>2. k - 1 \in p .. Len(s) /\ s[k - 1] = NL
        BY <1>3, <4>1, SMTT(30) DEF IsLine
      <4> QED  BY <1>1, <4>2, Zenon
    <3>4. Buffered(t, q.lb, es \o q.evs)
      BY <1>8, <2>4, <3>2, <3>3, Zenon
    <3> QED  BY <1>4, <1>7, <2>3, <3>2, <3>4
  <2> QED  BY <2>5, <2>6, Zenon
<1> QED  BY <1>11, <1>12, Zenon

\* f is the table of a run of sup_lb_push from x over the first n bytes of data.
Pushing(f, x, data, n) ==
  f = [i \in 0 .. n |-> IF i = 0 THEN x ELSE PushByte(f[i - 1], data[i])]

\* The recursion that defines a push has a solution: take the least number of
\* bytes without one, and extend the solution of one byte less.
LEMMA PushExists ==
  ASSUME NEW x, NEW data, NEW n \in Nat
  PROVE  \E f : Pushing(f, x, data, n)
<1> USE DEF Pushing
<1> DEFINE Ok(m) == \E f : f = [i \in 0 .. m |-> IF i = 0 THEN x ELSE PushByte(f[i - 1], data[i])]
           T == {m \in Nat : ~Ok(m)}
<1>0. SUFFICES ASSUME T # {} PROVE FALSE
  BY Zenon
<1>1. PICK m \in T : \A y \in T : m <= y
  <2>1. T \in SUBSET Nat
    OBVIOUS
  <2> HIDE DEF T
  <2> QED  BY <1>0, <2>1, LeastNat, Zenon
<1>2. m # 0
  <2>1. Ok(0)
    <3> DEFINE g == [i \in 0 .. 0 |-> x]
    <3>1. g = [i \in 0 .. 0 |-> IF i = 0 THEN x ELSE PushByte(g[i - 1], data[i])]
      OBVIOUS
    <3> HIDE DEF g
    <3> QED BY <3>1, Zenon
  <2> QED BY <2>1, Zenon
<1>3. m - 1 \in Nat /\ m - 1 \notin T /\ m \in Nat
  <2>1. m \in Nat
    BY Zenon DEF T
  <2> HIDE DEF T
  <2> QED  BY <1>1, <1>2, <2>1
<1>4. PICK f : f = [i \in 0 .. m - 1 |-> IF i = 0 THEN x ELSE PushByte(f[i - 1], data[i])]
  BY <1>3, Zenon
<1> DEFINE g == [i \in 0 .. m |-> IF i = 0 THEN x ELSE PushByte(f[i - 1], data[i])]
<1>5. \A i \in 0 .. m - 1 : g[i] = f[i]
  <2> SUFFICES ASSUME NEW i \in 0 .. m - 1 PROVE g[i] = f[i]
    BY Zenon
  <2>1. f[i] = IF i = 0 THEN x ELSE PushByte(f[i - 1], data[i])
    BY <1>3, <1>4, Zenon
  <2> QED  BY <1>3, <2>1
<1>6. \A i \in 0 .. m : i # 0 => g[i - 1] = f[i - 1]
  <2> SUFFICES ASSUME NEW i \in 0 .. m, i # 0 PROVE g[i - 1] = f[i - 1]
    BY Zenon
  <2>1. i - 1 \in 0 .. m - 1
    BY <1>3
  <2> HIDE DEF g
  <2> QED  BY <1>5, <2>1, Zenon
<1>7. g = [i \in 0 .. m |-> IF i = 0 THEN x ELSE PushByte(g[i - 1], data[i])]
  BY <1>3, <1>6, Zenon
<1> HIDE DEF g
<1>8. Ok(m)
  BY <1>7, Zenon
<1> QED  BY <1>1, <1>8, Zenon

\* One read: the buffer and the events stay those of the stream.
LEMMA PushKeeps ==
  ASSUME NEW chunk \in Chunks, NEW b \in LineStates,
         NEW s \in Seq(Bytes), NEW es \in Seq(Events), Buffered(s, b, es)
  PROVE  LET q == sup_lb_push(b, chunk)
         IN  q \in PushStates /\ Buffered(s \o chunk, q.lb, es \o q.evs)
<1> DEFINE N == Len(chunk)
           x == [lb |-> b, evs |-> <<>>]
<1> USE LineBufferAssumption
<1>1. chunk \in Seq(Bytes) /\ N \in 1 .. READ
  <2>1. PICK k \in 1 .. READ : chunk \in [1 .. k -> Bytes]
    BY Zenon DEF Chunks
  <2> QED  BY <2>1
<1>2. PICK f : Pushing(f, x, chunk, N)
  <2>1. N \in Nat
    BY <1>1
  <2> HIDE DEF N, x
  <2> QED  BY <2>1, PushExists, Zenon
<1> DEFINE r == CHOOSE g : g = [i \in 0 .. N |-> IF i = 0 THEN x ELSE PushByte(g[i - 1], chunk[i])]
<1>3. r = [i \in 0 .. N |-> IF i = 0 THEN x ELSE PushByte(r[i - 1], chunk[i])]
  <2> HIDE DEF N, x
  <2> QED  BY <1>2, Zenon DEF Pushing
<1>4. sup_lb_push(b, chunk) = r[N]
  BY Zenon DEF sup_lb_push
<1> HIDE DEF r, N
<1>5. r[0] = x /\ \A i \in 1 .. N : r[i] = PushByte(r[i - 1], chunk[i])
  BY <1>1, <1>3
<1> DEFINE Good(i) == /\ r[i] \in PushStates /\ Len(r[i].evs) <= i
                      /\ Buffered(s \o SubSeq(chunk, 1, i), r[i].lb, es \o r[i].evs)
           T == {i \in 0 .. N : ~Good(i)}
<1>6. T = {}
  <2> SUFFICES ASSUME T # {} PROVE FALSE
    OBVIOUS
  <2>1. PICK m \in T : \A y \in T : m <= y
    <3>1. T \in SUBSET Nat
      BY <1>1
    <3> HIDE DEF T
    <3> QED  BY <3>1, LeastNat, Zenon
  <2>2. Good(0)
    <3>1. r[0] \in PushStates /\ r[0].evs = <<>> /\ r[0].lb = b
      BY <1>5 DEF PushStates
    <3>2. s \o SubSeq(chunk, 1, 0) = s /\ es \o <<>> = es
      BY <1>1
    <3>3. Len(<<>>) <= 0
      OBVIOUS
    <3> QED  BY <3>1, <3>2, <3>3, Zenon
  <2>3. m - 1 \in 0 .. N /\ m \in 1 .. N /\ m - 1 \notin T
    <3>1. m \in 0 .. N /\ m # 0
      BY <2>2, Zenon
    <3> HIDE DEF T
    <3> QED  BY <1>1, <2>1, <3>1
  <2>4. Good(m - 1)
    BY <2>3, Zenon
  <2>5. chunk[m] \in Bytes /\ s \o SubSeq(chunk, 1, m - 1) \in Seq(Bytes)
    BY <1>1, <2>3 DEF N
  <2>6. s \o SubSeq(chunk, 1, m) = Append(s \o SubSeq(chunk, 1, m - 1), chunk[m])
    BY <1>1, <2>3, SMTT(30) DEF N
  <2>7. Len(r[m - 1].evs) < READ /\ Len(r[m - 1].evs) \in Nat
    BY <1>1, <2>3, <2>4, SMTT(30) DEF PushStates
  <2>8. r[m] = PushByte(r[m - 1], chunk[m])
    BY <1>5, <2>3, Zenon
  <2>9. /\ r[m] \in PushStates /\ Len(r[m].evs) <= Len(r[m - 1].evs) + 1
        /\ Buffered(s \o SubSeq(chunk, 1, m), r[m].lb, es \o r[m].evs)
    BY <2>4, <2>5, <2>6, <2>7, <2>8, PushByteKeeps, Zenon
  <2>10. Len(r[m].evs) <= m
    <3>1. Len(r[m].evs) \in Nat
      BY <2>9 DEF PushStates
    <3> QED  BY <2>3, <2>4, <2>7, <2>9, <3>1, SMTT(30)
  <2> QED  BY <2>9, <2>10, Zenon
<1>7. Good(N)
  BY <1>1, <1>6
<1>8. s \o SubSeq(chunk, 1, N) = s \o chunk
  BY <1>1 DEF N
<1> QED  BY <1>4, <1>7, <1>8, Zenon

LinesInv == input \in Seq(Bytes) /\ lb \in LineStates /\ evs \in Seq(Events) /\ Buffered(input, lb, evs)

\* The events of the control channel are those of its lines, for a stream of any
\* length cut into reads of any size up to that of evs.
THEOREM EveryLineIsWhole == LinesSpec => []LinesWhole
<1>1. LinesInit => LinesInv
  <2> SUFFICES ASSUME LinesInit PROVE LinesInv
    OBVIOUS
  <2>1. input = <<>> /\ lb = sup_lb_init /\ evs = <<>> /\ Len(input) = 0 /\ Len(evs) = 0
    BY Zenon DEF LinesInit
  <2>2. Fitting(input) = {}
    BY <2>1 DEF Fitting
  <2>3. EventsOf(input, evs)
    BY <2>1, <2>2, FS_EmptySet DEF EventsOf
  <2>4. SubSeq(input, 1, 0) = <<>>
    BY <2>1
  <2>5. Buffered(input, lb, evs)
    <3>1. 1 \in 1 .. Len(input) + 1 /\ (\A j \in 1 .. Len(input) : FALSE) /\ Len(input) - 1 < LB_MAX
      BY <2>1, LineBufferAssumption
    <3>2. SubSeq(input, 1, Len(input)) = <<>>
      BY <2>1, <2>4, Zenon
    <3> QED  BY <2>1, <2>3, <3>1, <3>2, Zenon DEF Buffered, sup_lb_init
  <2>6. input \in Seq(Bytes) /\ evs \in Seq(Events)
    BY <2>1
  <2>7. lb \in LineStates
    BY <2>1, <2>6, BufferKinds, Zenon DEF sup_lb_init
  <2> QED  BY <2>5, <2>6, <2>7, Zenon DEF LinesInv
<1>2. LinesInv /\ [\E chunk \in Chunks : ReadChunk(chunk)]_lineVars => LinesInv'
  <2> SUFFICES ASSUME LinesInv, [\E chunk \in Chunks : ReadChunk(chunk)]_lineVars PROVE LinesInv'
    OBVIOUS
  <2>1. ASSUME NEW chunk \in Chunks, ReadChunk(chunk) PROVE LinesInv'
    <3> DEFINE q == sup_lb_push(lb, chunk)
    <3>1. q \in PushStates /\ Buffered(input \o chunk, q.lb, evs \o q.evs)
      BY PushKeeps, Zenon DEF LinesInv
    <3>2. lb' = q.lb /\ evs' = evs \o q.evs /\ input' = input \o chunk
      BY <2>1, Zenon DEF ReadChunk
    <3> HIDE DEF q
    <3>3. chunk \in Seq(Bytes)
      BY LineBufferAssumption DEF Chunks
    <3>4. input' \in Seq(Bytes) /\ lb' \in LineStates /\ evs' \in Seq(Events)
      BY <3>1, <3>2, <3>3 DEF LinesInv, PushStates
    <3> QED  BY <3>1, <3>2, <3>4, Zenon DEF LinesInv
  <2>2. CASE UNCHANGED lineVars
    BY <2>2, Zenon DEF LinesInv, lineVars, Buffered, EventsOf
  <2> QED  BY <2>1, <2>2, Zenon
<1>3. LinesInv => LinesWhole
  BY Zenon DEF LinesInv, Buffered, LinesWhole
<1> QED  BY <1>1, <1>2, <1>3, PTL DEF LinesSpec

=============================================================================

-------------------------------- MODULE Dacp --------------------------------
(***************************************************************************)
(* Remote control of the sender: the credential state of dacp_state.c, the *)
(* RTSP thread that captures into it and ends sessions, and the threads    *)
(* that send commands from it (dacp_send_command in dacp_control_thread,   *)
(* and in the self-probe thread of main.c).  The state is read and written *)
(* under its lock; the mDNS query and the connection are made outside it,  *)
(* so the session can change between any two steps of a command.           *)
(*                                                                         *)
(* A controller's port is named by the DACP-ID it belongs to.              *)
(***************************************************************************)
EXTENDS Naturals

CONSTANTS
  Ids, Tokens, Peers,  \* DACP-IDs, Active-Remote tokens, sender addresses
  Senders,             \* threads that may run dacp_send_command
  None,                \* no port, no peer, no credentials
  MAX_GEN              \* bound: generations

ASSUME DacpAssumption == MAX_GEN \in Nat

VARIABLES
  st,      \* g_st: generation, have_creds, id, token, port, port_gen, peer
  client,  \* address of the connected RTSP client
  seen,    \* DACP-IDs captured in the current generation
  cmd      \* per sender: its step, its snapshot and the port it will use

vars == <<st, client, seen, cmd>>

Empty(gen) ==
  [generation |-> gen, have_creds |-> FALSE, id |-> None, token |-> None,
   port |-> None, port_gen |-> 0, peer |-> None]

Idle == [pc |-> "idle", snap |-> Empty(0), port |-> None]

Init ==
  /\ st = Empty(0)
  /\ client = None
  /\ seen = {}
  /\ cmd = [t \in Senders |-> Idle]

-----------------------------------------------------------------------------
\* dacp_state_new_session: on accept, on ANNOUNCE and on teardown, which at
\* shutdown may find no client.
NewSession ==
  /\ st.generation < MAX_GEN
  /\ st' = Empty(st.generation + 1)
  /\ seen' = {}
  /\ UNCHANGED cmd

Accept(p)   == client = None /\ client' = p /\ NewSession
Announce    == client # None /\ NewSession /\ UNCHANGED client
Teardown    == client' = None /\ NewSession

\* dacp_state_capture of a request's headers.
Capture(id, token) ==
  /\ client # None
  /\ st' = [st EXCEPT !.peer = client, !.have_creds = TRUE, !.id = id, !.token = token,
              !.port = IF st.have_creds /\ st.id = id /\ st.token = token THEN @ ELSE None,
              !.port_gen = IF st.have_creds /\ st.id = id /\ st.token = token THEN @ ELSE 0]
  /\ seen' = seen \cup {id}
  /\ UNCHANGED <<client, cmd>>

\* dacp_state_capture of headers that do not validate.
CaptureInvalid ==
  /\ client # None
  /\ st' = [st EXCEPT !.peer = client]
  /\ UNCHANGED <<client, seen, cmd>>

-----------------------------------------------------------------------------
\* dacp_send_command: take a snapshot; use its port if it is of its session.
Snapshot(t) ==
  /\ cmd[t].pc = "idle" /\ st.have_creds
  /\ LET port == IF st.port_gen = st.generation THEN st.port ELSE None IN
     cmd' = [cmd EXCEPT ![t] = [pc |-> IF port = None THEN "resolve" ELSE "guard",
                                snap |-> st, port |-> port]]
  /\ UNCHANGED <<st, client, seen>>

\* dacp_send_command without credentials: the command is ignored.
Ignore(t) == cmd[t].pc = "idle" /\ ~st.have_creds /\ UNCHANGED vars

\* dacp_resolve_port finds the port of the snapshot's DACP-ID, or times out.
Resolve(t) ==
  /\ cmd[t].pc = "resolve"
  /\ \/ cmd' = [cmd EXCEPT ![t].pc = "publish", ![t].port = cmd[t].snap.id]
     \/ cmd' = [cmd EXCEPT ![t] = Idle]
  /\ UNCHANGED <<st, client, seen>>

\* Faulty variant: the port is published whatever the generation.
PublishAnyGen(t) ==
  /\ cmd[t].pc = "publish"
  /\ st' = [st EXCEPT !.port = cmd[t].port, !.port_gen = st.generation]
  /\ cmd' = [cmd EXCEPT ![t].pc = "guard"]
  /\ UNCHANGED <<client, seen>>

\* dacp_state_publish_port: only into the generation it was resolved for.
Publish(t) ==
  /\ cmd[t].pc = "publish"
  /\ st' = IF cmd[t].snap.generation = st.generation
           THEN [st EXCEPT !.port = cmd[t].port, !.port_gen = st.generation]
           ELSE st
  /\ cmd' = [cmd EXCEPT ![t].pc = "guard"]
  /\ UNCHANGED <<client, seen>>

\* Faulty variant: the guard trusts the addresses and forgets the credentials.
StillCurrentPeer(snap) == st.have_creds /\ st.peer = snap.peer

\* The final guard of dacp_send_command: session, credentials and peer are
\* still those of the snapshot.
StillCurrent(snap) ==
  /\ st.have_creds /\ st.generation = snap.generation
  /\ st.peer = snap.peer /\ st.id = snap.id /\ st.token = snap.token

Guard(t) ==
  /\ cmd[t].pc = "guard"
  /\ cmd' = [cmd EXCEPT ![t] = IF StillCurrent(@.snap)
                               THEN [@ EXCEPT !.pc = "send", !.snap = st]
                               ELSE Idle]
  /\ UNCHANGED <<st, client, seen>>

\* Connect to the peer, write the request with the token, read the status.
Send(t) ==
  /\ cmd[t].pc = "send"
  /\ cmd' = [cmd EXCEPT ![t] = Idle]
  /\ UNCHANGED <<st, client, seen>>

Next ==
  \/ \E p \in Peers : Accept(p)
  \/ Announce \/ Teardown \/ CaptureInvalid
  \/ \E id \in Ids, token \in Tokens : Capture(id, token)
  \/ \E t \in Senders : 
       Snapshot(t) \/ Ignore(t) \/ Resolve(t) \/ Publish(t) \/ Guard(t) \/ Send(t)

Spec == Init /\ [][Next]_vars

-----------------------------------------------------------------------------
States ==
  [generation : 0 .. MAX_GEN, have_creds : BOOLEAN, id : Ids \cup {None},
   token : Tokens \cup {None}, port : Ids \cup {None}, port_gen : 0 .. MAX_GEN,
   peer : Peers \cup {None}]

\* The types of the shared state and of the commands in flight.
TypeOK ==
  /\ st \in States
  /\ client \in Peers \cup {None}
  /\ seen \subseteq Ids
  /\ \A t \in Senders :
       /\ cmd[t].pc \in {"idle", "resolve", "publish", "guard", "send"}
       /\ cmd[t].snap \in States
       /\ cmd[t].port \in Ids \cup {None}
       /\ cmd[t].pc \in {"publish", "guard", "send"} => cmd[t].port # None

\* A cached port was resolved for a controller of the live session: no resolve
\* that an old session started leaves its answer in a new one, although it
\* finishes long after the sender has gone (dacp_state_publish_port).
PortOfSession ==
  st.port # None /\ st.port_gen = st.generation => st.port \in seen

\* What dacp_send_command is about to send belongs together: as long as the
\* session it passed the guard in lasts, the port is one of that session's
\* controllers, the address is the connected client's, and if the session
\* has had one controller only, port and token are that controller's.
SendCoherent ==
  \A t \in Senders :
    LET c == cmd[t] IN
    c.pc = "send" /\ c.snap.generation = st.generation =>
      /\ c.port \in seen
      /\ c.snap.peer = client
      /\ (\A i, j \in seen : i = j) => c.port = c.snap.id

\* The cached port belongs to the current DACP-ID.  It need not, when the ID
\* changes within a session while a query is under way.
PortOfIdentity ==
  st.port # None /\ st.port_gen = st.generation => st.port = st.id
=============================================================================

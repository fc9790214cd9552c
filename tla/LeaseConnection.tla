--------------------------- MODULE LeaseConnection --------------------------
(***************************************************************************)
(* One LeaseConnection (LeaseConnection.java) from the keys to the wire:   *)
(* the keyboard's events are numbered and queued under the lock by the     *)
(* event thread (InputRouter.java), one writer thread drains the queue,    *)
(* encodes what it takes (NowPlayingEncoder.java), fills idle time with    *)
(* heartbeats and owns HELLO, and close() may come from the lifecycle      *)
(* thread at any moment or from the writer itself.                         *)
(***************************************************************************)
EXTENDS Integers, Sequences

CONSTANTS
  QUEUE_CAP,
  Mapped, Unmapped,  \* keys that stand for a command, and others
  MAX_SEQ            \* bound: events of a run

ASSUME LeaseConnectionAssumption ==
  QUEUE_CAP \in Nat \ {0} /\ MAX_SEQ \in Nat /\ Mapped \cap Unmapped = {}

VARIABLES
  nextSeq, queue, drops, closed, up, down,  \* the fields, guarded by the lock
  sock,      \* open, shut (by close()), broken (by the peer)
  wpc,       \* writer: grab, write, put, markUp, idle, beat, close, done
  frame,     \* the frame in the writer's hands, or NoFrame
  pressActive,  \* of the encoder
  closer,    \* lifecycle thread in close(): idle, shut, markDown, done
  wire,      \* frames the supervisor will read, in order
  told,      \* calls of onLeaseState, in order
  held,      \* keys that are down, each with the number of its press
  repeats,   \* the key the keyboard repeats
  rolled,    \* a key was pressed while another was down
  swallowed  \* presses of mapped keys the encoder made nothing of

keyVars == <<held, repeats, rolled>>
inputVars == <<pressActive, swallowed, keyVars>>
vars == <<nextSeq, queue, drops, closed, up, down, sock, wpc, frame, pressActive, closer,
          wire, told, swallowed, keyVars>>

Keys == Mapped \cup Unmapped
Frame(seq, kind) == [seq |-> seq, kind |-> kind]
NoFrame == Frame(-1, "none")

\* start(): HELLO's number is taken before anybody else can queue anything.
Init ==
  /\ nextSeq = 1 /\ queue = <<>> /\ drops = 0 /\ closed = FALSE /\ up = FALSE /\ down = FALSE
  /\ sock = "open" /\ wpc = "grab" /\ frame = NoFrame /\ closer = "idle"
  /\ pressActive = FALSE /\ wire = <<>> /\ told = <<>> /\ swallowed = {}
  /\ held = [k \in Keys |-> 0] /\ repeats = {} /\ rolled = FALSE

-----------------------------------------------------------------------------
\* enqueue of a key: a full queue loses its oldest event.
enqueue(e) ==
  /\ ~closed /\ nextSeq < MAX_SEQ
  /\ IF Len(queue) >= QUEUE_CAP
       THEN drops' = drops + 1 /\ queue' = Append(Tail(queue), e)
       ELSE queue' = Append(queue, e) /\ UNCHANGED drops
  /\ nextSeq' = nextSeq + 1

\* route: every key event is passed on.  press is the number of the physical
\* press the event belongs to, which the code does not know.
route(key, pressed, press) ==
  /\ enqueue([seq |-> nextSeq, kind |-> "KEY", key |-> key, pressed |-> pressed, press |-> press])
  /\ UNCHANGED <<closed, up, down, sock, wpc, frame, pressActive, closer, wire, told, swallowed>>

\* The keyboard repeats the key pressed last until any key is released.
KeyPressed ==
  \E k \in Keys :
    /\ held[k] = 0
    /\ held' = [held EXCEPT ![k] = nextSeq] /\ repeats' = {k}
    /\ rolled' = (rolled \/ \E j \in Keys : held[j] # 0)
    /\ route(k, TRUE, nextSeq)

KeyRepeated ==
  \E k \in repeats : route(k, TRUE, held[k]) /\ UNCHANGED keyVars

KeyReleased ==
  \E k \in Keys :
    /\ held[k] # 0
    /\ held' = [held EXCEPT ![k] = 0] /\ repeats' = {}
    /\ route(k, FALSE, held[k]) /\ UNCHANGED rolled

\* writerLoop begins: the stream is taken under the lock.
WriterGrabs ==
  /\ wpc = "grab"
  /\ IF closed THEN wpc' = "done" /\ UNCHANGED frame
               ELSE wpc' = "write" /\ frame' = Frame(0, "HELLO")
  /\ UNCHANGED <<nextSeq, queue, drops, closed, up, down, sock, closer, wire, told, inputVars>>

\* encode: one command per press, for the leading edge of a mapped key.
IsKey == frame.kind = "KEY"

\* Faulty variant: the release does not rearm the gate.
RearmNever(active) == active \/ (IsKey /\ frame.pressed /\ frame.key \in Mapped)

Rearm(active) == IF IsKey THEN frame.pressed /\ (active \/ frame.key \in Mapped) ELSE active

Encodes == IsKey => frame.pressed /\ ~pressActive /\ frame.key \in Mapped

\* writeOne: what the encoder makes nothing of is skipped; else closed is
\* checked under the lock, and the write itself happens outside it.
WriterSkips ==
  /\ wpc = "write" /\ ~Encodes
  /\ wpc' = "idle" /\ frame' = NoFrame /\ pressActive' = Rearm(pressActive)
  /\ swallowed' = IF frame.pressed /\ frame.key \in Mapped /\ frame.seq = frame.press
                  THEN swallowed \cup {frame.press} ELSE swallowed
  /\ UNCHANGED <<nextSeq, queue, drops, closed, up, down, sock, closer, wire, told, keyVars>>

WriterChecks ==
  /\ wpc = "write" /\ Encodes
  /\ wpc' = IF closed THEN "close" ELSE "put"
  /\ pressActive' = Rearm(pressActive)
  /\ UNCHANGED <<nextSeq, queue, drops, closed, up, down, sock, frame, closer, wire, told, swallowed, keyVars>>

WriterPuts ==
  /\ wpc = "put"
  /\ IF sock = "open"
       THEN /\ wire' = Append(wire, frame) /\ frame' = NoFrame
            /\ wpc' = IF frame.kind = "HELLO" THEN "markUp" ELSE "idle"
       ELSE wpc' = "close" /\ UNCHANGED <<wire, frame>>
  /\ UNCHANGED <<nextSeq, queue, drops, closed, up, down, sock, closer, told, inputVars>>

\* markUp: the latch is set under the lock, the listener called outside it.

\* Faulty variant: closed is not looked at.
MarkUpAnyway ==
  /\ wpc = "markUp"
  /\ up' = TRUE /\ wpc' = IF ~up THEN "fireUp" ELSE "idle"
  /\ UNCHANGED <<nextSeq, queue, drops, closed, down, sock, frame, closer, wire, told, inputVars>>

MarkUp ==
  /\ wpc = "markUp"
  /\ up' = (up \/ ~closed) /\ wpc' = IF ~closed /\ ~up THEN "fireUp" ELSE "idle"
  /\ UNCHANGED <<nextSeq, queue, drops, closed, down, sock, frame, closer, wire, told, inputVars>>

FireUp ==
  /\ wpc = "fireUp"
  /\ told' = Append(told, TRUE) /\ wpc' = "idle"
  /\ UNCHANGED <<nextSeq, queue, drops, closed, up, down, sock, frame, closer, wire, inputVars>>

\* The next frame: what is queued first, else, after heartbeatMs, a heartbeat
\* whose number is taken in the same critical section.
WriterTakes ==
  /\ wpc = "idle"
  /\ IF closed THEN wpc' = "close" /\ UNCHANGED <<frame, queue>>
               ELSE /\ queue # <<>>
                    /\ frame' = Head(queue) /\ queue' = Tail(queue) /\ wpc' = "write"
  /\ UNCHANGED <<nextSeq, drops, closed, up, down, sock, closer, wire, told, inputVars>>

WriterBeats ==
  /\ wpc = "idle" /\ ~closed /\ queue = <<>> /\ nextSeq < MAX_SEQ
  /\ frame' = Frame(nextSeq, "PING") /\ nextSeq' = nextSeq + 1 /\ wpc' = "write"
  /\ UNCHANGED <<queue, drops, closed, up, down, sock, closer, wire, told, inputVars>>

-----------------------------------------------------------------------------
\* close() by the writer: nothing to do if the other thread closed already;
\* the socket is shut and the listener told outside the lock.
WriterCloses ==
  /\ wpc = "close"
  /\ wpc' = IF closed THEN "done" ELSE "markDown"
  /\ closed' = TRUE /\ sock' = IF closed THEN sock ELSE "shut"
  /\ UNCHANGED <<nextSeq, queue, drops, up, down, frame, closer, wire, told, inputVars>>

WriterMarksDown ==
  /\ wpc = "markDown"
  /\ wpc' = IF up /\ ~down THEN "fireDown" ELSE "done"
  /\ down' = up
  /\ UNCHANGED <<nextSeq, queue, drops, closed, up, sock, frame, closer, wire, told, inputVars>>

WriterFiresDown ==
  /\ wpc = "fireDown"
  /\ told' = Append(told, FALSE) /\ wpc' = "done"
  /\ UNCHANGED <<nextSeq, queue, drops, closed, up, down, sock, frame, closer, wire, inputVars>>

\* close() by the lifecycle thread.
Close ==
  /\ closer = "idle"
  /\ closer' = IF closed THEN "done" ELSE "shut"
  /\ closed' = TRUE
  /\ UNCHANGED <<nextSeq, queue, drops, up, down, sock, wpc, frame, wire, told, inputVars>>

CloserShuts ==
  /\ closer = "shut"
  /\ sock' = "shut" /\ closer' = "markDown"
  /\ UNCHANGED <<nextSeq, queue, drops, closed, up, down, wpc, frame, wire, told, inputVars>>

CloserMarksDown ==
  /\ closer = "markDown"
  /\ closer' = IF up /\ ~down THEN "fireDown" ELSE "done"
  /\ down' = up
  /\ UNCHANGED <<nextSeq, queue, drops, closed, up, sock, wpc, frame, wire, told, inputVars>>

CloserFiresDown ==
  /\ closer = "fireDown"
  /\ told' = Append(told, FALSE) /\ closer' = "done"
  /\ UNCHANGED <<nextSeq, queue, drops, closed, up, down, sock, wpc, frame, wire, inputVars>>

\* The supervisor goes away.
PeerBreaks ==
  /\ sock = "open"
  /\ sock' = "broken"
  /\ UNCHANGED <<nextSeq, queue, drops, closed, up, down, wpc, frame, closer, wire, told, inputVars>>

Writer ==
  \/ WriterGrabs \/ WriterSkips \/ WriterChecks \/ WriterPuts \/ MarkUp \/ FireUp
  \/ WriterTakes \/ WriterBeats \/ WriterCloses \/ WriterMarksDown \/ WriterFiresDown
Closer == CloserShuts \/ CloserMarksDown \/ CloserFiresDown
Keyboard == KeyPressed \/ KeyRepeated \/ KeyReleased
Next == Keyboard \/ Writer \/ Close \/ Closer \/ PeerBreaks
Spec == Init /\ [][Next]_vars

\* Both threads run; nobody is obliged to press a key or to close.
FairSpec == Spec /\ WF_vars(Writer) /\ WF_vars(Closer)

-----------------------------------------------------------------------------
\* The types; down is only ever latched after up.
TypeOK ==
  /\ nextSeq \in 1 .. MAX_SEQ /\ Len(queue) \in 0 .. QUEUE_CAP /\ drops \in Nat
  /\ sock \in {"open", "shut", "broken"}
  /\ wpc \in {"grab", "write", "put", "markUp", "fireUp", "idle", "close", "markDown", "fireDown", "done"}
  /\ closer \in {"idle", "shut", "markDown", "fireDown", "done"}
  /\ down => up /\ closed

InFlight == wire \o (IF frame = NoFrame THEN <<>> ELSE <<frame>>) \o queue

\* "One transport command per physical press": however producers and heartbeats
\* interleave, the queue overflows and keys repeat, the frames on the wire, in
\* hand and queued are numbered strictly upwards, no press is on the wire twice,
\* and the press of a mapped key is made nothing of only if an event was lost or
\* two keys were down at once.
OnePerPress ==
  /\ \A i, j \in 1 .. Len(InFlight) : i < j => InFlight[i].seq < InFlight[j].seq
  /\ \A i, j \in DOMAIN wire :
       wire[i].kind = "KEY" /\ wire[j].kind = "KEY" /\ wire[i].press = wire[j].press => i = j
  /\ swallowed # {} => drops > 0 \/ rolled

\* A lease that was announced and is closed, by either side, is announced down.
DownFollows == (up /\ closed) ~> (\E i \in DOMAIN told : ~told[i])
=============================================================================

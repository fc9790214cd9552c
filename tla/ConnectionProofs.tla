-------------------------- MODULE ConnectionProofs --------------------------
(***************************************************************************)
(* Proofs about the Kindlet's end of the lease (module LeaseConnection),   *)
(* for every value of its constants.                                       *)
(***************************************************************************)
EXTENDS LeaseConnection, SequenceTheorems, TLAPS

\* The frames of keys, and the writer's own.
Events == [seq : Nat, kind : {"KEY"}, key : Mapped \cup Unmapped, pressed : BOOLEAN, press : Nat]
Beats == [seq : Nat, kind : {"HELLO", "PING"}]
Fresh(e) == e.kind = "KEY" /\ e.pressed /\ e.seq = e.press
Release(e) == e.kind = "KEY" /\ ~e.pressed

ConnTypes ==
  /\ nextSeq \in Nat \ {0} /\ drops \in Nat
  /\ queue \in Seq(Events) /\ wire \in Seq(Events \cup Beats)
  /\ frame \in Events \cup Beats \cup {NoFrame}
  /\ wpc \in {"write", "put"} => frame \in Events \cup Beats
  /\ wpc \in {"grab", "idle", "markUp", "fireUp"} => frame = NoFrame
  /\ wpc = "grab" => wire = <<>>
  /\ wpc \in {"grab", "write", "put", "markUp", "fireUp", "idle", "close", "markDown", "fireDown", "done"}
  /\ held \in [Keys -> Nat] /\ repeats \subseteq Keys
  /\ \A k \in Keys : held[k] < nextSeq /\ (k \in repeats => held[k] # 0)
  /\ pressActive \in BOOLEAN /\ rolled \in BOOLEAN

\* The frames on the wire, the one in hand and those queued are numbered upwards.
NumberInv ==
  /\ \A i, j \in DOMAIN wire : i < j => wire[i].seq < wire[j].seq
  /\ \A i, j \in DOMAIN queue : i < j => queue[i].seq < queue[j].seq
  /\ \A i \in DOMAIN wire :
       /\ wire[i].seq < nextSeq
       /\ frame # NoFrame => wire[i].seq < frame.seq
       /\ \A j \in DOMAIN queue : wire[i].seq < queue[j].seq
  /\ frame # NoFrame => frame.seq < nextSeq
  /\ \A j \in DOMAIN queue :
       /\ 0 < queue[j].seq /\ queue[j].seq < nextSeq
       /\ frame # NoFrame => frame.seq < queue[j].seq

\* An event the writer has still to encode: in its hands or queued.
Writing == wpc = "write"

\* A press is older than its events, and no event of it is pressed once a key,
\* any key, was released.
OrderInv ==
  /\ \A j \in DOMAIN queue : queue[j].press <= queue[j].seq
  /\ Writing /\ frame.kind = "KEY" => frame.press <= frame.seq
  /\ \A i, j \in DOMAIN queue :
       i < j /\ Release(queue[i]) /\ queue[j].pressed => queue[i].seq < queue[j].press
  /\ \A j \in DOMAIN queue :
       Writing /\ Release(frame) /\ queue[j].pressed => frame.seq < queue[j].press
  /\ \A k \in repeats :
       /\ \A j \in DOMAIN queue : Release(queue[j]) => queue[j].seq < held[k]
       /\ Writing /\ Release(frame) => frame.seq < held[k]

\* The presses a command was written for, or is about to be.
Sent ==
  {wire[i].press : i \in {j \in DOMAIN wire : wire[j].kind = "KEY"}}
    \cup (IF wpc = "put" /\ frame.kind = "KEY" THEN {frame.press} ELSE {})

\* What still comes of a press that was sent finds the encoder's gate shut.
GateInv ==
  /\ \A p \in Sent : p < nextSeq
  /\ \A k \in repeats : held[k] \in Sent =>
       /\ pressActive /\ ~(Writing /\ Release(frame))
       /\ \A j \in DOMAIN queue : ~Release(queue[j])
  /\ \A j \in DOMAIN queue : queue[j].pressed /\ queue[j].press \in Sent =>
       /\ pressActive /\ ~(Writing /\ Release(frame))
       /\ \A i \in DOMAIN queue : i < j => ~Release(queue[i])
  /\ Writing /\ frame.kind = "KEY" /\ frame.pressed /\ frame.press \in Sent => pressActive
  /\ \A i, j \in DOMAIN wire :
       wire[i].kind = "KEY" /\ wire[j].kind = "KEY" /\ wire[i].press = wire[j].press => i = j
  /\ wpc = "put" /\ frame.kind = "KEY" =>
       \A i \in DOMAIN wire : wire[i].kind = "KEY" => wire[i].press # frame.press

\* The gate once the frame in hand is encoded.
Opens == ~(IF Writing THEN Rearm(pressActive) ELSE pressActive)

\* While no event is lost and keys do not overlap, a new press comes after a
\* release.
FreshInv ==
  drops = 0 /\ ~rolled =>
    /\ swallowed = {}
    /\ Writing /\ Fresh(frame) => ~pressActive
    /\ \A j \in DOMAIN queue : Fresh(queue[j]) =>
         IF j = 1 THEN Opens ELSE Release(queue[j - 1])
    /\ (\A k \in Keys : held[k] = 0) =>
         IF queue = <<>> THEN Opens ELSE Release(queue[Len(queue)])

ConnInv == ConnTypes /\ NumberInv /\ OrderInv /\ GateInv /\ FreshInv

\* The queue after an event was appended, and d of the old ones dropped.
Queued(e, d) ==
  /\ queue' \in Seq(Events) /\ Len(queue') = Len(queue) + 1 - d /\ d <= Len(queue)
  /\ \A i \in 1 .. Len(queue) - d : queue'[i] = queue[i + d]
  /\ queue'[Len(queue')] = e
  /\ drops' = drops + d /\ nextSeq' = nextSeq + 1
  /\ UNCHANGED <<wire, wpc, frame, pressActive, swallowed>>

\* route queues one event, and drops the oldest when the queue is full.
LEMMA Routed ==
  ASSUME ConnTypes,
         NEW k \in Keys, NEW b \in BOOLEAN, NEW p \in Nat, route(k, b, p)
  PROVE  \E e \in Events, d \in {0, 1} :
           /\ e = [seq |-> nextSeq, kind |-> "KEY", key |-> k, pressed |-> b, press |-> p]
           /\ Queued(e, d)
<1> DEFINE e == [seq |-> nextSeq, kind |-> "KEY", key |-> k, pressed |-> b, press |-> p]
<1>1. e \in Events
  BY Zenon DEF Events, ConnTypes, Keys
<1>2. enqueue(e) /\ UNCHANGED <<wire, wpc, frame, pressActive, swallowed>>
  BY Zenon DEF route
<1> HIDE DEF e
<1>3. CASE Len(queue) >= QUEUE_CAP
  <2>1. queue # <<>> /\ queue \in Seq(Events)
    BY <1>3, LeaseConnectionAssumption DEF ConnTypes
  <2>2. /\ Tail(queue) \in Seq(Events) /\ Len(Tail(queue)) = Len(queue) - 1 /\ Len(queue) \in Nat \ {0}
        /\ \A i \in 1 .. Len(queue) - 1 : Tail(queue)[i] = queue[i + 1]
    BY <2>1, HeadTailProperties, LenProperties, EmptySeq, Zenon
  <2>3. queue' = Append(Tail(queue), e) /\ drops' = drops + 1 /\ nextSeq' = nextSeq + 1
    BY <1>2, <1>3, Zenon DEF enqueue
  <2>4. Queued(e, 1)
    BY <1>1, <1>2, <2>2, <2>3, AppendProperties DEF Queued
  <2> QED  BY <1>1, <2>4, Zenon DEF e
<1>4. CASE ~(Len(queue) >= QUEUE_CAP)
  <2>1. queue \in Seq(Events) /\ Len(queue) \in Nat /\ drops \in Nat
    BY LenProperties, Zenon DEF ConnTypes
  <2>2. queue' = Append(queue, e) /\ drops' = drops /\ nextSeq' = nextSeq + 1
    BY <1>2, <1>4, Zenon DEF enqueue
  <2>3. Queued(e, 0)
    BY <1>1, <1>2, <2>1, <2>2, AppendProperties DEF Queued
  <2> QED  BY <1>1, <2>3, Zenon DEF e
<1> QED  BY <1>3, <1>4, Zenon

\* The frames and their fields.
LEMMA FrameTypes ==
  ASSUME ConnTypes
  PROVE  /\ DOMAIN wire = 1 .. Len(wire) /\ Len(wire) \in Nat
         /\ DOMAIN queue = 1 .. Len(queue) /\ Len(queue) \in Nat
         /\ \A i \in DOMAIN wire :
              wire[i] \in Events \cup Beats /\ wire[i].seq \in Nat /\ (wire[i].kind = "KEY" => wire[i].press \in Nat)
         /\ \A j \in DOMAIN queue :
              /\ queue[j] \in Events /\ queue[j].kind = "KEY" /\ queue[j].pressed \in BOOLEAN
              /\ queue[j].seq \in Nat /\ queue[j].press \in Nat
         /\ frame # NoFrame => frame \in Events \cup Beats /\ frame.seq \in Nat
         /\ frame.kind = "KEY" =>
              /\ frame \in Events /\ frame # NoFrame
              /\ frame.seq \in Nat /\ frame.press \in Nat /\ frame.pressed \in BOOLEAN
<1>1. \A f \in Beats \cup {NoFrame} : f.kind # "KEY"
  BY DEF Beats, NoFrame, Frame
<1>2. \A f \in Events : f.kind = "KEY" /\ f.seq \in Nat /\ f.press \in Nat /\ f.pressed \in BOOLEAN
  BY Zenon DEF Events
<1>3. \A f \in Beats : f.seq \in Nat
  BY Zenon DEF Beats
<1>4. /\ DOMAIN wire = 1 .. Len(wire) /\ Len(wire) \in Nat /\ \A i \in DOMAIN wire : wire[i] \in Events \cup Beats
      /\ DOMAIN queue = 1 .. Len(queue) /\ Len(queue) \in Nat /\ \A j \in DOMAIN queue : queue[j] \in Events
      /\ frame \in Events \cup Beats \cup {NoFrame}
  BY LenProperties DEF ConnTypes
<1> QED  BY <1>1, <1>2, <1>3, <1>4, Zenon

\* An event of the keyboard is queued.
LEMMA KeyEventInv ==
  ASSUME ConnInv, NEW e \in Events, NEW d \in {0, 1}, Queued(e, d),
         e.seq = nextSeq, e.press <= nextSeq,
         held' \in [Keys -> Nat], repeats' \subseteq Keys, rolled' \in BOOLEAN,
         \A k \in Keys : held'[k] < nextSeq' /\ (k \in repeats' => held'[k] # 0),
         e.pressed => e.press = nextSeq \/ \E k \in repeats : e.press = held[k],
         \A k \in repeats' : /\ e.pressed
                             /\ held'[k] = nextSeq \/ (k \in repeats /\ held'[k] = held[k]),
         ~rolled' => ~rolled /\ (Fresh(e) => \A k \in Keys : held[k] = 0),
         (\A k \in Keys : held'[k] = 0) => Release(e)
  PROVE  ConnInv'
<1> USE DEF ConnInv
<1>1. /\ Len(queue) \in Nat /\ DOMAIN queue = 1 .. Len(queue) /\ DOMAIN queue' = 1 .. Len(queue')
      /\ nextSeq \in Nat \ {0} /\ Len(queue') \in Nat \ {0}
  BY LenProperties, SMTT(30) DEF ConnTypes, Queued
<1>2. /\ UNCHANGED <<wire, wpc, frame, pressActive, swallowed>> /\ nextSeq' = nextSeq + 1
      /\ Len(queue') = Len(queue) + 1 - d /\ d <= Len(queue)
      /\ \A i \in 1 .. Len(queue) - d : queue'[i] = queue[i + d]
      /\ queue'[Len(queue')] = e
  BY Zenon DEF Queued
<1>3. Sent' = Sent /\ Writing' = Writing
  BY <1>2 DEF Sent, Writing
\* An event of the new queue is the new one or one of the old queue.
<1>4. \A i \in DOMAIN queue' :
        \/ i = Len(queue') /\ queue'[i] = e
        \/ i < Len(queue') /\ i + d \in DOMAIN queue /\ queue'[i] = queue[i + d]
  BY <1>1, <1>2
<1>5. \A j \in DOMAIN queue : queue[j] \in Events
  BY <1>1, LenProperties DEF ConnTypes
<1>6. ConnTypes'
  BY <1>1, <1>2, SMTT(30) DEF ConnTypes, Queued
<1>7. NumberInv'
  <2>1. ASSUME NEW j \in DOMAIN queue'
        PROVE  /\ 0 < queue'[j].seq /\ queue'[j].seq < nextSeq'
               /\ frame # NoFrame => frame.seq < queue'[j].seq
               /\ \A i \in DOMAIN wire : wire[i].seq < queue'[j].seq
    <3>1. CASE queue'[j] = e
      BY <1>1, <1>2, <3>1 DEF NumberInv
    <3>2. CASE j + d \in DOMAIN queue /\ queue'[j] = queue[j + d]
      <4>1. queue[j + d].seq < nextSeq /\ queue[j + d].seq \in Nat
        BY <3>2, FrameTypes, Zenon DEF NumberInv
      <4>2. queue'[j].seq < nextSeq'
        BY <1>1, <1>2, <3>2, <4>1, SMTT(30)
      <4> QED  BY <3>2, <4>2, Zenon DEF NumberInv
    <3> QED  BY <1>4, <3>1, <3>2, Zenon
  <2>2. ASSUME NEW i \in DOMAIN queue', NEW j \in DOMAIN queue', i < j
        PROVE  queue'[i].seq < queue'[j].seq
    <3>1. i + d \in DOMAIN queue /\ queue'[i] = queue[i + d]
      BY <1>1, <1>4, <2>2
    <3>2. CASE j = Len(queue')
      BY <1>2, <3>1, <3>2, Zenon DEF NumberInv
    <3>3. CASE j # Len(queue')
      <4>1. j + d \in DOMAIN queue /\ queue'[j] = queue[j + d] /\ i + d < j + d
        BY <1>1, <1>4, <2>2, <3>3
      <4> QED  BY <3>1, <4>1 DEF NumberInv
    <3> QED  BY <3>2, <3>3, Zenon
  <2>3. \A i \in DOMAIN wire : wire[i].seq < nextSeq'
    BY <1>1, <1>2, FrameTypes DEF NumberInv
  <2>4. frame # NoFrame => frame.seq < nextSeq'
    BY <1>1, <1>2, FrameTypes DEF NumberInv
  <2> QED  BY <1>2, <2>1, <2>2, <2>3, <2>4, Zenon DEF NumberInv
<1>8. OrderInv'
  <2>1. \A j \in DOMAIN queue' : queue'[j].press <= queue'[j].seq
    BY <1>4, Zenon DEF OrderInv
  <2>2. ASSUME NEW i \in DOMAIN queue', NEW j \in DOMAIN queue', i < j,
               Release(queue'[i]), queue'[j].pressed
        PROVE  queue'[i].seq < queue'[j].press
    <3>1. i + d \in DOMAIN queue /\ queue'[i] = queue[i + d]
      BY <1>1, <1>4, <2>2
    <3>2. CASE j = Len(queue')
      BY <1>2, <2>2, <3>1, <3>2, SMTT(30) DEF NumberInv, OrderInv
    <3>3. CASE j # Len(queue')
      <4>1. j + d \in DOMAIN queue /\ queue'[j] = queue[j + d] /\ i + d < j + d
        BY <1>1, <1>4, <2>2, <3>3
      <4> QED  BY <2>2, <3>1, <4>1 DEF OrderInv
    <3> QED  BY <3>2, <3>3, Zenon
  <2>3. ASSUME NEW j \in DOMAIN queue', Writing, Release(frame), queue'[j].pressed
        PROVE  frame.seq < queue'[j].press
    <3>1. frame \in Events /\ frame # NoFrame
      BY <2>3 DEF Writing, Release, ConnTypes, Beats, Events, NoFrame, Frame
    <3>2. frame.seq < nextSeq
      BY <3>1, Zenon DEF NumberInv
    <3> QED  BY <1>2, <1>4, <2>3, <3>2, SMTT(30) DEF OrderInv
  <2>4. ASSUME NEW k \in repeats'
        PROVE  /\ \A j \in DOMAIN queue' : Release(queue'[j]) => queue'[j].seq < held'[k]
               /\ Writing /\ Release(frame) => frame.seq < held'[k]
    <3>1. ~Release(e)
      BY <2>4, Zenon DEF Release
    <3>2. Writing /\ Release(frame) => frame.seq < nextSeq
      BY DEF Writing, Release, ConnTypes, Beats, Events, NoFrame, Frame, NumberInv
    <3>3. \A j \in DOMAIN queue : queue[j].seq < nextSeq
      BY Zenon DEF NumberInv
    <3> QED  BY <1>4, <2>4, <3>1, <3>2, <3>3 DEF OrderInv
  <2> QED  BY <1>2, <1>3, <2>1, <2>2, <2>3, <2>4, Zenon DEF OrderInv, Release
<1>9. GateInv'
  <2>1. \A p \in Sent : p < nextSeq /\ p < nextSeq'
    <3>1. \A p \in Sent : p \in Nat
      BY FrameTypes DEF Sent
    <3> QED  BY <1>1, <1>2, <3>1 DEF GateInv
  <2>2. ASSUME NEW k \in repeats', held'[k] \in Sent
        PROVE  /\ pressActive /\ ~(Writing /\ Release(frame))
               /\ \A j \in DOMAIN queue' : ~Release(queue'[j])
    <3>1. k \in repeats /\ held[k] \in Sent /\ ~Release(e)
      BY <1>1, <2>1, <2>2 DEF Release
    <3> QED  BY <1>4, <3>1 DEF GateInv
  <2>3. ASSUME NEW j \in DOMAIN queue', queue'[j].pressed, queue'[j].press \in Sent
        PROVE  /\ pressActive /\ ~(Writing /\ Release(frame))
               /\ \A i \in DOMAIN queue' : i < j => ~Release(queue'[i])
    <3>1. CASE j = Len(queue')
      <4>1. PICK k \in repeats : e.press = held[k]
        BY <1>1, <1>2, <2>1, <2>3, <3>1
      <4> QED  BY <1>1, <1>2, <1>4, <2>3, <3>1, <4>1 DEF GateInv
    <3>2. CASE j # Len(queue')
      <4>1. j + d \in DOMAIN queue /\ queue'[j] = queue[j + d]
        BY <1>4, <3>2, Zenon
      <4>2. \A i \in DOMAIN queue' : i < j => i + d \in DOMAIN queue /\ queue'[i] = queue[i + d] /\ i + d < j + d
        BY <1>1, <1>4
      <4> QED  BY <2>3, <4>1, <4>2 DEF GateInv
    <3> QED  BY <3>1, <3>2, Zenon
  <2> QED  BY <1>2, <1>3, <2>1, <2>2, <2>3, Zenon DEF GateInv, Release
<1>10. FreshInv'
  <2> SUFFICES ASSUME drops' = 0, ~rolled' PROVE FreshInv'
    BY Zenon DEF FreshInv
  <2>1. d = 0 /\ drops = 0 /\ ~rolled
    BY DEF Queued, ConnTypes
  <2>2. Opens' = Opens
    BY <1>2, Zenon DEF Opens, Writing, Rearm, IsKey
  <2>3. ASSUME NEW j \in DOMAIN queue', Fresh(queue'[j])
        PROVE  IF j = 1 THEN Opens ELSE Release(queue'[j - 1])
    <3>1. CASE j = Len(queue')
      <4>1. \A k \in Keys : held[k] = 0
        BY <1>2, <2>3, <3>1, Zenon
      <4>2. IF queue = <<>> THEN Opens ELSE Release(queue[Len(queue)])
        BY <2>1, <4>1, Zenon DEF FreshInv
      <4>3. j = Len(queue) + 1 /\ (queue = <<>> <=> j = 1)
        BY <1>1, <1>2, <2>1, <3>1, EmptySeq DEF ConnTypes
      <4> QED  BY <1>1, <1>2, <2>1, <4>2, <4>3
    <3>2. CASE j # Len(queue')
      <4>1. j \in DOMAIN queue /\ queue'[j] = queue[j]
        BY <1>1, <1>4, <2>1, <3>2
      <4>2. j # 1 => j - 1 \in DOMAIN queue' /\ j - 1 # Len(queue') /\ queue'[j - 1] = queue[j - 1]
        BY <1>1, <1>2, <2>1, <4>1
      <4> QED  BY <2>1, <2>3, <4>1, <4>2, Zenon DEF FreshInv
    <3> QED  BY <3>1, <3>2, Zenon
  <2>4. (\A k \in Keys : held'[k] = 0) => queue' # <<>> /\ Release(queue'[Len(queue')])
    BY <1>1, <1>2
  <2>5. swallowed = {} /\ (Writing /\ Fresh(frame) => ~pressActive)
    BY <2>1, Zenon DEF FreshInv
  <2> QED  BY <1>2, <1>3, <2>2, <2>3, <2>4, <2>5, Zenon DEF FreshInv, Release, Fresh
<1> QED  BY <1>6, <1>7, <1>8, <1>9, <1>10, Zenon

\* The keyboard's events: a press has the number of its first event, and a
\* repeat or release that of its press.
LEMMA KeyboardInv ==
  ASSUME ConnInv, Keyboard
  PROVE  ConnInv'
<1>0. /\ nextSeq \in Nat \ {0} /\ held \in [Keys -> Nat] /\ repeats \subseteq Keys /\ rolled \in BOOLEAN
      /\ ConnTypes /\ \A k \in Keys : held[k] < nextSeq /\ (k \in repeats => held[k] # 0)
  BY Zenon DEF ConnInv, ConnTypes
<1>1. CASE KeyPressed
  <2>1. PICK k \in Keys :
          /\ held[k] = 0 /\ held' = [held EXCEPT ![k] = nextSeq] /\ repeats' = {k}
          /\ rolled' = (rolled \/ \E j \in Keys : held[j] # 0)
          /\ route(k, TRUE, nextSeq)
    BY <1>1, Zenon DEF KeyPressed
  <2>2. PICK e \in Events, d \in {0, 1} :
          /\ e = [seq |-> nextSeq, kind |-> "KEY", key |-> k, pressed |-> TRUE, press |-> nextSeq]
          /\ Queued(e, d)
    BY <1>0, <2>1, Routed, Zenon
  <2>3. e.seq = nextSeq /\ e.press = nextSeq /\ e.pressed /\ e.kind = "KEY" /\ nextSeq' = nextSeq + 1
    BY <2>2 DEF Queued
  <2>4. rolled' \in BOOLEAN /\ (~rolled' => ~rolled /\ \A j \in Keys : held[j] = 0)
    BY <2>1, Zenon
  <2>5. /\ held' \in [Keys -> Nat] /\ repeats' \subseteq Keys /\ held'[k] = nextSeq
        /\ \A j \in Keys : held'[j] < nextSeq' /\ (j \in repeats' => held'[j] # 0)
    BY <1>0, <2>1, <2>3
  <2>6. ~(\A j \in Keys : held'[j] = 0)
    BY <1>0, <2>5, Zenon
  <2> QED  BY <1>0, <2>1, <2>2, <2>3, <2>4, <2>5, <2>6, KeyEventInv
<1>2. CASE KeyRepeated
  <2>1. PICK k \in repeats : route(k, TRUE, held[k]) /\ UNCHANGED <<held, repeats, rolled>>
    BY <1>2, Zenon DEF KeyRepeated, keyVars
  <2>2. PICK e \in Events, d \in {0, 1} :
          /\ e = [seq |-> nextSeq, kind |-> "KEY", key |-> k, pressed |-> TRUE, press |-> held[k]]
          /\ Queued(e, d)
    BY <1>0, <2>1, Routed, Zenon
  <2>3. e.seq = nextSeq /\ e.press = held[k] /\ e.pressed /\ e.kind = "KEY" /\ nextSeq' = nextSeq + 1
    BY <2>2 DEF Queued
  <2>4. /\ held' \in [Keys -> Nat] /\ repeats' \subseteq Keys /\ held[k] <= nextSeq /\ held[k] # nextSeq
        /\ \A j \in Keys : held'[j] < nextSeq' /\ (j \in repeats' => held'[j] # 0)
    <3>1. held' = held /\ repeats' = repeats /\ k \in Keys
      BY <1>0, <2>1, Zenon
    <3>2. \A j \in Keys : held[j] \in Nat /\ held[j] < nextSeq /\ nextSeq \in Nat
      BY <1>0, Zenon
    <3>3. \A j \in Keys : held[j] < nextSeq' /\ held[j] <= nextSeq /\ held[j] # nextSeq
      BY <2>3, <3>2
    <3> QED  BY <1>0, <3>1, <3>3, Zenon
  <2>5. ~Fresh(e) /\ ~(\A j \in Keys : held'[j] = 0)
    BY <1>0, <2>1, <2>3, <2>4, Zenon DEF Fresh
  <2> QED  BY <1>0, <2>1, <2>2, <2>3, <2>4, <2>5, KeyEventInv, Zenon
<1>3. CASE KeyReleased
  <2>1. PICK k \in Keys :
          /\ held[k] # 0 /\ held' = [held EXCEPT ![k] = 0] /\ repeats' = {} /\ UNCHANGED rolled
          /\ route(k, FALSE, held[k])
    BY <1>3, Zenon DEF KeyReleased
  <2>2. PICK e \in Events, d \in {0, 1} :
          /\ e = [seq |-> nextSeq, kind |-> "KEY", key |-> k, pressed |-> FALSE, press |-> held[k]]
          /\ Queued(e, d)
    BY <1>0, <2>1, Routed, Zenon
  <2>3. e.seq = nextSeq /\ e.press = held[k] /\ ~e.pressed /\ e.kind = "KEY" /\ nextSeq' = nextSeq + 1
    BY <2>2 DEF Queued
  <2>4. /\ held' \in [Keys -> Nat] /\ repeats' \subseteq Keys /\ held[k] <= nextSeq
        /\ \A j \in Keys : held'[j] < nextSeq' /\ (j \in repeats' => held'[j] # 0)
    BY <1>0, <2>1, <2>3
  <2>5. ~Fresh(e) /\ Release(e)
    BY <2>3, Zenon DEF Fresh, Release
  <2> QED  BY <1>0, <2>1, <2>2, <2>3, <2>4, <2>5, KeyEventInv, Zenon
<1> QED  BY <1>1, <1>2, <1>3, Zenon DEF Keyboard

\* A step outside the writing of a frame that leaves the queue, the frame, the
\* gate and the wire alone.
LEMMA QuietInv ==
  ASSUME ConnInv, ConnTypes',
         UNCHANGED <<nextSeq, queue, drops, frame, pressActive, wire, swallowed, held, repeats, rolled>>,
         wpc' = wpc \/ (wpc # "write" /\ wpc' \notin {"write", "put"})
  PROVE  ConnInv'
<1> USE DEF ConnInv
<1>1. (\A p \in Sent' : p \in Sent) /\ Writing' = Writing
  BY Zenon DEF Sent, Writing
<1>2. NumberInv' /\ OrderInv'
  BY <1>1, Zenon DEF NumberInv, OrderInv, Release
<1>3. GateInv'
  BY <1>1, Zenon DEF GateInv, Release
<1>4. Opens' = Opens
  BY <1>1, Zenon DEF Opens, Rearm, IsKey
<1>5. FreshInv'
  BY <1>1, <1>4, Zenon DEF FreshInv, Release, Fresh
<1> QED  BY <1>2, <1>3, <1>5, Zenon

\* The encoder makes nothing of a release, a repeat or an unmapped key.
LEMMA WriterSkipsInv ==
  ASSUME ConnInv, WriterSkips
  PROVE  ConnInv'
<1> USE DEF ConnInv
<1>1. /\ wpc = "write" /\ wpc' = "idle" /\ frame' = NoFrame /\ pressActive' = Rearm(pressActive)
      /\ UNCHANGED <<nextSeq, queue, drops, wire, held, repeats, rolled>>
  BY Zenon DEF WriterSkips, keyVars
<1>2. frame.kind = "KEY" /\ ~(frame.pressed /\ ~pressActive /\ frame.key \in Mapped)
  BY Zenon DEF WriterSkips, Encodes, IsKey
<1>3. frame \in Events /\ frame.pressed \in BOOLEAN
  BY <1>2, FrameTypes, Zenon
<1>4. Writing /\ ~Writing' /\ Sent' = Sent
  BY <1>1, Zenon DEF Writing, Sent
<1>5. pressActive' = (frame.pressed /\ (pressActive \/ frame.key \in Mapped))
  BY <1>1, <1>2, Zenon DEF Rearm, IsKey
<1>6. pressActive' \in BOOLEAN
  BY <1>5, Zenon
<1>7. ~Release(frame) /\ pressActive => pressActive'
  BY <1>2, <1>5, Zenon DEF Release
<1>8. ConnTypes'
  BY <1>1, <1>6, Zenon DEF ConnTypes
<1>9. NumberInv' /\ OrderInv'
  BY <1>1, <1>4, Zenon DEF NumberInv, OrderInv, Release
<1>10. GateInv'
  BY <1>1, <1>4, <1>7, Zenon DEF GateInv, Release
<1>11. FreshInv'
  <2> SUFFICES ASSUME drops = 0, ~rolled PROVE FreshInv'
    BY <1>1, Zenon DEF FreshInv
  <2>1. ~(frame.pressed /\ frame.key \in Mapped /\ frame.seq = frame.press)
    BY <1>2, <1>4, Zenon DEF FreshInv, Fresh
  <2>2. swallowed' = {}
    BY <2>1, Zenon DEF WriterSkips, FreshInv
  <2>3. Opens' = Opens
    BY <1>1, <1>4, Zenon DEF Opens
  <2> QED  BY <1>1, <1>4, <2>2, <2>3, Zenon DEF FreshInv, Release, Fresh
<1> QED  BY <1>8, <1>9, <1>10, <1>11, Zenon

\* The encoder makes a command of a press and shuts its gate.
LEMMA WriterChecksInv ==
  ASSUME ConnInv, WriterChecks
  PROVE  ConnInv'
<1> USE DEF ConnInv
<1>1. /\ wpc = "write" /\ wpc' \in {"close", "put"} /\ pressActive' = Rearm(pressActive)
      /\ UNCHANGED <<nextSeq, queue, drops, frame, wire, swallowed, held, repeats, rolled>>
  BY Zenon DEF WriterChecks, keyVars
<1>2. frame.kind = "KEY" => frame.pressed /\ ~pressActive /\ frame.key \in Mapped
  BY Zenon DEF WriterChecks, Encodes, IsKey
<1>3. Writing /\ ~Writing' /\ ~Release(frame)
  BY <1>1, <1>2, Zenon DEF Writing, Release
<1>4. IF frame.kind = "KEY" THEN pressActive' = TRUE ELSE pressActive' = pressActive
  <2>1. CASE frame.kind = "KEY"
    <3>1. pressActive' = (frame.pressed /\ (pressActive \/ frame.key \in Mapped))
      BY <1>1, <2>1, Zenon DEF Rearm, IsKey
    <3>2. pressActive' = TRUE
      BY <1>2, <2>1, <3>1, Zenon
    <3> QED  BY <2>1, <3>2, Zenon
  <2>2. CASE frame.kind # "KEY"
    BY <1>1, <2>2, Zenon DEF Rearm, IsKey
  <2> QED  BY <2>1, <2>2, Zenon
<1>5. ConnTypes'
  <2>1. pressActive' \in BOOLEAN
    BY <1>4, Zenon DEF ConnTypes
  <2> QED  BY <1>1, <2>1, Zenon DEF ConnTypes
<1>6. NumberInv' /\ OrderInv'
  BY <1>1, <1>3, Zenon DEF NumberInv, OrderInv, Release
<1>7. GateInv'
  <2>1. CASE frame.kind # "KEY"
    <3>1. Sent' = Sent
      BY <1>1, <2>1, Zenon DEF Sent
    <3> QED  BY <1>1, <1>3, <1>4, <2>1, <3>1, Zenon DEF GateInv, Release
  <2>2. CASE frame.kind = "KEY"
    <3>1. (\A p \in Sent' : p \in Sent \/ p = frame.press) /\ pressActive'
      BY <1>1, <1>4, <2>2, Zenon DEF Sent
    <3>2. /\ frame.press \notin Sent /\ frame.seq \in Nat /\ frame.press \in Nat
          /\ frame.press <= frame.seq /\ frame.seq < nextSeq /\ nextSeq \in Nat
      BY <1>2, <1>3, <2>2, FrameTypes, Zenon DEF GateInv, OrderInv, NumberInv, ConnTypes
    <3>3. \A p \in Sent' : p < nextSeq'
      BY <1>1, <3>1, <3>2, SMTT(30) DEF GateInv
    <3>4. \A j \in DOMAIN queue : frame.seq < queue[j].seq /\ queue[j].seq \in Nat
      BY <2>2, FrameTypes, Zenon DEF NumberInv
    <3>5. ASSUME NEW k \in repeats, held[k] \in Sent'
          PROVE  \A j \in DOMAIN queue : ~Release(queue[j])
      <4>1. held[k] = frame.press
        BY <1>2, <2>2, <3>1, <3>5, Zenon DEF GateInv
      <4> QED  BY <3>2, <3>4, <4>1 DEF OrderInv
    <3>6. ASSUME NEW j \in DOMAIN queue, queue[j].pressed, queue[j].press \in Sent',
                 NEW i \in DOMAIN queue, i < j
          PROVE  ~Release(queue[i])
      <4>1. queue[j].press = frame.press
        BY <1>2, <2>2, <3>1, <3>6, Zenon DEF GateInv
      <4>2. Release(queue[i]) => queue[i].seq < frame.press
        BY <3>6, <4>1, Zenon DEF OrderInv
      <4> QED  BY <3>2, <3>4, <4>2
    <3>7. \A i \in DOMAIN wire : wire[i].kind = "KEY" => wire[i].press # frame.press
      BY <3>2, Zenon DEF Sent
    <3> QED  BY <1>1, <1>3, <3>1, <3>3, <3>5, <3>6, <3>7, Zenon DEF GateInv, Release
  <2> QED  BY <2>1, <2>2, Zenon
<1>8. FreshInv'
  <2>1. Opens' = Opens
    BY <1>1, <1>3, Zenon DEF Opens
  <2> QED  BY <1>1, <1>3, <2>1, Zenon DEF FreshInv, Release, Fresh
<1> QED  BY <1>5, <1>6, <1>7, <1>8, Zenon

\* A frame is written, or the socket refuses it.
LEMMA WriterPutsInv ==
  ASSUME ConnInv, WriterPuts
  PROVE  ConnInv'
<1> USE DEF ConnInv
<1>1. /\ wpc = "put"
      /\ UNCHANGED <<nextSeq, queue, drops, pressActive, swallowed, held, repeats, rolled>>
  BY Zenon DEF WriterPuts, inputVars, keyVars
<1>2. CASE sock # "open"
  <2>1. wpc' = "close" /\ UNCHANGED <<wire, frame>>
    BY <1>2, Zenon DEF WriterPuts
  <2>2. ConnTypes'
    BY <1>1, <2>1, Zenon DEF ConnTypes
  <2> QED  BY <1>1, <2>1, <2>2, QuietInv, Zenon
<1>3. CASE sock = "open"
  <2>1. wire' = Append(wire, frame) /\ frame' = NoFrame /\ wpc' \in {"markUp", "idle"}
    BY <1>3, Zenon DEF WriterPuts
  <2>2. frame \in Events \cup Beats /\ frame # NoFrame /\ frame.seq \in Nat
    BY <1>1 DEF ConnTypes, Events, Beats, NoFrame, Frame
  <2>3. /\ wire' \in Seq(Events \cup Beats) /\ Len(wire') = Len(wire) + 1 /\ Len(wire) \in Nat
        /\ \A i \in 1 .. Len(wire) : wire'[i] = wire[i]
        /\ wire'[Len(wire) + 1] = frame
        /\ DOMAIN wire = 1 .. Len(wire) /\ DOMAIN wire' = 1 .. Len(wire) + 1
    BY <2>1, <2>2, AppendProperties, LenProperties DEF ConnTypes
  <2>4. \A i \in DOMAIN wire' :
          (i \in DOMAIN wire /\ wire'[i] = wire[i]) \/ (i = Len(wire) + 1 /\ wire'[i] = frame)
    <3>1. \A i \in 1 .. Len(wire) + 1 : i \in 1 .. Len(wire) \/ i = Len(wire) + 1
      BY <2>3
    <3> QED  BY <2>3, <3>1, Zenon
  <2>5. ~Writing /\ ~Writing'
    BY <1>1, <2>1, Zenon DEF Writing
  <2>6. \A p \in Sent' : p \in Sent
    BY <1>1, <2>1, <2>4, Zenon DEF Sent
  <2>7. ConnTypes'
    BY <1>1, <2>1, <2>3, Zenon DEF ConnTypes
  <2>8. NumberInv'
    <3>1. \A i, j \in DOMAIN wire' : i < j => wire'[i].seq < wire'[j].seq
      BY <2>2, <2>3, <2>4 DEF NumberInv
    <3>2. \A i \in DOMAIN wire' :
            wire'[i].seq < nextSeq /\ \A j \in DOMAIN queue : wire'[i].seq < queue[j].seq
      BY <2>2, <2>4, Zenon DEF NumberInv
    <3> QED  BY <1>1, <2>1, <3>1, <3>2, Zenon DEF NumberInv
  <2>9. OrderInv'
    BY <1>1, <2>5, Zenon DEF OrderInv, Release
  <2>10. GateInv'
    <3>1. \A i, j \in DOMAIN wire' :
            wire'[i].kind = "KEY" /\ wire'[j].kind = "KEY" /\ wire'[i].press = wire'[j].press => i = j
      BY <1>1, <2>4, Zenon DEF GateInv
    <3> QED  BY <1>1, <2>1, <2>5, <2>6, <3>1, Zenon DEF GateInv, Release
  <2>11. FreshInv'
    <3>1. Opens' = Opens
      BY <1>1, <2>5, Zenon DEF Opens
    <3> QED  BY <1>1, <2>5, <3>1, Zenon DEF FreshInv, Release, Fresh
  <2> QED  BY <2>7, <2>8, <2>9, <2>10, <2>11, Zenon
<1> QED  BY <1>2, <1>3, Zenon

\* The writer takes the oldest event.
LEMMA WriterTakesInv ==
  ASSUME ConnInv, WriterTakes
  PROVE  ConnInv'
<1> USE DEF ConnInv
<1>1. /\ wpc = "idle"
      /\ UNCHANGED <<nextSeq, drops, wire, pressActive, swallowed, held, repeats, rolled>>
  BY Zenon DEF WriterTakes, inputVars, keyVars
<1>2. CASE closed
  <2>1. wpc' = "close" /\ UNCHANGED <<frame, queue>>
    BY <1>2, Zenon DEF WriterTakes
  <2>2. ConnTypes'
    BY <1>1, <2>1, Zenon DEF ConnTypes
  <2> QED  BY <1>1, <2>1, <2>2, QuietInv, Zenon
<1>3. CASE ~closed
  <2>1. queue # <<>> /\ frame' = Head(queue) /\ queue' = Tail(queue) /\ wpc' = "write"
    BY <1>3, Zenon DEF WriterTakes
  <2>2. /\ queue' \in Seq(Events) /\ Len(queue) \in Nat \ {0} /\ Len(queue') = Len(queue) - 1
        /\ \A i \in 1 .. Len(queue') : queue'[i] = queue[i + 1]
        /\ DOMAIN queue = 1 .. Len(queue) /\ DOMAIN queue' = 1 .. Len(queue')
        /\ frame' = queue[1] /\ frame' \in Events
    BY <2>1, HeadTailProperties, LenProperties, EmptySeq DEF ConnTypes
  <2>3. /\ 1 \in DOMAIN queue
        /\ \A i \in DOMAIN queue' : i + 1 \in DOMAIN queue /\ queue'[i] = queue[i + 1] /\ 1 < i + 1
    BY <2>2
  <2>4. frame' # NoFrame /\ frame'.kind = "KEY" /\ frame'.pressed \in BOOLEAN
    BY <2>2 DEF Events, NoFrame, Frame
  <2>5. frame = NoFrame /\ ~Writing /\ Writing' /\ Sent' = Sent
    BY <1>1, <2>1, Zenon DEF Writing, Sent, ConnTypes
  <2>6. ConnTypes'
    BY <1>1, <2>1, <2>2, <2>4, Zenon DEF ConnTypes
  <2>7. NumberInv'
    <3>1. \A i, j \in DOMAIN queue' : i < j => queue'[i].seq < queue'[j].seq
      BY <2>2, <2>3 DEF NumberInv
    <3> QED  BY <1>1, <2>2, <2>3, <3>1, Zenon DEF NumberInv
  <2>8. OrderInv'
    <3>1. \A i, j \in DOMAIN queue' :
            i < j /\ Release(queue'[i]) /\ queue'[j].pressed => queue'[i].seq < queue'[j].press
      BY <2>2, <2>3 DEF OrderInv
    <3> QED  BY <1>1, <2>2, <2>3, <3>1 DEF OrderInv, Release
  <2>9. GateInv'
    <3>1. ASSUME NEW j \in DOMAIN queue', queue'[j].pressed, queue'[j].press \in Sent
          PROVE  /\ pressActive /\ ~Release(frame')
                 /\ \A i \in DOMAIN queue' : i < j => ~Release(queue'[i])
      <4>1. /\ j + 1 \in DOMAIN queue /\ queue'[j] = queue[j + 1] /\ 1 < j + 1
            /\ \A i \in DOMAIN queue' : i < j => i + 1 < j + 1
        BY <2>2, <2>3, <3>1
      <4>2. pressActive /\ \A i \in DOMAIN queue : i < j + 1 => ~Release(queue[i])
        BY <3>1, <4>1, Zenon DEF GateInv
      <4> QED  BY <2>2, <2>3, <4>1, <4>2, Zenon
    <3>2. ASSUME NEW k \in repeats, held[k] \in Sent
          PROVE  pressActive /\ ~Release(frame') /\ \A j \in DOMAIN queue' : ~Release(queue'[j])
      BY <2>2, <2>3, <3>2, Zenon DEF GateInv
    <3>3. frame'.pressed /\ frame'.press \in Sent => pressActive
      BY <2>2, <2>3, Zenon DEF GateInv
    <3>4. wpc' # "put"
      BY <2>1, Zenon
    <3> QED  BY <1>1, <2>5, <3>1, <3>2, <3>3, <3>4, Zenon DEF GateInv, Release
  <2>10. FreshInv'
    <3> SUFFICES ASSUME drops = 0, ~rolled PROVE FreshInv'
      BY <1>1, Zenon DEF FreshInv
    <3>1. Opens = ~pressActive
      BY <2>5, Zenon DEF Opens
    <3>2. Release(frame') => Opens'
      BY <2>5, Zenon DEF Opens, Rearm, IsKey, Release
    <3>3. Fresh(frame') => ~pressActive
      BY <2>2, <2>3, <3>1, Zenon DEF FreshInv
    <3>4. ASSUME NEW j \in DOMAIN queue', Fresh(queue'[j])
          PROVE  IF j = 1 THEN Opens' ELSE Release(queue'[j - 1])
      <4>1. Release(queue[j])
        BY <2>2, <2>3, <3>4 DEF FreshInv
      <4> QED  BY <2>2, <3>2, <4>1
    <3>5. (\A k \in Keys : held[k] = 0) =>
            IF queue' = <<>> THEN Opens' ELSE Release(queue'[Len(queue')])
      <4>1. (\A k \in Keys : held[k] = 0) => Release(queue[Len(queue)])
        BY <2>1, Zenon DEF FreshInv
      <4>2. CASE queue' = <<>>
        BY <2>2, <3>2, <4>1, <4>2, EmptySeq, SMTT(30)
      <4>3. CASE queue' # <<>>
        <5>1. Len(queue') \in 1 .. Len(queue')
          BY <2>2, <4>3, EmptySeq, LenProperties
        <5> QED  BY <2>2, <4>1, <4>3, <5>1
      <4> QED  BY <4>2, <4>3, Zenon
    <3> QED  BY <1>1, <3>3, <3>4, <3>5, Zenon DEF FreshInv, Release, Fresh
  <2> QED  BY <2>6, <2>7, <2>8, <2>9, <2>10, Zenon
<1> QED  BY <1>2, <1>3, Zenon

\* HELLO, and a heartbeat: a frame of the writer's own.
LEMMA OwnFrameInv ==
  ASSUME ConnInv, WriterGrabs \/ WriterBeats
  PROVE  ConnInv'
<1> USE DEF ConnInv
<1>1. CASE WriterGrabs /\ closed
  <2>1. /\ wpc = "grab" /\ wpc' = "done"
        /\ UNCHANGED <<nextSeq, queue, drops, frame, pressActive, wire, swallowed, held, repeats, rolled>>
    BY <1>1, Zenon DEF WriterGrabs, inputVars, keyVars
  <2>2. ConnTypes'
    BY <2>1, Zenon DEF ConnTypes
  <2> QED  BY <2>1, <2>2, QuietInv, Zenon
<1>2. CASE ~(WriterGrabs /\ closed)
  <2>1. /\ wpc \in {"grab", "idle"} /\ wpc' = "write"
        /\ UNCHANGED <<queue, drops, pressActive, wire, swallowed, held, repeats, rolled>>
    BY <1>2, Zenon DEF WriterGrabs, WriterBeats, inputVars, keyVars
  <2>2. \/ frame' = Frame(0, "HELLO") /\ nextSeq' = nextSeq /\ wire = <<>>
        \/ frame' = Frame(nextSeq, "PING") /\ nextSeq' = nextSeq + 1 /\ queue = <<>>
    BY <1>2, Zenon DEF WriterGrabs, WriterBeats, ConnTypes
  <2>3. /\ frame' \in Beats /\ frame'.kind # "KEY" /\ frame' # NoFrame
        /\ nextSeq \in Nat \ {0} /\ nextSeq' \in Nat \ {0} /\ nextSeq <= nextSeq' /\ frame'.seq < nextSeq'
        /\ frame = NoFrame
    BY <2>1, <2>2 DEF Beats, Frame, NoFrame, ConnTypes
  <2>4. ~Writing /\ Writing' /\ Sent' = Sent /\ ~Release(frame') /\ ~Fresh(frame')
    BY <2>1, <2>3, Zenon DEF Writing, Sent, Release, Fresh
  <2>5. ConnTypes'
    BY <2>1, <2>3 DEF ConnTypes
  <2>6. NumberInv'
    <3>1. \A i \in DOMAIN wire : wire[i].seq < nextSeq' /\ wire[i].seq < frame'.seq
      BY <2>2, <2>3, FrameTypes DEF NumberInv, Frame
    <3>2. \A j \in DOMAIN queue : queue[j].seq < nextSeq' /\ frame'.seq < queue[j].seq
      BY <2>2, <2>3, FrameTypes DEF NumberInv, Frame
    <3> QED  BY <2>1, <2>3, <3>1, <3>2, Zenon DEF NumberInv
  <2>7. OrderInv'
    BY <2>1, <2>3, <2>4, Zenon DEF OrderInv, Release
  <2>8. GateInv'
    <3>1. \A p \in Sent : p < nextSeq'
      <4>1. \A p \in Sent : p \in Nat
        BY FrameTypes, Zenon DEF Sent
      <4> QED  BY <2>3, <4>1 DEF GateInv
    <3>2. GateInv /\ ~(Writing' /\ Release(frame')) /\ frame'.kind # "KEY" /\ Sent' = Sent
      BY <2>3, <2>4, Zenon
    <3> QED  BY <2>1, <3>1, <3>2, Zenon DEF GateInv, Release
  <2>9. FreshInv'
    <3>1. Opens' = Opens
      BY <2>1, <2>3, <2>4, Zenon DEF Opens, Rearm, IsKey
    <3> QED  BY <2>1, <2>4, <3>1, Zenon DEF FreshInv, Release, Fresh
  <2> QED  BY <2>5, <2>6, <2>7, <2>8, <2>9, Zenon
<1> QED  BY <1>1, <1>2, Zenon

\* The steps of the two closers and of the announcements.
LEMMA AroundWriterInv ==
  ASSUME ConnInv,
         \/ MarkUp \/ FireUp \/ WriterCloses \/ WriterMarksDown \/ WriterFiresDown
         \/ Close \/ Closer \/ PeerBreaks \/ UNCHANGED vars
  PROVE  ConnInv'
<1>1. UNCHANGED <<nextSeq, queue, drops, frame, pressActive, wire, swallowed, held, repeats, rolled>>
  BY Zenon DEF MarkUp, FireUp, WriterCloses, WriterMarksDown, WriterFiresDown, Close, Closer,
         CloserShuts, CloserMarksDown, CloserFiresDown, PeerBreaks, vars, inputVars, keyVars
<1>2. \/ wpc' = wpc
      \/ wpc \in {"markUp", "fireUp"} /\ wpc' \in {"fireUp", "idle"}
      \/ wpc \in {"close", "markDown", "fireDown"} /\ wpc' \in {"done", "markDown", "fireDown"}
  BY Zenon DEF MarkUp, FireUp, WriterCloses, WriterMarksDown, WriterFiresDown, Close, Closer,
         CloserShuts, CloserMarksDown, CloserFiresDown, PeerBreaks, vars
<1>3. ConnTypes'
  BY <1>1, <1>2, Zenon DEF ConnInv, ConnTypes
<1> QED  BY <1>1, <1>2, <1>3, QuietInv, Zenon

\* A connection that start() has made satisfies the invariant.
LEMMA ConnInitInv ==
  ASSUME Init
  PROVE  ConnInv
<1> USE DEF Init
<1>1. /\ queue = <<>> /\ wire = <<>> /\ DOMAIN queue = {} /\ DOMAIN wire = {}
      /\ queue \in Seq(Events) /\ wire \in Seq(Events \cup Beats)
  BY EmptySeq
<1>2. ConnTypes
  <2>1. pressActive \in BOOLEAN /\ rolled \in BOOLEAN
    BY Zenon
  <2> QED  BY <1>1, <2>1 DEF ConnTypes
<1>3. NumberInv /\ OrderInv
  BY <1>1, Zenon DEF NumberInv, OrderInv, Writing
<1>4. Sent = {} /\ ~Writing
  BY <1>1, Zenon DEF Sent, Writing
<1>5. GateInv
  BY <1>1, <1>4, Zenon DEF GateInv
<1>6. Opens
  BY <1>4, Zenon DEF Opens
<1>7. FreshInv
  BY <1>1, <1>4, <1>6, Zenon DEF FreshInv
<1> QED  BY <1>2, <1>3, <1>5, <1>7, Zenon DEF ConnInv

\* The inductive invariant of a lease connection holds in every reachable state.
THEOREM ConnInvariant == Spec => []ConnInv
<1>1. Init => ConnInv
  BY ConnInitInv, Zenon
<1>2. ConnInv /\ [Next]_vars => ConnInv'
  <2> SUFFICES ASSUME ConnInv, [Next]_vars PROVE ConnInv'
    OBVIOUS
  <2>1. CASE Keyboard
    BY <2>1, KeyboardInv, Zenon
  <2>2. CASE WriterGrabs \/ WriterBeats
    BY <2>2, OwnFrameInv, Zenon
  <2>3. CASE WriterSkips
    BY <2>3, WriterSkipsInv, Zenon
  <2>4. CASE WriterChecks
    BY <2>4, WriterChecksInv, Zenon
  <2>5. CASE WriterPuts
    BY <2>5, WriterPutsInv, Zenon
  <2>6. CASE WriterTakes
    BY <2>6, WriterTakesInv, Zenon
  <2>7. CASE \/ MarkUp \/ FireUp \/ WriterCloses \/ WriterMarksDown \/ WriterFiresDown
             \/ Close \/ Closer \/ PeerBreaks \/ UNCHANGED vars
    BY <2>7, AroundWriterInv, Zenon
  <2> QED  BY <2>1, <2>2, <2>3, <2>4, <2>5, <2>6, <2>7, Zenon DEF Next, Writer
<1> QED  BY <1>1, <1>2, PTL DEF Spec

\* The frames of a lease connection are numbered upwards, no press is written
\* twice, and none is lost but to an overflow or to a key that was down: for
\* every capacity of the queue and every keyboard (LeaseConnection.java).
THEOREM OneCommandPerPress == Spec => []OnePerPress
<1>1. ConnInv => OnePerPress
  <2> SUFFICES ASSUME ConnInv PROVE OnePerPress
    OBVIOUS
  <2> USE DEF ConnInv
  <2> DEFINE hand == IF frame = NoFrame THEN <<>> ELSE <<frame>>
             n == Len(wire)
             m == Len(wire) + Len(hand)
  <2>1. /\ hand \in Seq(Events \cup Beats) /\ queue \in Seq(Events \cup Beats) /\ wire \in Seq(Events \cup Beats)
        /\ Len(hand) \in {0, 1} /\ (frame = NoFrame => Len(hand) = 0)
        /\ (frame # NoFrame => Len(hand) = 1 /\ hand[1] = frame)
    <3>1. CASE frame = NoFrame
      BY <3>1, EmptySeq DEF ConnTypes
    <3>2. CASE frame # NoFrame
      BY <3>2 DEF ConnTypes
    <3> QED  BY <3>1, <3>2, Zenon
  <2> HIDE DEF hand
  <2>2. /\ wire \o hand \in Seq(Events \cup Beats) /\ Len(wire \o hand) = m
        /\ \A i \in 1 .. m : (wire \o hand)[i] = IF i <= n THEN wire[i] ELSE hand[i - n]
    BY <2>1, ConcatProperties, Zenon
  <2>3. /\ Len((wire \o hand) \o queue) = m + Len(queue)
        /\ \A i \in 1 .. m + Len(queue) :
             ((wire \o hand) \o queue)[i] = IF i <= m THEN (wire \o hand)[i] ELSE queue[i - m]
    BY <2>1, <2>2, ConcatProperties
  <2>4. InFlight = (wire \o hand) \o queue
    BY Zenon DEF InFlight, hand
  <2>5. n \in Nat /\ m \in Nat /\ Len(queue) \in Nat /\ DOMAIN wire = 1 .. n /\ DOMAIN queue = 1 .. Len(queue)
    BY <2>1, FrameTypes
  <2>6. \A i \in 1 .. Len(InFlight) :
          \/ i \in DOMAIN wire /\ InFlight[i] = wire[i]
          \/ i = n + 1 /\ m = n + 1 /\ frame # NoFrame /\ InFlight[i] = frame
          \/ i > m /\ i - m \in DOMAIN queue /\ InFlight[i] = queue[i - m]
    <3>1. TAKE i \in 1 .. Len(InFlight)
    <3>2. CASE i <= n
      BY <2>1, <2>2, <2>3, <2>4, <2>5, <3>2
    <3>3. CASE i > n /\ i <= m
      <4>1. i = n + 1 /\ m = n + 1 /\ frame # NoFrame /\ hand[1] = frame
        <5>1. Len(hand) # 0 /\ i \in Int
          BY <2>3, <2>4, <2>5, <3>3
        <5>2. Len(hand) = 1 /\ frame # NoFrame /\ hand[1] = frame
          BY <2>1, <5>1, Zenon
        <5> QED  BY <2>5, <3>3, <5>1, <5>2
      <4>2. InFlight[i] = (wire \o hand)[i] /\ (wire \o hand)[i] = hand[1]
        BY <2>2, <2>3, <2>4, <2>5, <3>3, <4>1
      <4> QED  BY <4>1, <4>2, Zenon
    <3>4. CASE i > m
      BY <2>1, <2>3, <2>4, <2>5, <3>4
    <3> QED  BY <2>5, <2>3, <2>4, <3>2, <3>3, <3>4
  <2>7. n <= m /\ Len(InFlight) \in Nat
    BY <2>1, <2>3, <2>4, <2>5
  <2>8. ASSUME NEW i \in 1 .. Len(InFlight), NEW j \in 1 .. Len(InFlight), i < j
        PROVE  InFlight[i].seq < InFlight[j].seq
    <3> HIDE DEF n, m
    <3>1. CASE i \in DOMAIN wire /\ InFlight[i] = wire[i]
      BY <2>5, <2>6, <2>8, <3>1, Zenon DEF NumberInv
    <3>2. CASE i = n + 1 /\ m = n + 1 /\ frame # NoFrame /\ InFlight[i] = frame
      BY <2>5, <2>6, <2>8, <3>2, SMTT(30) DEF NumberInv
    <3>3. CASE i > m /\ i - m \in DOMAIN queue /\ InFlight[i] = queue[i - m]
      <4>1. j > m /\ j - m \in DOMAIN queue /\ InFlight[j] = queue[j - m]
        BY <2>5, <2>6, <2>7, <2>8, <3>3, SMTT(30)
      <4>2. i - m < j - m
        BY <2>5, <2>7, <2>8
      <4> QED  BY <3>3, <4>1, <4>2, Zenon DEF NumberInv
    <3> QED  BY <2>6, <3>1, <3>2, <3>3, Zenon
  <2>9. swallowed # {} => drops > 0 \/ rolled
    BY DEF FreshInv, ConnTypes
  <2> QED  BY <2>8, <2>9, Zenon DEF OnePerPress, GateInv
<1> QED  BY <1>1, ConnInvariant, PTL

\* The threads between having closed the connection and having told of it.
WriterEnding == wpc \in {"markDown", "fireDown"}
CloserEnding == closer \in {"shut", "markDown", "fireDown"}
Told(b) == \E i \in DOMAIN told : told[i] = b
ToldOnce == \A i, j \in DOMAIN told : told[i] = told[j] => i = j

\* Each change of the lease's state reaches the listener at most once, and a lease
\* that was up and is closed is announced down by the time its closer is through.
AnnouncedOnce ==
  /\ ToldOnce
  /\ Told(FALSE) => up /\ closed
  /\ up /\ closed /\ ~WriterEnding /\ ~CloserEnding => Told(FALSE)

\* One thread closes; up is latched before, down after.
AnnounceInv ==
  /\ told \in Seq(BOOLEAN) /\ ToldOnce
  /\ wpc \in {"grab", "write", "put", "markUp", "fireUp", "idle", "close", "markDown", "fireDown", "done"}
  /\ closer \in {"idle", "shut", "markDown", "fireDown", "done"}
  /\ closed \in BOOLEAN /\ up \in BOOLEAN /\ down \in BOOLEAN
  /\ ~closed => ~WriterEnding /\ wpc # "done" /\ closer = "idle" /\ ~down
  /\ ~(WriterEnding /\ CloserEnding)
  /\ (wpc = "markDown" \/ closer \in {"shut", "markDown"}) => ~down
  /\ (wpc = "fireDown" \/ closer = "fireDown") => up
  /\ Told(FALSE) => up /\ closed /\ ~WriterEnding /\ ~CloserEnding
  /\ up /\ closed /\ ~WriterEnding /\ ~CloserEnding => Told(FALSE)
  /\ Told(TRUE) => up
  /\ wpc = "fireUp" => up /\ ~Told(TRUE)

\* A value that is not in a sequence yet is appended to it.
LEMMA AppendNew ==
  ASSUME NEW S, NEW s \in Seq(S), NEW b \in S, NEW t, t = Append(s, b),
         \A i, j \in DOMAIN s : s[i] = s[j] => i = j, ~\E i \in DOMAIN s : s[i] = b
  PROVE  /\ t \in Seq(S) /\ \A i, j \in DOMAIN t : t[i] = t[j] => i = j
         /\ \E i \in DOMAIN t : t[i] = b
         /\ \A c : c # b => ((\E i \in DOMAIN t : t[i] = c) <=> \E i \in DOMAIN s : s[i] = c)
<1>1. /\ t \in Seq(S) /\ DOMAIN s = 1 .. Len(s) /\ DOMAIN t = 1 .. Len(s) + 1 /\ Len(s) \in Nat
      /\ t[Len(s) + 1] = b /\ \A i \in 1 .. Len(s) : t[i] = s[i]
  OBVIOUS
<1>2. \A i, j \in DOMAIN t : t[i] = t[j] => i = j
  <2> SUFFICES ASSUME NEW i \in DOMAIN t, NEW j \in DOMAIN t, t[i] = t[j] PROVE i = j
    OBVIOUS
  <2>1. CASE i \in DOMAIN s /\ j \in DOMAIN s
    BY <1>1, <2>1, Zenon
  <2>2. CASE i \notin DOMAIN s \/ j \notin DOMAIN s
    BY <1>1, <2>2
  <2> QED  BY <2>1, <2>2, Zenon
<1>3. \E i \in DOMAIN t : t[i] = b
  BY <1>1
<1>4. ASSUME NEW c, c # b PROVE (\E i \in DOMAIN t : t[i] = c) <=> \E i \in DOMAIN s : s[i] = c
  BY <1>1, <1>4
<1>5. \A c : c # b => ((\E i \in DOMAIN t : t[i] = c) <=> \E i \in DOMAIN s : s[i] = c)
  BY <1>4, Zenon
<1> QED  BY <1>1, <1>2, <1>3, <1>5, Zenon

\* The listener is called with what it has not been told yet.
LEMMA Tells ==
  ASSUME AnnounceInv, NEW b \in BOOLEAN, ~Told(b), told' = Append(told, b)
  PROVE  /\ told' \in Seq(BOOLEAN) /\ ToldOnce' /\ Told(b)'
         /\ \A c \in BOOLEAN : c # b => (Told(c)' <=> Told(c))
<1>1. PICK S : S = BOOLEAN
  OBVIOUS
<1>2. PICK t : t = told'
  OBVIOUS
<1>3. /\ told \in Seq(S) /\ b \in S /\ t = Append(told, b)
      /\ \A i, j \in DOMAIN told : told[i] = told[j] => i = j
      /\ ~\E i \in DOMAIN told : told[i] = b
  BY <1>1, <1>2, Zenon DEF AnnounceInv, ToldOnce, Told
<1>4. /\ t \in Seq(S) /\ \A i, j \in DOMAIN t : t[i] = t[j] => i = j
      /\ \E i \in DOMAIN t : t[i] = b
      /\ \A c : c # b => ((\E i \in DOMAIN t : t[i] = c) <=> \E i \in DOMAIN told : told[i] = c)
  BY <1>3, AppendNew, SMTT(30)
<1>5. told' \in Seq(BOOLEAN) /\ ToldOnce' /\ Told(b)'
  BY <1>1, <1>2, <1>4, Zenon DEF ToldOnce, Told
<1>6. ASSUME NEW c \in BOOLEAN, c # b PROVE Told(c)' <=> Told(c)
  <2>1. (\E i \in DOMAIN t : t[i] = c) <=> \E i \in DOMAIN told : told[i] = c
    BY <1>4, <1>6, Zenon
  <2>2. (\E i \in DOMAIN told' : told'[i] = c) <=> \E i \in DOMAIN told : told[i] = c
    BY <1>2, <2>1, Zenon
  <2> QED  BY <2>2, Zenon DEF Told
<1> QED  BY <1>5, <1>6, Zenon

\* AnnounceInv holds of a connection for ever.
LEMMA AnnounceInvariant == Spec => []AnnounceInv
<1>1. Init => AnnounceInv
  <2> SUFFICES ASSUME Init PROVE AnnounceInv
    OBVIOUS
  <2>1. told \in Seq(BOOLEAN) /\ DOMAIN told = {}
    BY DEF Init
  <2>2. ToldOnce /\ ~Told(TRUE) /\ ~Told(FALSE)
    BY <2>1, Zenon DEF ToldOnce, Told
  <2> QED  BY <2>1, <2>2, Zenon DEF Init, AnnounceInv, WriterEnding, CloserEnding
<1>2. AnnounceInv /\ [Next]_vars => AnnounceInv'
  <2> SUFFICES ASSUME AnnounceInv, [Next]_vars PROVE AnnounceInv'
    OBVIOUS
  <2>1. told' = told =>
          /\ ToldOnce' /\ told' \in Seq(BOOLEAN)
          /\ (Told(FALSE)' <=> Told(FALSE)) /\ (Told(TRUE)' <=> Told(TRUE))
    BY Zenon DEF AnnounceInv, ToldOnce, Told
  <2> USE DEF AnnounceInv, WriterEnding, CloserEnding, inputVars, keyVars
  <2>2. CASE Keyboard \/ PeerBreaks \/ UNCHANGED vars
    <3>1. UNCHANGED <<closed, up, down, wpc, closer, told>>
      BY <2>2, Zenon DEF Keyboard, PeerBreaks, vars, KeyPressed, KeyRepeated, KeyReleased, route
    <3> QED  BY <2>1, <3>1, Zenon
  <2>3. CASE WriterGrabs \/ WriterSkips \/ WriterChecks \/ WriterPuts \/ WriterTakes \/ WriterBeats
    <3>1. /\ UNCHANGED <<closed, up, down, closer, told>> /\ ~WriterEnding /\ wpc # "fireUp"
          /\ wpc' \in {"write", "put", "markUp", "idle", "close"} \/ (closed /\ wpc' = "done")
      BY <2>3, Zenon DEF WriterGrabs, WriterSkips, WriterChecks, WriterPuts, WriterTakes, WriterBeats
    <3> QED  BY <2>1, <3>1, Zenon
  <2>4. CASE MarkUp
    BY <2>1, <2>4, Zenon DEF MarkUp
  <2>5. CASE FireUp
    BY <2>5, Tells, Zenon DEF FireUp
  <2>6. CASE WriterCloses
    BY <2>1, <2>6, Zenon DEF WriterCloses
  <2>7. CASE WriterMarksDown
    BY <2>1, <2>7, Zenon DEF WriterMarksDown
  <2>8. CASE WriterFiresDown
    BY <2>8, Tells, Zenon DEF WriterFiresDown
  <2>9. CASE Close
    BY <2>1, <2>9, Zenon DEF Close
  <2>10. CASE CloserShuts
    BY <2>1, <2>10, Zenon DEF CloserShuts
  <2>11. CASE CloserMarksDown
    BY <2>1, <2>11, Zenon DEF CloserMarksDown
  <2>12. CASE CloserFiresDown
    BY <2>12, Tells, Zenon DEF CloserFiresDown
  <2> QED
    BY <2>2, <2>3, <2>4, <2>5, <2>6, <2>7, <2>8, <2>9, <2>10, <2>11, <2>12, Zenon
    DEF Next, Writer, Closer
<1> QED  BY <1>1, <1>2, PTL DEF Spec

\* However close() on the lifecycle thread meets the writer's own, one of them
\* announces the end of the lease, once, and neither announces a lease that never
\* came up.
THEOREM LeaseIsAnnouncedOnce == Spec => []AnnouncedOnce
<1>1. AnnounceInv => AnnouncedOnce
  BY Zenon DEF AnnounceInv, AnnouncedOnce
<1> QED  BY <1>1, AnnounceInvariant, PTL
=============================================================================

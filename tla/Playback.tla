------------------------------ MODULE Playback ------------------------------
(***************************************************************************)
(* The receive path of a session as its lock serialises it: the receiver's *)
(* insert (rx_insert), one iteration of the player up to the point where   *)
(* it releases the lock (pl_thread) and the FLUSH (session_flush), each    *)
(* one critical section over the jitter buffer of module Jitter.  What the *)
(* threads do outside the lock is in module Session.                       *)
(*                                                                         *)
(* The environment is a sender that numbers its packets 0, 1, 2, ... by    *)
(* media position, and a network that loses, duplicates, delays and        *)
(* reorders them.  An epoch is what the sender streams between two FLUSHes;*)
(* it has its own sequence numbering, while timestamps run on.             *)
(***************************************************************************)
EXTENDS Jitter, Sequences

CONSTANTS
  FILL,        \* accepted packets that open the start gate   (63)
  HOLD,        \* iterations between two resyncs              (64)
  FIRST,       \* media position of the first packet
  SEQS,        \* wire sequence numbers an epoch may start at
  LAG,         \* how late a packet may be, in packets
  JUMP,        \* how many consecutive packets may be lost, plus one
  EPOCH_MAX,   \* longest epoch, in packets
  BURST,       \* how far a paced sender runs ahead of playback (~140)
  LAST,        \* bound: last media position the sender reaches
  MAX_EPOCHS   \* bound: number of epochs

ASSUME PlaybackAssumption ==
  /\ FILL \in Nat \ {0} /\ HOLD \in Nat /\ FIRST \in Nat
  /\ SEQS \subseteq 0 .. SeqMod - 1
  /\ LAG \in Nat /\ JUMP \in Nat \ {0} /\ LAG < SeqHalf /\ JUMP < SeqHalf
  /\ LAG <= TsHalf /\ EPOCH_MAX \in Nat \ {0}
  /\ BURST \in Nat /\ FILL <= BURST /\ BURST <= JITTER_SLOTS
  /\ LAST \in Nat /\ MAX_EPOCHS \in Nat \ {0}

VARIABLES
  epochs,       \* the sender's epochs so far: [first: position, seq: wire number]
  flushed,      \* a FLUSH has armed the timestamp check
  boundary_ts,  \* timestamp of the last FLUSH
  rx_count,     \* accepted packets since the last FLUSH, saturating at FILL
  started,      \* the player has passed the start gate
  resync_hold,  \* iterations before the next resync is allowed
  out           \* the last emission of the player

vars == <<jvars, epochs, flushed, boundary_ts, rx_count, started, resync_hold, out>>

-----------------------------------------------------------------------------
\* The sender: epoch k streams position n under extended number ExtOf(k, n).
cur == Len(epochs)
ExtOf(k, n)  == epochs[k].seq + (n - epochs[k].first)
WireOf(k, n) == ExtOf(k, n) % SeqMod
TsOf(n)      == n % TsMod

\* Position of an extended number of the current epoch.
PosOf(e) == epochs[cur].first + (e - epochs[cur].seq)

\* The newest position that has reached the receiver in this epoch.
Newest == PosOf(seq_ref)

\* A packet the network may deliver now: of this epoch, around the newest one,
\* or a straggler of an earlier epoch.
MayArrive(k, n) ==
  \/ /\ k = cur
     /\ epochs[cur].first <= n /\ n < epochs[cur].first + EPOCH_MAX /\ n <= LAST
     /\ Newest - LAG <= n /\ n <= Newest + JUMP
  \/ /\ k < cur
     /\ epochs[k].first <= n /\ n < epochs[k + 1].first
     /\ epochs[cur].first - LAG <= n

Init ==
  /\ \E s \in SEQS : JitterInit(s) /\ epochs = <<[first |-> FIRST, seq |-> s]>>
  /\ flushed = FALSE
  /\ boundary_ts = 0
  /\ rx_count = 0
  /\ started = FALSE
  /\ resync_hold = 0
  /\ out = [kind |-> "none", epoch |-> 0, n |-> 0]

-----------------------------------------------------------------------------
\* Faulty variant: an unsigned compare, which a timestamp wrap defeats.
RejectStaleUnsigned(ts) == flushed /\ ts < boundary_ts

\* Faulty variant: the packet at the boundary itself counts as stale.
RejectStaleOrEqual(ts) == flushed /\ (TsBefore(ts, boundary_ts) \/ ts = boundary_ts)

\* session_reject_stale_audio.
RejectStale(ts) == flushed /\ TsBefore(ts, boundary_ts)

\* rx_insert of packet n of epoch k.
RxInsert(k, n) ==
  /\ MayArrive(k, n)
  /\ IF RejectStale(TsOf(n))
     THEN UNCHANGED <<jvars, rx_count>>
     ELSE /\ JitterInsert(WireOf(k, n), [epoch |-> k, n |-> n])
          /\ rx_count' = IF InsertAccepts(WireOf(k, n)) /\ rx_count < FILL
                         THEN rx_count + 1 ELSE rx_count
  /\ UNCHANGED <<epochs, flushed, boundary_ts, started, resync_hold, out>>

\* The start gate of pl_thread: open, or opened by this iteration.
Filled == started \/ rx_count >= FILL

\* Faulty variant: only an iteration that plays something decrements.
HoldNextOnPlay ==
  IF resync_hold > 0 /\ Filled /\ ~PopStalls THEN resync_hold - 1 ELSE resync_hold

\* resync_hold after the decrement every iteration makes.
HoldNext == IF resync_hold > 0 THEN resync_hold - 1 ELSE resync_hold

\* One iteration of pl_thread, by outcome.
PlayerWait ==
  /\ ~Filled
  /\ resync_hold' = HoldNext
  /\ UNCHANGED <<jvars, started, out>>

PlayerData ==
  /\ Filled
  /\ PopData
  /\ out' = [kind |-> "data", epoch |-> SlotFor(play_cursor).pkt.epoch,
             n |-> SlotFor(play_cursor).pkt.n]
  /\ started' = TRUE
  /\ resync_hold' = HoldNext

PlayerConceal ==
  /\ Filled
  /\ PopConceal
  /\ out' = [kind |-> "silence", epoch |-> cur, n |-> PosOf(play_cursor)]
  /\ started' = TRUE
  /\ resync_hold' = HoldNext

PlayerResync ==
  /\ Filled
  /\ PopStalls
  /\ HoldNext = 0
  /\ TryResync
  /\ started' = TRUE
  /\ resync_hold' = HOLD
  /\ out' = out

PlayerStall ==
  /\ Filled
  /\ PopStalls
  /\ HoldNext = 0 => ~CanResync
  /\ started' = TRUE
  /\ resync_hold' = HoldNext
  /\ UNCHANGED <<jvars, out>>

Player ==
  /\ PlayerWait \/ PlayerData \/ PlayerConceal \/ PlayerResync \/ PlayerStall
  /\ UNCHANGED <<epochs, flushed, boundary_ts, rx_count>>

\* session_flush to the sender's next epoch, which starts at position n under
\* wire number s.  Positions run on: n is beyond everything received so far.
SessionFlush(n, s) ==
  /\ cur < MAX_EPOCHS
  /\ n > Newest /\ n <= Newest + JUMP /\ n <= LAST
  /\ epochs' = Append(epochs, [first |-> n, seq |-> s])
  /\ JitterFlush(s)
  /\ boundary_ts' = TsOf(n)
  /\ flushed' = TRUE
  /\ started' = FALSE
  /\ rx_count' = 0
  /\ UNCHANGED <<resync_hold, out>>

Next ==
  \/ \E k \in 1 .. cur, n \in FIRST .. LAST : RxInsert(k, n)
  \/ Player
  \/ \E n \in FIRST .. LAST, s \in SEQS : SessionFlush(n, s)

Spec == Init /\ [][Next]_vars

\* The environment of a good network and a paced sender: packets arrive in
\* order and without loss, and the sender stays within BURST of the playback
\* position, as the comment on START_FILL_FRAMES describes real senders.
PacedRx ==
  LET n == IF rx_count = 0 THEN epochs[cur].first ELSE Newest + 1 IN
  n < PosOf(play_cursor) + BURST /\ RxInsert(cur, n)

PacedFlush ==
  \E s \in SEQS : Newest + FILL <= LAST /\ SessionFlush(Newest + 1, s)

PacedNext == PacedRx \/ Player \/ PacedFlush

-----------------------------------------------------------------------------
Packet == [epoch : Nat, n : Nat] \cup {NoPkt}

\* The types of the state: ring slots, cursors and counters of the session.
TypeOK ==
  /\ ring \in [Slots -> [gen : Nat, ext : Nat, state : SlotStates, pkt : Packet]]
  /\ seq_ref \in Nat /\ gen \in Nat /\ play_cursor \in Nat /\ boundary \in Nat
  /\ epochs \in Seq([first : Nat, seq : 0 .. SeqMod - 1])
  /\ flushed \in BOOLEAN /\ boundary_ts \in 0 .. TsMod - 1
  /\ rx_count \in 0 .. FILL /\ started \in BOOLEAN /\ resync_hold \in 0 .. HOLD
  /\ out \in [kind : {"none", "data", "silence"}, epoch : Nat, n : Nat]

\* Every packet waiting in the ring under extended number e is the packet the
\* sender numbered e in the current epoch: neither 16-bit wrap, ring aliasing
\* nor a straggler of an old epoch puts another packet in its place
\* (seqext_seq, jitter_insert and session_reject_stale_audio together).
RingFaithful ==
  \A i \in Slots :
    ring[i].gen = gen /\ ring[i].state = "RECEIVED" =>
      /\ ring[i].pkt = [epoch |-> cur, n |-> PosOf(ring[i].ext)]
      /\ boundary <= ring[i].ext /\ ring[i].ext <= seq_ref

\* session_flush moves the boundary to the newest epoch and arms the timestamp
\* check with its start.
EpochsOK ==
  /\ cur >= 1
  /\ boundary = epochs[cur].seq
  /\ cur > 1 => flushed
  /\ flushed => boundary_ts = TsOf(epochs[cur].first)
  /\ \A i \in 1 .. cur : epochs[i].first <= epochs[cur].first

\* The cursor and the reference stay between the boundary and the newest packet.
CursorsOK ==
  boundary <= play_cursor /\ boundary <= seq_ref /\ play_cursor <= seq_ref + 1

\* The inductive strengthening of RingFaithful; no slot is of a later generation.
IInv ==
  /\ TypeOK /\ RingFaithful /\ EpochsOK /\ CursorsOK
  /\ \A i \in Slots : ring[i].gen <= gen

\* The receive path keeps the promise of module Playout to the listener.
PlayoutPromise == INSTANCE Playout WITH epoch <- cur, pos <- PosOf(play_cursor)
PlayoutSpec == PlayoutPromise!Spec

\* As long as the newest packet is less than a ring ahead of the cursor, no
\* step loses a received packet that is still to be played; only a FLUSH does.
NoReceivedLost ==
  [][\A e \in Ahead :
       /\ gen' = gen
       /\ e >= play_cursor'
       /\ seq_ref' < play_cursor + JITTER_SLOTS
       => e \in Ahead']_vars

\* A packet that jitter_next_resend asks for is one jitter_insert would extend
\* to the number asked for and accept, so an answered resend fills the hole.
ResendWanted ==
  \A r \in ResendRanges : \A e \in r[1] .. r[2] :
    SeqExtend(seq_ref, e % SeqMod) = e /\ InsertAccepts(e % SeqMod)

\* session_reject_stale_audio drops no packet of the current epoch: it is a
\* check for "a stale pre-FLUSH straggler" (session.h).
NoFreshRejected ==
  \A n \in FIRST .. LAST : MayArrive(cur, n) => ~RejectStale(TsOf(n))

\* A stall that a resync would end does not last: resync_hold runs down in
\* every iteration of pl_thread, also in those that only stall.
ResyncNotWithheld == []<>~(Filled /\ PopStalls /\ CanResync)
=============================================================================

--------------------------- MODULE PlaybackProofs ---------------------------
(***************************************************************************)
(* The receive path, for every counter width, ring size, window and        *)
(* threshold.  First what the wire-counter arithmetic of module SeqExt     *)
(* computes: the extension recovers the sender's number, and the timestamp *)
(* compare its order, as long as the two numbers compared are less than    *)
(* half the counter's range apart.  Then module Playback: the ring holds   *)
(* what the sender meant, loses nothing that fits, asks for nothing it     *)
(* would refuse, and what comes out of it is what module Playout promises. *)
(***************************************************************************)
EXTENDS MCPlayback, TLAPS

\* Quotient and remainder.
LEMMA DivMod ==
  ASSUME NEW x \in Int, NEW M \in Nat \ {0}
  PROVE  x = M * (x \div M) + (x % M) /\ x \div M \in Int /\ x % M \in 0 .. M - 1
OBVIOUS

\* The remainder is determined by the number.
LEMMA RemainderUnique ==
  ASSUME NEW M \in Nat \ {0}, NEW q \in Int, NEW p \in Int,
         NEW r \in 0 .. M - 1, NEW s \in 0 .. M - 1, M * q + r = M * p + s
  PROVE  r = s
<1>1. CASE q > p
  <2>1. M * (q - p) >= M
    BY <1>1
  <2>2. M * q - M * p = M * (q - p)
    OBVIOUS
  <2>3. QED
    BY <2>1, <2>2
<1>2. CASE q < p
  <2>1. M * (p - q) >= M
    BY <1>2
  <2>2. M * p - M * q = M * (p - q)
    OBVIOUS
  <2>3. QED
    BY <2>1, <2>2
<1>3. CASE q = p
  BY <1>3
<1>4. QED
  BY <1>1, <1>2, <1>3

\* Adding a multiple of the modulus does not change the remainder.
LEMMA ModShift ==
  ASSUME NEW x \in Int, NEW M \in Nat \ {0}, NEW k \in Int
  PROVE  (x + M * k) % M = x % M
<1> DEFINE a == x % M
           b == (x + M * k) % M
           q == x \div M
           p == (x + M * k) \div M
<1>1. M * k \in Int
  OBVIOUS
<1>2. a \in 0 .. M - 1 /\ b \in 0 .. M - 1 /\ q \in Int /\ p \in Int
  BY <1>1, DivMod
<1>3. x = M * q + a /\ x + M * k = M * p + b
  BY <1>1, DivMod
<1> HIDE DEF a, b, q, p
<1>4. M * (q + k) = M * q + M * k
  BY <1>2
<1>5. M * (q + k) + a = M * p + b
  BY <1>2, <1>3, <1>4
<1>6. a = b
  BY <1>2, <1>5, RemainderUnique
<1>7. QED
  BY <1>6, Zenon DEF a, b

\* The difference of two wire numbers is the wire number of the difference.
LEMMA ModDifference ==
  ASSUME NEW M \in Nat \ {0}, NEW n \in Int, NEW m \in Int
  PROVE  ((n % M) - (m % M)) % M = (n - m) % M
<1> DEFINE a == n % M
           b == m % M
           q == n \div M
           p == m \div M
<1>1. a \in 0 .. M - 1 /\ b \in 0 .. M - 1 /\ q \in Int /\ p \in Int
  BY DivMod, Zenon
<1>2. n = M * q + a /\ m = M * p + b
  BY DivMod, Zenon
<1> HIDE DEF a, b, q, p
<1>3. M * (q - p) = M * q - M * p
  BY <1>1
<1>4. M * q \in Int /\ M * p \in Int
  BY <1>1
<1>5. n - m = (a - b) + M * (q - p)
  BY <1>1, <1>2, <1>3, <1>4
<1>6. ((a - b) + M * (q - p)) % M = (a - b) % M
  <2>1. a - b \in Int /\ q - p \in Int
    BY <1>1
  <2>2. QED
    BY <2>1, ModShift, Zenon
<1>7. QED
  BY <1>5, <1>6, Zenon DEF a, b

\* The C cast of a wire difference gives back any distance that fits.
LEMMA SignedDistance ==
  ASSUME NEW half \in Nat \ {0}, NEW n \in Int, NEW m \in Int,
         -half <= n - m, n - m < half
  PROVE  Signed((n % (2 * half)) - (m % (2 * half)), half) = n - m
<1> DEFINE d == n - m
<1>1. ((n % (2 * half)) - (m % (2 * half))) % (2 * half) = d % (2 * half)
  <2>1. 2 * half \in Nat \ {0}
    OBVIOUS
  <2>2. QED
    BY <2>1, ModDifference, Zenon
<1>2. d % (2 * half) = IF d < 0 THEN d + 2 * half ELSE d
  OBVIOUS
<1>3. QED
  BY <1>1, <1>2 DEF Signed

\* seqext_seq recovers the extended number of a packet that is less than half
\* the sequence space away from the reference, across any number of wraps.
THEOREM SeqExtendExact ==
  ASSUME NEW ref \in Nat, NEW n \in Nat, -SeqHalf < n - ref, n - ref < SeqHalf
  PROVE  SeqExtend(ref, n % SeqMod) = n /\ ~SeqRefused(ref, n % SeqMod)
<1>1. SeqDelta(ref, n % SeqMod) = n - ref
  <2>1. SeqHalf \in Nat \ {0} /\ n \in Int /\ ref \in Int /\ -SeqHalf <= n - ref
    BY WidthAssumption
  <2>2. Signed((n % (2 * SeqHalf)) - (ref % (2 * SeqHalf)), SeqHalf) = n - ref
    BY <2>1, SignedDistance, Zenon
  <2>3. QED
    BY <2>2, Zenon DEF SeqDelta, SeqMod
<1>2. QED
  BY <1>1, WidthAssumption DEF SeqExtend, SeqRefused

\* session_reject_stale_audio's compare is the order of the full timestamps
\* when they are less than half the timestamp space apart.
THEOREM TsBeforeExact ==
  ASSUME NEW n \in Nat, NEW m \in Nat, -TsHalf <= n - m, n - m < TsHalf
  PROVE  TsBefore(n % TsMod, m % TsMod) <=> n < m
<1>1. Signed((n % TsMod) - (m % TsMod), TsHalf) = n - m
  <2>1. TsHalf \in Nat \ {0} /\ n \in Int /\ m \in Int
    BY WidthAssumption
  <2>2. Signed((n % (2 * TsHalf)) - (m % (2 * TsHalf)), TsHalf) = n - m
    BY <2>1, SignedDistance, Zenon
  <2>3. QED
    BY <2>2, Zenon DEF TsMod
<1>2. QED
  BY <1>1 DEF TsBefore

-----------------------------------------------------------------------------
USE WidthAssumption, JitterAssumption, PlaybackAssumption

Epoch == [first : Nat, seq : 0 .. SeqMod - 1]

\* A packet has a slot.
LEMMA SlotIndex ==
  ASSUME NEW e \in Nat
  PROVE  e % JITTER_SLOTS \in Slots
BY DEF Slots

\* The current epoch exists.
LEMMA CurrentEpoch ==
  ASSUME IInv
  PROVE  /\ cur \in Nat \ {0} /\ epochs \in Seq(Epoch)
         /\ epochs[cur].first \in Nat /\ epochs[cur].seq \in Nat
<1>1. epochs \in Seq(Epoch) /\ cur >= 1
  BY Zenon DEF IInv, TypeOK, EpochsOK, Epoch
<1>2. cur \in Nat \ {0} /\ epochs[cur] \in Epoch
  BY <1>1 DEF cur
<1>3. QED
  BY <1>1, <1>2 DEF Epoch, SeqMod

\* A packet that a pop finds is the one the sender numbered so, and its number
\* is between the boundary and the reference.
LEMMA HoldsSenders ==
  ASSUME IInv, NEW e \in Nat, Holds(e)
  PROVE  /\ boundary <= e /\ e <= seq_ref
         /\ SlotFor(e).pkt = [epoch |-> cur, n |-> PosOf(e)]
BY SlotIndex, Zenon DEF IInv, RingFaithful, Holds, SlotFor

\* Positions of the current epoch are natural numbers.
LEMMA PosNat ==
  ASSUME IInv, NEW e \in Nat, boundary <= e
  PROVE  PosOf(e) \in Nat
BY CurrentEpoch, SMTT(30) DEF IInv, EpochsOK, PosOf

\* A packet sent before an epoch began, and at most LAG late, is no more than
\* half the timestamp counter older than the epoch's first one.
LEMMA StragglerDistance ==
  ASSUME NEW n \in Nat, NEW next \in Nat, NEW first \in Nat,
         n < next, next <= first, first - LAG <= n
  PROVE  n < first /\ -TsHalf <= n - first
<1>1. LAG \in Nat /\ TsHalf \in Nat /\ LAG <= TsHalf
  BY Zenon
<1>2. QED
  BY <1>1

\* The timestamp check rejects every straggler of an earlier epoch.
LEMMA StragglerRejected ==
  ASSUME IInv, NEW k \in 1 .. cur, NEW n \in Nat, MayArrive(k, n), k # cur
  PROVE  RejectStale(TsOf(n))
<1>1. cur \in Nat \ {0} /\ epochs[cur].first \in Nat /\ epochs \in Seq(Epoch)
  BY CurrentEpoch, Zenon
<1>2. k < cur /\ k + 1 \in 1 .. cur
  BY <1>1
<1>3. n < epochs[k + 1].first /\ epochs[cur].first - LAG <= n
  BY <1>2, Zenon DEF MayArrive
<1>4. epochs[k + 1].first <= epochs[cur].first /\ epochs[k + 1].first \in Nat
  <2>1. epochs[k + 1] \in Epoch
    BY <1>1, <1>2 DEF cur
  <2>2. QED
    BY <1>2, <2>1, Zenon DEF IInv, EpochsOK, Epoch
<1>5. n < epochs[cur].first /\ -TsHalf <= n - epochs[cur].first
  BY <1>1, <1>3, <1>4, StragglerDistance, Zenon
<1>6. TsBefore(n % TsMod, epochs[cur].first % TsMod)
  BY <1>1, <1>5, TsBeforeExact
<1>7. flushed /\ boundary_ts = TsOf(epochs[cur].first)
  BY <1>1, <1>2 DEF IInv, EpochsOK
<1>8. QED
  BY <1>6, <1>7, Zenon DEF RejectStale, TsOf

\* A packet of the current epoch is extended to the sender's number for it.
LEMMA CurrentExtended ==
  ASSUME IInv, NEW n \in Nat, MayArrive(cur, n)
  PROVE  /\ ExtOf(cur, n) \in Nat
         /\ SeqExtend(seq_ref, WireOf(cur, n)) = ExtOf(cur, n)
         /\ ~SeqRefused(seq_ref, WireOf(cur, n))
         /\ PosOf(ExtOf(cur, n)) = n
<1>1. cur \in Nat /\ epochs[cur].first \in Nat /\ epochs[cur].seq \in Nat /\ seq_ref \in Nat
  BY CurrentEpoch, Zenon DEF IInv, TypeOK
<1>2. /\ epochs[cur].first <= n
      /\ PosOf(seq_ref) - LAG <= n /\ n <= PosOf(seq_ref) + JUMP
  BY <1>1 DEF MayArrive, Newest
<1>3. /\ ExtOf(cur, n) \in Nat
      /\ ExtOf(cur, n) - seq_ref = n - PosOf(seq_ref)
      /\ PosOf(ExtOf(cur, n)) = n
  BY <1>1, <1>2 DEF ExtOf, PosOf
<1>4. PosOf(seq_ref) \in Int
  BY <1>1 DEF PosOf
<1>5. -SeqHalf < ExtOf(cur, n) - seq_ref /\ ExtOf(cur, n) - seq_ref < SeqHalf
  BY <1>2, <1>3, <1>4
<1>6. QED
  BY <1>1, <1>3, <1>5, SeqExtendExact, Zenon DEF WireOf

-----------------------------------------------------------------------------
\* What jitter_init leaves satisfies the strengthening.
LEMMA InitIInv == Init => IInv
<1> SUFFICES ASSUME Init PROVE IInv
  OBVIOUS
<1>1. PICK s \in SEQS : JitterInit(s) /\ epochs = <<[first |-> FIRST, seq |-> s]>>
  BY Zenon DEF Init
<1>2. s \in Nat /\ s \in 0 .. SeqMod - 1
  BY DEF SeqMod
<1>3. /\ epochs \in Seq(Epoch) /\ Len(epochs) = 1
      /\ epochs[1].first = FIRST /\ epochs[1].seq = s
  BY <1>1, <1>2 DEF Epoch
<1>4. flushed \in BOOLEAN /\ started \in BOOLEAN
  BY Zenon DEF Init
<1>5. TypeOK
  <2>1. ring \in [Slots -> [gen : Nat, ext : Nat, state : SlotStates, pkt : Packet]]
    BY <1>1, Zenon DEF JitterInit, SlotStates, Packet
  <2>2. QED
    BY <1>1, <1>2, <1>3, <1>4, <2>1 DEF TypeOK, Init, JitterInit, Epoch, TsMod
<1>6. ~flushed
  BY Zenon DEF Init
<1>7. QED
  BY <1>1, <1>2, <1>3, <1>5, <1>6 DEF IInv, EpochsOK, CursorsOK, RingFaithful, JitterInit, cur

\* rx_insert: a straggler changes nothing, a packet of the current epoch goes
\* to the slot of the number the sender gave it.
LEMMA RxInsertIInv ==
  ASSUME IInv, NEW k \in 1 .. cur, NEW n \in Nat, RxInsert(k, n)
  PROVE  IInv'
<1> USE DEF jvars
<1> DEFINE w == WireOf(k, n)
           e == SeqExtend(seq_ref, w)
<1>1. CASE RejectStale(TsOf(n))
  BY <1>1, SMTT(30) DEF RxInsert, IInv, TypeOK, RingFaithful, EpochsOK, CursorsOK, cur, PosOf, TsOf
<1>2. CASE ~RejectStale(TsOf(n))
  <2>1. k = cur
    BY <1>2, StragglerRejected, Zenon DEF RxInsert
  <2>2. MayArrive(cur, n) /\ cur \in Nat
    BY <2>1, CurrentEpoch, Zenon DEF RxInsert
  <2>3. e \in Nat /\ PosOf(e) = n /\ ~SeqRefused(seq_ref, w)
    BY <2>1, <2>2, CurrentExtended, Zenon
  <2>4. /\ seq_ref' = SeqAdvance(seq_ref, w)
        /\ ring' = IF InsertAccepts(w)
                   THEN [ring EXCEPT ![e % JITTER_SLOTS] =
                           [gen |-> gen, ext |-> e, state |-> "RECEIVED",
                            pkt |-> [epoch |-> k, n |-> n]]]
                   ELSE ring
        /\ UNCHANGED <<gen, play_cursor, boundary>>
        /\ UNCHANGED <<epochs, flushed, boundary_ts, started, resync_hold, out>>
    BY <1>2, <2>3, Zenon DEF RxInsert, JitterInsert
  <2>5. rx_count' \in 0 .. FILL
    BY <1>2 DEF RxInsert, IInv, TypeOK
  <2>6. /\ seq_ref \in Nat /\ seq_ref' \in Nat
        /\ seq_ref <= seq_ref' /\ e <= seq_ref'
    <3>1. seq_ref \in Nat
      BY Zenon DEF IInv, TypeOK
    <3>2. seq_ref' = IF e > seq_ref THEN e ELSE seq_ref
      BY <2>4, Zenon DEF SeqAdvance
    <3> HIDE DEF e
    <3>3. QED
      BY <2>3, <3>1, <3>2
  <2>7. InsertAccepts(w) => boundary <= e
    BY <2>3, Zenon DEF InsertAccepts, IInv, TypeOK
  <2> HIDE DEF w, e
  <2>8. ring' \in [Slots -> [gen : Nat, ext : Nat, state : SlotStates, pkt : Packet]]
    <3>1. [epoch |-> k, n |-> n] \in Packet /\ gen \in Nat
      BY <2>1, <2>2, Zenon DEF IInv, TypeOK, Packet
    <3>2. [gen |-> gen, ext |-> e, state |-> "RECEIVED", pkt |-> [epoch |-> k, n |-> n]]
            \in [gen : Nat, ext : Nat, state : SlotStates, pkt : Packet]
      BY <2>3, <3>1, Zenon DEF SlotStates
    <3>3. ring \in [Slots -> [gen : Nat, ext : Nat, state : SlotStates, pkt : Packet]]
      BY Zenon DEF IInv, TypeOK
    <3>4. QED
      BY <2>4, <3>2, <3>3, Zenon
  <2>9. TypeOK'
    BY <2>4, <2>5, <2>6, <2>8, Zenon DEF IInv, TypeOK
  <2>10. cur' = cur /\ \A x : PosOf(x)' = PosOf(x)
    BY <2>4, Zenon DEF cur, PosOf
  <2>11. RingFaithful'
    <3> SUFFICES ASSUME NEW i \in Slots, ring'[i].gen = gen', ring'[i].state = "RECEIVED"
                 PROVE  /\ ring'[i].pkt = [epoch |-> cur, n |-> PosOf(ring'[i].ext)]
                        /\ boundary <= ring'[i].ext /\ ring'[i].ext <= seq_ref'
      BY <2>4, <2>10, Zenon DEF RingFaithful, cur, PosOf
    <3>1. CASE InsertAccepts(w) /\ i = e % JITTER_SLOTS
      <4>1. ring'[i] = [gen |-> gen, ext |-> e, state |-> "RECEIVED",
                        pkt |-> [epoch |-> k, n |-> n]]
        BY <2>4, <3>1, Zenon DEF IInv, TypeOK
      <4>2. QED
        BY <2>1, <2>3, <2>6, <2>7, <3>1, <4>1
    <3>2. CASE ~(InsertAccepts(w) /\ i = e % JITTER_SLOTS)
      <4>1. ring'[i] = ring[i] /\ gen' = gen
        BY <2>4, <3>2, Zenon DEF IInv, TypeOK
      <4>2. ring[i].ext \in Nat
        BY Zenon DEF IInv, TypeOK
      <4>3. QED
        BY <2>6, <4>1, <4>2 DEF IInv, RingFaithful
    <3>3. QED
      BY <3>1, <3>2, Zenon
  <2>12. \A i \in Slots : ring'[i].gen <= gen'
    BY <2>4 DEF IInv, TypeOK
  <2>13. EpochsOK'
    BY <2>4, Zenon DEF IInv, EpochsOK, TsOf, cur
  <2>14. CursorsOK'
    BY <2>4, <2>6, SMTT(30) DEF IInv, TypeOK, CursorsOK
  <2>15. QED
    BY <2>9, <2>11, <2>12, <2>13, <2>14, Zenon DEF IInv
<1>3. QED
  BY <1>1, <1>2, Zenon

\* A step of the player that only marks the slot at the cursor, or nothing, and
\* moves the cursor forward within the received packets.
LEMMA CursorMoveIInv ==
  ASSUME IInv,
         UNCHANGED <<seq_ref, gen, boundary, epochs, flushed, boundary_ts, rx_count>>,
         ring' \in [Slots -> [gen : Nat, ext : Nat, state : SlotStates, pkt : Packet]],
         \A i \in Slots : ring'[i] # ring[i] =>
                             ring'[i].state # "RECEIVED" /\ ring'[i].gen = gen,
         play_cursor' \in Nat, play_cursor <= play_cursor', play_cursor' <= seq_ref + 1,
         started' \in BOOLEAN, resync_hold' \in 0 .. HOLD,
         out' \in [kind : {"none", "data", "silence"}, epoch : Nat, n : Nat]
  PROVE  IInv'
<1>1. TypeOK'
  BY Zenon DEF IInv, TypeOK
<1>2. cur' = cur /\ \A x : PosOf(x)' = PosOf(x)
  BY Zenon DEF cur, PosOf
<1>3. RingFaithful'
  <2> SUFFICES ASSUME NEW i \in Slots, ring'[i].gen = gen', ring'[i].state = "RECEIVED"
               PROVE  /\ ring'[i].pkt = [epoch |-> cur, n |-> PosOf(ring'[i].ext)]
                      /\ boundary <= ring'[i].ext /\ ring'[i].ext <= seq_ref
    BY <1>2, Zenon DEF RingFaithful, cur, PosOf
  <2>1. ring'[i] = ring[i]
    OBVIOUS
  <2>2. QED
    BY <2>1, Zenon DEF IInv, RingFaithful
<1>4. \A i \in Slots : ring'[i].gen <= gen'
  <2> SUFFICES ASSUME NEW i \in Slots PROVE ring'[i].gen <= gen
    OBVIOUS
  <2>1. CASE ring'[i] = ring[i]
    BY <2>1, Zenon DEF IInv
  <2>2. CASE ring'[i].gen = gen
    BY <2>2 DEF IInv, TypeOK
  <2>3. QED
    BY <2>1, <2>2, Zenon
<1>5. EpochsOK'
  BY Zenon DEF IInv, EpochsOK, TsOf, cur
<1>6. CursorsOK'
  BY DEF IInv, TypeOK, CursorsOK
<1>7. QED
  BY <1>1, <1>3, <1>4, <1>5, <1>6, Zenon DEF IInv

\* The outcomes of one iteration of pl_thread.
LEMMA PlayerIInv == IInv /\ Player => IInv'
<1> SUFFICES ASSUME IInv, Player PROVE IInv'
  OBVIOUS
<1> DEFINE SlotSet == [gen : Nat, ext : Nat, state : SlotStates, pkt : Packet]
           idx == play_cursor % JITTER_SLOTS
<1> USE DEF jvars
<1>1. /\ ring \in [Slots -> SlotSet] /\ play_cursor \in Nat /\ seq_ref \in Nat /\ gen \in Nat
      /\ started \in BOOLEAN /\ boundary \in Nat
      /\ out \in [kind : {"none", "data", "silence"}, epoch : Nat, n : Nat]
  BY Zenon DEF IInv, TypeOK
<1>2. HoldNext \in 0 .. HOLD
  BY DEF IInv, TypeOK, HoldNext
<1>3. boundary <= play_cursor /\ play_cursor <= seq_ref + 1 /\ cur \in Nat
  BY CurrentEpoch, Zenon DEF IInv, CursorsOK
<1>4. PosOf(play_cursor) \in Nat
  BY <1>1, <1>3, PosNat, Zenon
<1>5. idx \in Slots
  BY <1>1, SlotIndex, Zenon
<1>6. UNCHANGED <<epochs, flushed, boundary_ts, rx_count>>
  BY Zenon DEF Player
<1>7. CASE PlayerWait
  BY <1>1, <1>2, <1>3, <1>6, <1>7, CursorMoveIInv DEF PlayerWait
<1>8. CASE PlayerData
  <2>1. Holds(play_cursor) /\ PopData
    BY <1>8, Zenon DEF PlayerData, PopData
  <2>2. SlotFor(play_cursor).pkt = [epoch |-> cur, n |-> PosOf(play_cursor)]
        /\ play_cursor <= seq_ref
    BY <1>1, <2>1, HoldsSenders, Zenon
  <2>3. out' \in [kind : {"none", "data", "silence"}, epoch : Nat, n : Nat]
    BY <1>3, <1>4, <1>8, <2>2 DEF PlayerData
  <2>4. ring' = [ring EXCEPT ![idx].state = "CONSUMED"] /\ ring[idx].gen = gen
    BY <2>1, Zenon DEF PopData, Holds, SlotFor
  <2>5. ring' \in [Slots -> SlotSet]
    BY <1>1, <1>5, <2>4 DEF SlotStates
  <2>6. \A i \in Slots : ring'[i] # ring[i] =>
                            ring'[i].state # "RECEIVED" /\ ring'[i].gen = gen
    BY <1>1, <1>5, <2>4, Zenon
  <2>7. started' \in BOOLEAN /\ resync_hold' \in 0 .. HOLD
    BY <1>2, <1>8, Zenon DEF PlayerData
  <2>8. QED
    BY <1>1, <1>6, <2>1, <2>2, <2>3, <2>5, <2>6, <2>7, CursorMoveIInv DEF PopData
<1>9. CASE PlayerConceal
  <2>1. PopConceal /\ \E d \in 1 .. WINDOW : Holds(play_cursor + d)
    BY <1>9, Zenon DEF PlayerConceal, PopConceal, DeadlinePassed
  <2>2. play_cursor + 1 <= seq_ref
    <3>1. PICK d \in 1 .. WINDOW : Holds(play_cursor + d)
      BY <2>1, Zenon
    <3>2. play_cursor + d \in Nat
      BY <1>1
    <3>3. play_cursor + d <= seq_ref
      BY <3>1, <3>2, HoldsSenders, Zenon
    <3>4. QED
      BY <1>1, <3>3
  <2>3. out' \in [kind : {"none", "data", "silence"}, epoch : Nat, n : Nat]
    BY <1>3, <1>4, <1>9, Zenon DEF PlayerConceal
  <2>4. ring' = [ring EXCEPT ![idx] =
                   [ring[idx] EXCEPT !.gen = gen, !.ext = play_cursor, !.state = "CONCEALED"]]
    BY <2>1, Zenon DEF PopConceal
  <2>5. ring' \in [Slots -> SlotSet]
    BY <1>1, <1>5, <2>4, Zenon DEF SlotStates
  <2>6. \A i \in Slots : ring'[i] # ring[i] =>
                            ring'[i].state # "RECEIVED" /\ ring'[i].gen = gen
    BY <1>1, <1>5, <2>4, Zenon
  <2>7. started' \in BOOLEAN /\ resync_hold' \in 0 .. HOLD
    BY <1>2, <1>9, Zenon DEF PlayerConceal
  <2>8. QED
    BY <1>1, <1>6, <2>1, <2>2, <2>3, <2>5, <2>6, <2>7, CursorMoveIInv DEF PopConceal
<1>10. CASE PlayerResync
  <2>1. PICK hi \in Ahead : \E run_start \in play_cursor .. hi :
                              play_cursor' = ResyncTarget(run_start)
    BY <1>10, Zenon DEF PlayerResync, TryResync
  <2>2. PICK run_start \in play_cursor .. hi : play_cursor' = ResyncTarget(run_start)
    BY <2>1, Zenon
  <2>3. hi \in Nat /\ hi <= seq_ref
    <3>1. PICK i \in Slots : /\ ring[i].gen = gen /\ ring[i].state = "RECEIVED"
                             /\ hi = ring[i].ext
      BY Zenon DEF Ahead
    <3>2. ring[i].ext \in Nat
      BY <1>1, Zenon
    <3>3. QED
      BY <3>1, <3>2, Zenon DEF IInv, RingFaithful
  <2>4. play_cursor' \in Nat /\ play_cursor <= play_cursor' /\ play_cursor' <= seq_ref
    BY <1>1, <2>2, <2>3 DEF ResyncTarget
  <2>5. /\ UNCHANGED <<ring, seq_ref, gen, boundary, out>>
        /\ started' \in BOOLEAN /\ resync_hold' \in 0 .. HOLD
    BY <1>10 DEF PlayerResync, TryResync
  <2>6. QED
    BY <1>1, <1>6, <2>4, <2>5, CursorMoveIInv
<1>11. CASE PlayerStall
  <2>1. started' \in BOOLEAN /\ resync_hold' \in 0 .. HOLD /\ UNCHANGED <<jvars, out>>
    BY <1>2, <1>11, Zenon DEF PlayerStall
  <2>2. QED
    BY <1>1, <1>3, <1>6, <2>1, CursorMoveIInv
<1>12. QED
  BY <1>7, <1>8, <1>9, <1>10, <1>11, Zenon DEF Player

\* session_flush: no slot is of the new generation, and the new epoch starts
\* beyond everything received.
LEMMA FlushIInv ==
  ASSUME IInv, NEW n \in Nat, NEW s \in SEQS, SessionFlush(n, s)
  PROVE  IInv'
<1>1. /\ cur \in Nat \ {0} /\ epochs \in Seq(Epoch)
      /\ epochs[cur].first \in Nat /\ epochs[cur].seq \in Nat
  BY CurrentEpoch, Zenon
<1>2. s \in Nat /\ s \in 0 .. SeqMod - 1
  BY DEF SeqMod
<1>3. /\ epochs' = Append(epochs, [first |-> n, seq |-> s])
      /\ gen' = gen + 1 /\ seq_ref' = s /\ play_cursor' = s /\ boundary' = s
      /\ boundary_ts' = TsOf(n) /\ rx_count' = 0
      /\ UNCHANGED <<ring, resync_hold, out>>
  BY Zenon DEF SessionFlush, JitterFlush
<1>4. /\ epochs' \in Seq(Epoch) /\ Len(epochs') = cur + 1
      /\ epochs'[cur + 1] = [first |-> n, seq |-> s]
      /\ \A i \in 1 .. cur : epochs'[i] = epochs[i]
  <2>1. [first |-> n, seq |-> s] \in Epoch
    BY <1>2, Zenon DEF Epoch
  <2>2. QED
    BY <1>1, <1>3, <2>1 DEF cur
<1>5. n > epochs[cur].first
  <2>1. epochs[cur].seq <= seq_ref /\ seq_ref \in Nat
    BY Zenon DEF IInv, EpochsOK, CursorsOK, TypeOK
  <2>2. n > epochs[cur].first + (seq_ref - epochs[cur].seq)
    BY Zenon DEF SessionFlush, Newest, PosOf
  <2>3. QED
    BY <1>1, <2>1, <2>2, SMTT(30)
<1>6. TsOf(n) \in 0 .. TsMod - 1
  <2>1. TsMod \in Nat \ {0}
    BY DEF TsMod
  <2>2. QED
    BY <2>1, DivMod DEF TsOf
<1>7. flushed' \in BOOLEAN /\ started' \in BOOLEAN
  BY Zenon DEF SessionFlush
<1>8. TypeOK'
  <2>1. /\ ring' \in [Slots -> [gen : Nat, ext : Nat, state : SlotStates, pkt : Packet]]
        /\ resync_hold' \in 0 .. HOLD
        /\ out' \in [kind : {"none", "data", "silence"}, epoch : Nat, n : Nat]
    BY <1>3, Zenon DEF IInv, TypeOK
  <2>2. seq_ref' \in Nat /\ gen' \in Nat /\ play_cursor' \in Nat /\ boundary' \in Nat
    BY <1>2, <1>3 DEF IInv, TypeOK
  <2>3. boundary_ts' \in 0 .. TsMod - 1 /\ rx_count' \in 0 .. FILL
    BY <1>3, <1>6
  <2>4. epochs' \in Seq([first : Nat, seq : 0 .. SeqMod - 1])
    BY <1>4, Zenon DEF Epoch
  <2>5. QED
    BY <1>7, <2>1, <2>2, <2>3, <2>4, Zenon DEF TypeOK
<1>9. EpochsOK'
  <2>1. cur' = cur + 1 /\ epochs'[cur'].first = n /\ epochs'[cur'].seq = s
    BY <1>4 DEF cur
  <2>2. \A i \in 1 .. cur' : epochs'[i].first <= n
    <3> SUFFICES ASSUME NEW i \in 1 .. cur' PROVE epochs'[i].first <= n
      OBVIOUS
    <3>1. CASE i = cur + 1
      BY <1>4, <3>1
    <3>2. CASE i \in 1 .. cur
      <4>1. epochs[i].first \in Nat /\ epochs[i].first <= epochs[cur].first
        <5>1. epochs[i] \in Epoch
          BY <1>1, <3>2 DEF cur
        <5>2. QED
          BY <3>2, <5>1, Zenon DEF IInv, EpochsOK, Epoch
      <4>2. QED
        BY <1>1, <1>4, <1>5, <3>2, <4>1
    <3>3. QED
      BY <1>1, <2>1, <3>1, <3>2
  <2>3. QED
    <3>1. cur' >= 1 /\ boundary' = epochs'[cur'].seq
      <4>1. cur' >= 1
        BY <1>1, <2>1
      <4>2. boundary' = epochs'[cur'].seq
        BY <1>3, <2>1, Zenon
      <4>3. QED
        BY <4>1, <4>2, Zenon
    <3>2. boundary_ts' = TsOf(epochs'[cur'].first)
      BY <1>3, <2>1, Zenon
    <3>3. \A i \in 1 .. cur' : epochs'[i].first <= epochs'[cur'].first
      BY <2>1, <2>2, Zenon
    <3>4. flushed'
      BY Zenon DEF SessionFlush
    <3>5. QED
      BY <3>1, <3>2, <3>3, <3>4, Zenon DEF EpochsOK, TsOf
<1>10. CursorsOK'
  BY <1>2, <1>3 DEF CursorsOK
<1>11. \A i \in Slots : ring'[i].gen < gen'
  BY <1>3 DEF IInv, TypeOK
<1>12. RingFaithful' /\ \A i \in Slots : ring'[i].gen <= gen'
  <2>1. \A i \in Slots : ring'[i].gen \in Nat /\ gen' \in Nat
    BY <1>8, Zenon DEF TypeOK
  <2>2. QED
    BY <1>11, <2>1 DEF RingFaithful
<1>13. QED
  BY <1>8, <1>9, <1>10, <1>12, Zenon DEF IInv

-----------------------------------------------------------------------------
\* The strengthening is an invariant of the receive path.
THEOREM IInvHolds == Spec => []IInv
<1>1. IInv /\ [Next]_vars => IInv'
  <2> SUFFICES ASSUME IInv, [Next]_vars PROVE IInv'
    OBVIOUS
  <2>1. ASSUME NEW k \in 1 .. cur, NEW n \in FIRST .. LAST, RxInsert(k, n) PROVE IInv'
    BY <2>1, RxInsertIInv
  <2>2. ASSUME NEW n \in FIRST .. LAST, NEW s \in SEQS, SessionFlush(n, s) PROVE IInv'
    BY <2>2, FlushIInv
  <2>3. CASE UNCHANGED vars
    BY <2>3, Zenon DEF vars, jvars, IInv, TypeOK, RingFaithful, EpochsOK, CursorsOK, cur, PosOf, TsOf
  <2>4. QED
    BY <2>1, <2>2, <2>3, PlayerIInv, Zenon DEF Next
<1>2. QED
  BY <1>1, InitIInv, PTL DEF Spec

\* The state of the receive path stays well-typed.
THEOREM TypeCorrect == Spec => []TypeOK
BY IInvHolds, PTL DEF IInv

\* Every packet waiting in the ring is the one the sender numbered so in the
\* current epoch, for every counter width, ring size and network delay within
\* half the counter.
THEOREM RingIsFaithful == Spec => []RingFaithful
BY IInvHolds, PTL DEF IInv

\* session_reject_stale_audio rejects no packet of the current epoch, as long as
\* an epoch is no longer than half the timestamp counter.
THEOREM FreshAccepted ==
  ASSUME EPOCH_MAX <= TsHalf
  PROVE  Spec => []NoFreshRejected
<1>1. IInv => NoFreshRejected
  <2> SUFFICES ASSUME IInv, NEW n \in FIRST .. LAST, MayArrive(cur, n), flushed
               PROVE  ~TsBefore(TsOf(n), boundary_ts)
    BY Zenon DEF NoFreshRejected, RejectStale
  <2>1. cur \in Nat /\ epochs[cur].first \in Nat
    BY CurrentEpoch, Zenon
  <2>2. epochs[cur].first <= n /\ n < epochs[cur].first + EPOCH_MAX
    BY <2>1 DEF MayArrive
  <2>3. ~TsBefore(n % TsMod, epochs[cur].first % TsMod)
    BY <2>1, <2>2, TsBeforeExact
  <2>4. QED
    BY <2>3, Zenon DEF IInv, EpochsOK, TsOf
<1>2. QED
  BY <1>1, IInvHolds, PTL

\* The receive path implements module Playout: the first number is some
\* position, every pop emits the position at the cursor, a resync skips ahead,
\* and a FLUSH opens an epoch at or after the position reached.
THEOREM KeepsPlayoutPromise == Spec => PlayoutSpec
<1> DEFINE pos == PosOf(play_cursor)
<1>1. Init => PlayoutPromise!Init
  <2> SUFFICES ASSUME Init PROVE PlayoutPromise!Init
    OBVIOUS
  <2>1. IInv
    BY InitIInv, Zenon
  <2>2. pos \in Nat
    BY <2>1, PosNat, Zenon DEF IInv, TypeOK, CursorsOK
  <2>3. cur = 1 /\ out.kind = "none"
    BY Zenon DEF Init, cur
  <2>4. QED
    BY <2>2, <2>3, Zenon DEF PlayoutPromise!Init
<1>2. IInv /\ IInv' /\ [Next]_vars => [PlayoutPromise!Next]_(PlayoutPromise!pvars)
  <2> SUFFICES ASSUME IInv, IInv', [Next]_vars
               PROVE  PlayoutPromise!Next \/ UNCHANGED <<cur, pos, out>>
    BY Zenon DEF PlayoutPromise!pvars
  <2>1. /\ play_cursor \in Nat /\ seq_ref \in Nat /\ play_cursor <= seq_ref + 1
        /\ play_cursor' \in Nat
        /\ cur \in Nat /\ epochs[cur].first \in Nat /\ epochs[cur].seq \in Nat
    BY CurrentEpoch, Zenon DEF IInv, TypeOK, CursorsOK
  <2>2. pos \in Nat
    BY PosNat, Zenon DEF IInv, TypeOK, CursorsOK
  <2>3. ASSUME UNCHANGED <<epochs, play_cursor, out>>
        PROVE  UNCHANGED <<cur, pos, out>>
    BY <2>3, Zenon DEF cur, PosOf
  <2>4. ASSUME NEW k \in 1 .. cur, NEW n \in FIRST .. LAST, RxInsert(k, n)
        PROVE  UNCHANGED <<cur, pos, out>>
    BY <2>3, <2>4, Zenon DEF RxInsert, JitterInsert, jvars
  <2>5. CASE Player
    <3>1. epochs' = epochs /\ cur' = cur
      BY <2>5, Zenon DEF Player, cur
    <3>2. pos' = pos + (play_cursor' - play_cursor)
      BY <2>1, <3>1 DEF PosOf
    <3>3. CASE PlayerWait \/ PlayerStall
      BY <2>3, <3>1, <3>3, Zenon DEF PlayerWait, PlayerStall, jvars
    <3>4. CASE PlayerData
      <4>1. SlotFor(play_cursor).pkt = [epoch |-> cur, n |-> pos]
        BY <2>1, <3>4, HoldsSenders, Zenon DEF PlayerData, PopData
      <4>2. play_cursor' = play_cursor + 1 /\ out' = [kind |-> "data", epoch |-> cur, n |-> pos]
        BY <3>4, <4>1 DEF PlayerData, PopData
      <4>3. QED
        BY <2>1, <2>2, <3>1, <3>2, <4>2 DEF PlayoutPromise!Next, PlayoutPromise!Emit
    <3>5. CASE PlayerConceal
      <4>1. /\ play_cursor' = play_cursor + 1
            /\ out' = [kind |-> "silence", epoch |-> cur, n |-> pos]
        BY <3>5, Zenon DEF PlayerConceal, PopConceal
      <4>2. QED
        BY <2>1, <2>2, <3>1, <3>2, <4>1 DEF PlayoutPromise!Next, PlayoutPromise!Emit
    <3>6. CASE PlayerResync
      <4>1. play_cursor <= play_cursor' /\ out' = out
        <5>1. \E hi \in Ahead : \E run_start \in play_cursor .. hi :
                play_cursor' = ResyncTarget(run_start)
          BY <3>6, Zenon DEF PlayerResync, TryResync
        <5>2. QED
          BY <2>1, <3>6, <5>1 DEF ResyncTarget, PlayerResync
      <4>2. QED
        BY <2>1, <2>2, <3>1, <3>2, <4>1 DEF PlayoutPromise!Next, PlayoutPromise!Skip
    <3>7. QED
      BY <2>5, <3>3, <3>4, <3>5, <3>6, Zenon DEF Player
  <2>6. ASSUME NEW n \in FIRST .. LAST, NEW s \in SEQS, SessionFlush(n, s)
        PROVE  PlayoutPromise!Next
    <3>1. /\ epochs' = Append(epochs, [first |-> n, seq |-> s])
          /\ play_cursor' = s /\ out' = out /\ n > PosOf(seq_ref)
      BY <2>6, Zenon DEF SessionFlush, JitterFlush, Newest
    <3>2. epochs \in Seq(Epoch) /\ s \in Nat /\ n \in Nat
      BY CurrentEpoch DEF SeqMod
    <3>3. cur' = cur + 1 /\ epochs'[cur'] = [first |-> n, seq |-> s]
      BY <3>1, <3>2 DEF cur
    <3>4. pos' = n
      <4>1. epochs'[cur'].first = n /\ epochs'[cur'].seq = s
        BY <3>3
      <4>2. pos' = epochs'[cur'].first + (play_cursor' - epochs'[cur'].seq)
        BY Zenon DEF PosOf
      <4>3. QED
        BY <3>1, <3>2, <4>1, <4>2
    <3>5. pos <= n
      <4>1. /\ epochs[cur].first \in Nat /\ epochs[cur].seq \in Nat
            /\ play_cursor \in Nat /\ seq_ref \in Nat /\ play_cursor <= seq_ref + 1
        BY CurrentEpoch, Zenon DEF IInv, TypeOK, CursorsOK
      <4>2. PosOf(play_cursor) <= PosOf(seq_ref) + 1 /\ PosOf(seq_ref) \in Int /\ pos \in Int
        BY <4>1 DEF PosOf
      <4>3. QED
        BY <3>1, <3>2, <4>2
    <3>6. QED
      BY <2>2, <3>1, <3>2, <3>3, <3>4, <3>5, Zenon DEF PlayoutPromise!Next, PlayoutPromise!NewEpoch
  <2>7. CASE UNCHANGED vars
    BY <2>3, <2>7, Zenon DEF vars, jvars
  <2>8. QED
    BY <2>4, <2>5, <2>6, <2>7, Zenon DEF Next
<1>3. QED
  BY <1>1, <1>2, IInvHolds, PTL DEF Spec, PlayoutSpec, PlayoutPromise!Spec

-----------------------------------------------------------------------------
\* A slot of this generation is the slot of its number, and what is no longer
\* waiting in it lies behind the cursor.
SlotsInv ==
  \A i \in Slots : ring[i].gen = gen =>
    /\ ring[i].ext % JITTER_SLOTS = i
    /\ ring[i].state # "RECEIVED" => ring[i].ext < play_cursor

\* The strengthening for what the ring must not lose and what it asks for.
BufferInv == IInv /\ SlotsInv /\ seq_ref < boundary + EPOCH_MAX

\* Two numbers of one slot that are less than a ring apart are the same.
LEMMA SameSlot ==
  ASSUME NEW M \in Nat \ {0}, NEW a \in Int, NEW b \in Int,
         a % M = b % M, -M < a - b, a - b < M
  PROVE  a = b
<1> DEFINE q == a \div M
           p == b \div M
           r == a % M
<1>1. a = M * q + r /\ b = M * p + r /\ q \in Int /\ p \in Int /\ r \in 0 .. M - 1
  BY DivMod, Zenon
<1> HIDE DEF q, p, r
<1>2. a - b = M * (q - p)
  <2>1. M * (q - p) = M * q - M * p /\ M * q \in Int /\ M * p \in Int
    BY <1>1
  <2> QED  BY <1>1, <2>1
<1>3. CASE q > p
  <2>1. M * (q - p) >= M
    BY <1>1, <1>3
  <2> QED  BY <1>2, <2>1
<1>4. CASE q < p
  <2>1. M * (p - q) >= M /\ M * (q - p) = -(M * (p - q))
    BY <1>1, <1>4
  <2> QED  BY <1>1, <1>2, <2>1
<1>5. CASE q = p
  BY <1>1, <1>5, Zenon
<1> QED  BY <1>1, <1>3, <1>4, <1>5

\* What rx_insert does: nothing, or the reference moves to the newest number
\* and an accepted packet takes its slot.
LEMMA InsertStep ==
  ASSUME IInv, NEW k \in 1 .. cur, NEW n \in Nat, RxInsert(k, n)
  PROVE  /\ UNCHANGED <<gen, play_cursor, boundary>>
         /\ \/ UNCHANGED <<ring, seq_ref>>
            \/ \E e \in Nat :
                 /\ boundary <= e /\ e < boundary + EPOCH_MAX
                 /\ seq_ref' = (IF e > seq_ref THEN e ELSE seq_ref)
                 /\ \/ UNCHANGED ring
                    \/ /\ e >= play_cursor /\ ~Holds(e)
                       /\ ring' = [ring EXCEPT ![e % JITTER_SLOTS] =
                                     [gen |-> gen, ext |-> e, state |-> "RECEIVED",
                                      pkt |-> [epoch |-> k, n |-> n]]]
<1>1. CASE RejectStale(TsOf(n))
  BY <1>1, Zenon DEF RxInsert, jvars
<1>2. CASE ~RejectStale(TsOf(n))
  <2> DEFINE w == WireOf(k, n)
             e == SeqExtend(seq_ref, w)
  <2>1. k = cur
    BY <1>2, StragglerRejected, Zenon DEF RxInsert
  <2>2. MayArrive(cur, n) /\ cur \in Nat
    BY <2>1, CurrentEpoch, Zenon DEF RxInsert
  <2>3. e \in Nat /\ e = ExtOf(cur, n) /\ ~SeqRefused(seq_ref, w)
    BY <2>1, <2>2, CurrentExtended, Zenon
  <2>4. boundary <= e /\ e < boundary + EPOCH_MAX
    <3>1. epochs[cur].first <= n /\ n < epochs[cur].first + EPOCH_MAX
      BY <2>2 DEF MayArrive
    <3>2. epochs[cur].first \in Nat /\ epochs[cur].seq \in Nat /\ boundary = epochs[cur].seq
      BY CurrentEpoch, Zenon DEF IInv, EpochsOK
    <3>3. ExtOf(cur, n) = boundary + (n - epochs[cur].first)
      BY <3>2, Zenon DEF ExtOf
    <3> HIDE DEF e
    <3> QED  BY <2>3, <3>1, <3>2, <3>3
  <2>5. /\ seq_ref' = SeqAdvance(seq_ref, w)
        /\ ring' = IF InsertAccepts(w)
                   THEN [ring EXCEPT ![e % JITTER_SLOTS] =
                           [gen |-> gen, ext |-> e, state |-> "RECEIVED",
                            pkt |-> [epoch |-> k, n |-> n]]]
                   ELSE ring
        /\ UNCHANGED <<gen, play_cursor, boundary>>
    BY <1>2, <2>3, Zenon DEF RxInsert, JitterInsert
  <2>6. seq_ref' = IF e > seq_ref THEN e ELSE seq_ref
    BY <2>5, Zenon DEF SeqAdvance
  <2>7. InsertAccepts(w) => e >= play_cursor /\ ~Holds(e)
    BY Zenon DEF InsertAccepts
  <2> HIDE DEF w, e
  <2> QED  BY <2>3, <2>4, <2>5, <2>6, <2>7, Zenon
<1> QED  BY <1>1, <1>2, Zenon

\* What an iteration of pl_thread does to the ring and the cursor.
LEMMA PlayerStep ==
  ASSUME IInv, Player
  PROVE  /\ UNCHANGED <<seq_ref, gen, boundary>>
         /\ \/ UNCHANGED <<ring, play_cursor>>
            \/ /\ play_cursor' = play_cursor + 1
               /\ ring'[play_cursor % JITTER_SLOTS].gen = gen
               /\ ring'[play_cursor % JITTER_SLOTS].ext = play_cursor
               /\ ring'[play_cursor % JITTER_SLOTS].state # "RECEIVED"
               /\ \A i \in Slots : i # play_cursor % JITTER_SLOTS => ring'[i] = ring[i]
            \/ UNCHANGED ring /\ play_cursor <= play_cursor' /\ play_cursor' \in Nat
<1> DEFINE idx == play_cursor % JITTER_SLOTS
<1>1. /\ ring \in [Slots -> [gen : Nat, ext : Nat, state : SlotStates, pkt : Packet]]
      /\ play_cursor \in Nat /\ idx \in Slots
  BY SlotIndex, Zenon DEF IInv, TypeOK
<1>2. CASE PlayerWait \/ PlayerStall
  BY <1>2, Zenon DEF PlayerWait, PlayerStall, jvars
<1>3. CASE PlayerData
  <2>1. /\ ring[idx].gen = gen /\ ring[idx].ext = play_cursor
        /\ ring' = [ring EXCEPT ![idx].state = "CONSUMED"]
        /\ play_cursor' = play_cursor + 1 /\ UNCHANGED <<seq_ref, gen, boundary>>
    BY <1>3, Zenon DEF PlayerData, PopData, Holds, SlotFor
  <2> HIDE DEF idx
  <2> QED  BY <1>1, <2>1, Zenon DEF idx
<1>4. CASE PlayerConceal
  <2>1. /\ ring' = [ring EXCEPT ![idx] =
                      [ring[idx] EXCEPT !.gen = gen, !.ext = play_cursor, !.state = "CONCEALED"]]
        /\ play_cursor' = play_cursor + 1 /\ UNCHANGED <<seq_ref, gen, boundary>>
    BY <1>4, Zenon DEF PlayerConceal, PopConceal
  <2> HIDE DEF idx
  <2> QED  BY <1>1, <2>1, Zenon DEF idx
<1>5. CASE PlayerResync
  <2>1. UNCHANGED <<ring, seq_ref, gen, boundary>>
    BY <1>5, Zenon DEF PlayerResync, TryResync
  <2>2. PICK hi \in Ahead : \E run_start \in play_cursor .. hi : play_cursor' = ResyncTarget(run_start)
    BY <1>5, Zenon DEF PlayerResync, TryResync
  <2>3. hi \in Nat
    BY <1>1, Zenon DEF Ahead
  <2>4. play_cursor' \in Nat /\ play_cursor <= play_cursor'
    BY <1>1, <2>2, <2>3 DEF ResyncTarget
  <2> QED  BY <2>1, <2>4, Zenon
<1> QED  BY <1>2, <1>3, <1>4, <1>5, Zenon DEF Player

\* A step of the receive path keeps what SlotsInv says of the ring.
LEMMA BufferStep ==
  ASSUME BufferInv, [Next]_vars
  PROVE  SlotsInv' /\ seq_ref' < boundary' + EPOCH_MAX
<1>1. /\ ring \in [Slots -> [gen : Nat, ext : Nat, state : SlotStates, pkt : Packet]]
      /\ play_cursor \in Nat /\ seq_ref \in Nat /\ boundary \in Nat /\ gen \in Nat
      /\ IInv /\ SlotsInv /\ seq_ref < boundary + EPOCH_MAX
  BY Zenon DEF BufferInv, IInv, TypeOK
<1>2. \A i \in Slots : ring[i].ext \in Nat
  BY <1>1, Zenon
<1>3. ASSUME NEW k \in 1 .. cur, NEW n \in FIRST .. LAST, RxInsert(k, n)
      PROVE  SlotsInv' /\ seq_ref' < boundary' + EPOCH_MAX
  <2>1. UNCHANGED <<gen, play_cursor, boundary>>
    BY <1>1, <1>3, InsertStep, SMTT(30)
  <2>2. CASE UNCHANGED <<ring, seq_ref>>
    BY <1>1, <2>1, <2>2, Zenon DEF SlotsInv
  <2>3. CASE ~UNCHANGED <<ring, seq_ref>>
    <3>1. PICK e \in Nat :
            /\ boundary <= e /\ e < boundary + EPOCH_MAX
            /\ seq_ref' = (IF e > seq_ref THEN e ELSE seq_ref)
            /\ \/ UNCHANGED ring
               \/ ring' = [ring EXCEPT ![e % JITTER_SLOTS] =
                             [gen |-> gen, ext |-> e, state |-> "RECEIVED",
                              pkt |-> [epoch |-> k, n |-> n]]]
      BY <1>1, <1>3, <2>3, InsertStep, SMTT(30)
    <3>2. seq_ref' < boundary' + EPOCH_MAX
      BY <1>1, <2>1, <3>1, Zenon
    <3>3. \A i \in Slots : ring'[i] = ring[i] \/
            (i = e % JITTER_SLOTS /\ ring'[i].ext = e /\ ring'[i].state = "RECEIVED")
      BY <1>1, <3>1, SMTT(30)
    <3> QED  BY <1>1, <2>1, <3>2, <3>3, Zenon DEF SlotsInv
  <2> QED  BY <2>2, <2>3, Zenon
<1>4. CASE Player
  <2>1. UNCHANGED <<seq_ref, gen, boundary>>
    BY <1>1, <1>4, PlayerStep, Zenon
  <2>2. CASE /\ play_cursor' = play_cursor + 1
             /\ ring'[play_cursor % JITTER_SLOTS].ext = play_cursor
             /\ \A i \in Slots : i # play_cursor % JITTER_SLOTS => ring'[i] = ring[i]
    BY <1>1, <1>2, <2>1, <2>2 DEF SlotsInv
  <2>3. CASE UNCHANGED ring /\ play_cursor <= play_cursor' /\ play_cursor' \in Nat
    BY <1>1, <1>2, <2>1, <2>3 DEF SlotsInv
  <2> QED  BY <1>1, <1>4, <2>2, <2>3, PlayerStep
<1>5. ASSUME NEW n \in FIRST .. LAST, NEW s \in SEQS, SessionFlush(n, s)
      PROVE  SlotsInv' /\ seq_ref' < boundary' + EPOCH_MAX
  <2>1. gen' = gen + 1 /\ seq_ref' = s /\ boundary' = s /\ UNCHANGED ring /\ s \in Nat
    BY <1>5 DEF SessionFlush, JitterFlush, SeqMod
  <2>2. \A i \in Slots : ring'[i].gen # gen'
    BY <1>1, <2>1 DEF IInv
  <2> QED  BY <2>1, <2>2 DEF SlotsInv
<1>6. CASE UNCHANGED vars
  BY <1>1, <1>6, Zenon DEF vars, jvars, SlotsInv
<1> QED  BY <1>3, <1>4, <1>5, <1>6, Zenon DEF Next

\* BufferInv holds in every reachable state.
THEOREM BufferInvariant == Spec => []BufferInv
<1>1. Init => SlotsInv /\ seq_ref < boundary + EPOCH_MAX
  <2> SUFFICES ASSUME Init PROVE SlotsInv /\ seq_ref < boundary + EPOCH_MAX
    OBVIOUS
  <2>1. PICK s \in SEQS : JitterInit(s)
    BY Zenon DEF Init
  <2>2. s \in Nat
    BY DEF SeqMod
  <2> QED  BY <2>1, <2>2 DEF JitterInit, SlotsInv
<1>2. BufferInv /\ [Next]_vars => (SlotsInv /\ seq_ref < boundary + EPOCH_MAX)'
  BY BufferStep, Zenon
<1> QED  BY <1>1, <1>2, IInvHolds, PTL DEF Spec, BufferInv

\* As long as the newest packet is less than half the sequence counter ahead of
\* the cursor, a packet jitter_next_resend asks for is one jitter_insert takes.
LEMMA ResendTaken ==
  ASSUME BufferInv, seq_ref - play_cursor < SeqHalf
  PROVE  ResendWanted
<1> SUFFICES ASSUME NEW r \in ResendRanges, NEW e \in r[1] .. r[2]
             PROVE  SeqExtend(seq_ref, e % SeqMod) = e /\ InsertAccepts(e % SeqMod)
  BY Zenon DEF ResendWanted
<1>1. /\ ring \in [Slots -> [gen : Nat, ext : Nat, state : SlotStates, pkt : Packet]]
      /\ play_cursor \in Nat /\ seq_ref \in Nat /\ boundary \in Nat /\ boundary <= play_cursor
      /\ IInv /\ SlotsInv
  BY Zenon DEF BufferInv, IInv, TypeOK, CursorsOK
<1>2. /\ r[1] \in Int /\ r[2] \in Int /\ play_cursor <= r[1] /\ r[1] <= r[2]
      /\ \A x \in r[1] .. r[2] : ~Settled(x)
      /\ Settled(r[2] + 1)
  BY <1>1 DEF ResendRanges, NextResend
<1>3. e \in Nat /\ play_cursor <= e /\ e < r[2] + 1 /\ r[2] + 1 \in Nat /\ ~Settled(e)
  BY <1>1, <1>2
<1>4. r[2] + 1 <= seq_ref
  <2> DEFINE i == (r[2] + 1) % JITTER_SLOTS
  <2>1. i \in Slots
    BY <1>3, SlotIndex, Zenon
  <2>2. ring[i].gen = gen /\ ring[i].ext = r[2] + 1
    BY <1>2, Zenon DEF Settled, SlotFor
  <2>3. ring[i].state = "RECEIVED"
    <3>1. ~(r[2] + 1 < play_cursor)
      BY <1>1, <1>2
    <3> QED  BY <1>1, <2>1, <2>2, <3>1, Zenon DEF SlotsInv
  <2> QED  BY <1>1, <2>1, <2>2, <2>3, Zenon DEF IInv, RingFaithful
<1>5. SeqExtend(seq_ref, e % SeqMod) = e /\ ~SeqRefused(seq_ref, e % SeqMod)
  <2>1. -SeqHalf < e - seq_ref /\ e - seq_ref < SeqHalf
    BY <1>1, <1>2, <1>3, <1>4
  <2> QED  BY <1>1, <1>3, <2>1, SeqExtendExact, Zenon
<1>6. ~Holds(e)
  BY <1>3, Zenon DEF Settled, Holds
<1> QED  BY <1>1, <1>3, <1>5, <1>6 DEF InsertAccepts

\* In an epoch no longer than half the sequence counter, every packet that
\* jitter_next_resend asks for is one jitter_insert would extend to the number
\* asked for and accept.
THEOREM ResendIsWanted ==
  ASSUME EPOCH_MAX <= SeqHalf
  PROVE  Spec => []ResendWanted
<1>1. BufferInv => ResendWanted
  <2> SUFFICES ASSUME BufferInv PROVE seq_ref - play_cursor < SeqHalf
    BY ResendTaken, Zenon
  <2> QED  BY DEF BufferInv, IInv, TypeOK, CursorsOK
<1> QED  BY <1>1, BufferInvariant, PTL

\* And in an epoch of any length, for as long as the cursor keeps within half
\* the sequence counter of the newest packet.
THEOREM ResendIsWantedNear ==
  Spec => [](seq_ref - play_cursor < SeqHalf => ResendWanted)
<1>1. BufferInv => (seq_ref - play_cursor < SeqHalf => ResendWanted)
  BY ResendTaken, Zenon
<1> QED  BY <1>1, BufferInvariant, PTL

\* What is waiting ahead of the cursor has been received.
LEMMA AheadReceived ==
  ASSUME BufferInv, NEW e \in Ahead
  PROVE  e \in Nat /\ play_cursor <= e /\ e <= seq_ref /\ Holds(e)
<1>1. /\ ring \in [Slots -> [gen : Nat, ext : Nat, state : SlotStates, pkt : Packet]]
      /\ play_cursor \in Nat /\ seq_ref \in Nat /\ IInv /\ SlotsInv
  BY Zenon DEF BufferInv, IInv, TypeOK
<1>2. PICK i \in Slots : /\ ring[i].gen = gen /\ ring[i].state = "RECEIVED"
                         /\ ring[i].ext >= play_cursor /\ e = ring[i].ext
  BY Zenon DEF Ahead
<1>3. e \in Nat /\ e % JITTER_SLOTS = i /\ e <= seq_ref /\ Holds(e)
  BY <1>1, <1>2, Zenon DEF SlotsInv, IInv, RingFaithful, Holds, SlotFor
<1> QED  BY <1>1, <1>2, <1>3, Zenon

\* A step that keeps the generation, and after which the newest packet is still
\* less than a ring ahead of the cursor, loses no packet still to be played:
\* neither an insert into an occupied slot, a pop, a concealment nor a resync.
LEMMA ReceivedKept ==
  ASSUME BufferInv, BufferInv', [Next]_vars, NEW e \in Ahead,
         gen' = gen, e >= play_cursor', seq_ref' < play_cursor + JITTER_SLOTS
  PROVE  e \in Ahead'
<1>1. /\ ring \in [Slots -> [gen : Nat, ext : Nat, state : SlotStates, pkt : Packet]]
      /\ play_cursor \in Nat /\ seq_ref \in Nat /\ gen \in Nat /\ seq_ref' \in Nat
      /\ IInv /\ SlotsInv
  BY Zenon DEF BufferInv, IInv, TypeOK
<1> DEFINE i == e % JITTER_SLOTS
<1>2. e \in Nat /\ play_cursor <= e /\ e <= seq_ref /\ i \in Slots
  BY AheadReceived, SlotIndex, Zenon
<1>3. ring[i].gen = gen /\ ring[i].state = "RECEIVED" /\ ring[i].ext = e /\ Holds(e)
  BY AheadReceived, Zenon DEF Holds, SlotFor
<1>4. SUFFICES ring'[i] = ring[i]
  BY <1>2, <1>3, <1>4, Zenon DEF Ahead
<1>5. ASSUME NEW k \in 1 .. cur, NEW n \in FIRST .. LAST, RxInsert(k, n)
      PROVE  ring'[i] = ring[i]
  <2>1. CASE UNCHANGED ring
    BY <2>1, Zenon
  <2>2. CASE ~UNCHANGED ring
    <3>1. PICK x \in Nat :
            /\ seq_ref' = (IF x > seq_ref THEN x ELSE seq_ref)
            /\ x >= play_cursor /\ ~Holds(x)
            /\ ring' = [ring EXCEPT ![x % JITTER_SLOTS] =
                          [gen |-> gen, ext |-> x, state |-> "RECEIVED",
                           pkt |-> [epoch |-> k, n |-> n]]]
      <4>1. IInv /\ n \in Nat /\ RxInsert(k, n)
        BY <1>1, <1>5, PlaybackAssumption
      <4> QED  BY <2>2, <4>1, InsertStep, Zenon
    <3>2. /\ x \in Nat /\ seq_ref \in Nat /\ play_cursor \in Nat /\ JITTER_SLOTS \in Nat
          /\ seq_ref' = (IF x > seq_ref THEN x ELSE seq_ref) /\ x >= play_cursor
          /\ e \in Nat /\ e >= play_cursor /\ e <= seq_ref
          /\ seq_ref' < play_cursor + JITTER_SLOTS
      BY <1>1, <1>2, <1>3, <3>1, JitterAssumption, Zenon
    <3>3. -JITTER_SLOTS < e - x /\ e - x < JITTER_SLOTS
      BY <3>2
    <3>4. x % JITTER_SLOTS # i
      BY <1>2, <1>3, <3>1, <3>3, SameSlot, SMTT(30)
    <3> QED  BY <1>1, <3>1, <3>4, SMTT(30)
  <2> QED  BY <2>1, <2>2, Zenon
<1>6. CASE Player
  <2>1. CASE UNCHANGED ring
    BY <2>1, Zenon
  <2>2. CASE ~UNCHANGED ring
    <3>1. /\ play_cursor' = play_cursor + 1 /\ UNCHANGED seq_ref
          /\ \A j \in Slots : j # play_cursor % JITTER_SLOTS => ring'[j] = ring[j]
      BY <1>1, <1>6, <2>2, PlayerStep, Zenon
    <3>2. -JITTER_SLOTS < e - play_cursor /\ e - play_cursor < JITTER_SLOTS /\ e # play_cursor
      <4>1. /\ play_cursor \in Nat /\ seq_ref \in Nat /\ e \in Nat /\ JITTER_SLOTS \in Nat
            /\ e <= seq_ref /\ e >= play_cursor' /\ play_cursor' = play_cursor + 1
            /\ seq_ref' = seq_ref /\ seq_ref' < play_cursor + JITTER_SLOTS
        BY <1>1, <1>2, <1>3, <3>1, JitterAssumption, Zenon
      <4> QED  BY <4>1
    <3>3. ASSUME e % JITTER_SLOTS = play_cursor % JITTER_SLOTS PROVE FALSE
      <4>1. e \in Int /\ play_cursor \in Int /\ JITTER_SLOTS \in Nat \ {0}
        BY <1>1, <1>2, <1>3
      <4>2. e = play_cursor
        BY <3>2, <3>3, <4>1, SameSlot, Zenon
      <4> QED  BY <3>2, <4>2, Zenon
    <3> QED  BY <1>2, <1>3, <3>1, <3>3, Zenon
  <2> QED  BY <2>1, <2>2, Zenon
<1>7. ASSUME NEW n \in FIRST .. LAST, NEW s \in SEQS, SessionFlush(n, s)
      PROVE  FALSE
  BY <1>1, <1>7 DEF SessionFlush, JitterFlush
<1>8. CASE UNCHANGED vars
  BY <1>8, Zenon DEF vars, jvars
<1> QED  BY <1>5, <1>6, <1>7, <1>8, Zenon DEF Next

\* As long as the newest packet is less than a ring ahead of the cursor, only a
\* FLUSH loses what has been received and is still to be played.
THEOREM NothingReceivedIsLost == Spec => NoReceivedLost
<1> DEFINE Kept == \A e \in Ahead :
                     /\ gen' = gen
                     /\ e >= play_cursor'
                     /\ seq_ref' < play_cursor + JITTER_SLOTS
                     => e \in Ahead'
<1>1. BufferInv /\ BufferInv' /\ [Next]_vars => Kept
  BY ReceivedKept, Zenon
<1> QED  BY <1>1, BufferInvariant, PTL DEF Spec, NoReceivedLost

-----------------------------------------------------------------------------
\* A packet waiting at or ahead of the cursor counts as ahead.
LEMMA HeldAhead ==
  ASSUME BufferInv, NEW e \in Nat, play_cursor <= e, Holds(e)
  PROVE  e \in Ahead
<1>1. e % JITTER_SLOTS \in Slots /\ play_cursor \in Nat
  BY SlotIndex, Zenon DEF BufferInv, IInv, TypeOK
<1> QED  BY <1>1, Zenon DEF Holds, SlotFor, Ahead

\* A good network and a paced sender: an epoch of which nothing has come is
\* untouched, and of any other everything from the cursor to the newest packet
\* waits in the ring.
PacedState ==
  /\ resync_hold = 0 /\ out.kind # "silence"
  /\ started => rx_count # 0
  /\ rx_count = 0 => play_cursor = boundary /\ seq_ref = boundary /\ Ahead = {}
  /\ rx_count # 0 => seq_ref < play_cursor + BURST /\ \A e \in play_cursor .. seq_ref : e \in Ahead

\* What pl_thread finds: data at the cursor, or nothing ahead of it either.
LEMMA PacedPlayer ==
  ASSUME BufferInv, BufferInv', Player, PacedState
  PROVE  PacedState'
<1>1. play_cursor \in Nat /\ seq_ref \in Nat /\ rx_count \in 0 .. FILL /\ IInv
  BY Zenon DEF BufferInv, IInv, TypeOK
<1>2. Filled => rx_count # 0
  BY <1>1, SMTT(30) DEF Filled, PacedState
<1>3. rx_count # 0 /\ play_cursor <= seq_ref => Holds(play_cursor)
  <2> SUFFICES ASSUME rx_count # 0, play_cursor <= seq_ref PROVE Holds(play_cursor)
    OBVIOUS
  <2>1. play_cursor \in Ahead
    BY <1>1, SMTT(30) DEF PacedState
  <2> QED  BY <2>1, AheadReceived, Zenon
<1>4. HoldNext = 0 /\ UNCHANGED rx_count
  BY SMTT(30) DEF PacedState, HoldNext, Player
<1>5. ~PlayerConceal
  <2> SUFFICES ASSUME PlayerConceal PROVE FALSE
    OBVIOUS
  <2>1. PICK d \in 1 .. WINDOW : Holds(play_cursor + d)
    BY Zenon DEF PlayerConceal, PopConceal, DeadlinePassed
  <2>2. play_cursor + d \in Nat /\ play_cursor < play_cursor + d
    BY <1>1, SMTT(30)
  <2>3. play_cursor <= seq_ref
    <3>1. play_cursor + d <= seq_ref
      BY <1>1, <2>1, <2>2, HoldsSenders, Zenon
    <3> QED  BY <1>1, <2>2, <3>1, SMTT(30)
  <2> QED  BY <1>2, <1>3, <2>3, Zenon DEF PlayerConceal, PopConceal
<1>6. ~PlayerResync
  <2> SUFFICES ASSUME PlayerResync PROVE FALSE
    OBVIOUS
  <2>1. PICK hi \in Ahead : TRUE
    BY Zenon DEF PlayerResync, TryResync
  <2>2. play_cursor <= seq_ref
    BY <1>1, AheadReceived, SMTT(30)
  <2> QED  BY <1>2, <1>3, <2>2, Zenon DEF PlayerResync, PopStalls
<1>7. CASE PlayerWait \/ PlayerStall
  <2>1. UNCHANGED <<jvars, out>> /\ resync_hold' = 0
    BY <1>4, <1>7, Zenon DEF PlayerWait, PlayerStall
  <2>2. started' => rx_count # 0
    BY <1>2, <1>7, Zenon DEF PlayerWait, PlayerStall, PacedState
  <2> QED  BY <1>4, <2>1, <2>2, Zenon DEF PacedState, jvars, Ahead
<1>8. CASE PlayerData
  <2>1. /\ play_cursor' = play_cursor + 1 /\ UNCHANGED <<seq_ref, gen>>
        /\ resync_hold' = 0 /\ out'.kind = "data" /\ rx_count # 0
    BY <1>2, <1>4, <1>8, Zenon DEF PlayerData, PopData
  <2>2. /\ seq_ref < play_cursor + BURST /\ seq_ref < play_cursor + JITTER_SLOTS
        /\ \A e \in play_cursor .. seq_ref : e \in Ahead
    BY <1>1, <2>1, SMTT(30) DEF PacedState
  <2>3. [Next]_vars
    BY Zenon DEF Next
  <2>4. ASSUME NEW e \in play_cursor' .. seq_ref' PROVE e \in Ahead'
    <3>1. e \in Ahead /\ e >= play_cursor'
      BY <1>1, <2>1, <2>2, SMTT(30)
    <3> QED  BY <2>1, <2>2, <2>3, <3>1, ReceivedKept, Zenon
  <2>5. seq_ref' < play_cursor' + BURST
    BY <1>1, <2>1, <2>2, SMTT(30)
  <2> QED  BY <1>4, <2>1, <2>4, <2>5, Zenon DEF PacedState
<1> QED  BY <1>5, <1>6, <1>7, <1>8, Zenon DEF Player

\* The next packet of the stream: it is the one at the cursor, or the one after
\* the newest, and it goes where no packet waits.
LEMMA PacedArrival ==
  ASSUME BufferInv, BufferInv', [Next]_vars, PacedRx, PacedState
  PROVE  PacedState'
<1> DEFINE n == IF rx_count = 0 THEN epochs[cur].first ELSE Newest + 1
           w == WireOf(cur, n)
           e == IF rx_count = 0 THEN boundary ELSE seq_ref + 1
<1>1. /\ play_cursor \in Nat /\ seq_ref \in Nat /\ boundary \in Nat /\ rx_count \in 0 .. FILL
      /\ ring \in [Slots -> [gen : Nat, ext : Nat, state : SlotStates, pkt : Packet]]
      /\ IInv /\ play_cursor <= seq_ref + 1 /\ boundary <= seq_ref
  BY Zenon DEF BufferInv, IInv, TypeOK, CursorsOK
<1>2. /\ cur \in Nat \ {0} /\ epochs[cur].first \in Nat /\ epochs[cur].seq \in Nat
      /\ boundary = epochs[cur].seq
  BY <1>1, CurrentEpoch, Zenon DEF IInv, EpochsOK
<1>3. n < PosOf(play_cursor) + BURST /\ RxInsert(cur, n)
  BY Zenon DEF PacedRx
<1>4. n \in Nat /\ ExtOf(cur, n) = e /\ e \in Nat
  BY <1>1, <1>2, PosNat, SMTT(30) DEF Newest, PosOf, ExtOf
<1>5. UNCHANGED <<started, resync_hold, out>>
  BY <1>3, Zenon DEF RxInsert
<1>6. CASE RejectStale(TsOf(n))
  <2>1. UNCHANGED <<jvars, rx_count>>
    BY <1>3, <1>6, Zenon DEF RxInsert
  <2> QED  BY <1>5, <2>1, Zenon DEF PacedState, jvars, Ahead
<1>7. CASE ~RejectStale(TsOf(n))
  <2> HIDE DEF n
  <2>1. SeqExtend(seq_ref, w) = e /\ ~SeqRefused(seq_ref, w)
    BY <1>1, <1>3, <1>4, CurrentExtended, Zenon DEF RxInsert
  <2>2. e < play_cursor + BURST
    <3>1. PosOf(e) = n
      BY <1>2, <1>4, SMTT(30) DEF PosOf, ExtOf
    <3> HIDE DEF e
    <3> QED  BY <1>1, <1>2, <1>3, <1>4, <3>1, SMTT(30) DEF PosOf
  <2>3. /\ play_cursor <= e /\ boundary <= e /\ seq_ref <= e
        /\ rx_count = 0 => play_cursor = e /\ seq_ref = e
        /\ rx_count # 0 => e = seq_ref + 1
    BY <1>1, SMTT(30) DEF PacedState
  <2> HIDE DEF e, w
  <2>4. ~Holds(e)
    <3>1. CASE rx_count = 0
      BY <1>4, <2>3, <3>1, HeldAhead, Zenon DEF PacedState
    <3>2. CASE rx_count # 0
      <4>1. e > seq_ref
        BY <1>1, <2>3, <3>2, SMTT(30)
      <4>2. Holds(e) => e <= seq_ref
        BY <1>1, <1>4, HoldsSenders, Zenon
      <4> QED  BY <1>1, <1>4, <4>1, <4>2, SMTT(30)
    <3> QED  BY <3>1, <3>2, Zenon
  <2>5. InsertAccepts(w)
    BY <2>1, <2>3, <2>4, Zenon DEF InsertAccepts
  <2>6. /\ seq_ref' = SeqAdvance(seq_ref, w) /\ UNCHANGED <<gen, play_cursor, boundary>>
        /\ ring' = [ring EXCEPT ![e % JITTER_SLOTS] =
                      [gen |-> gen, ext |-> e, state |-> "RECEIVED", pkt |-> [epoch |-> cur, n |-> n]]]
        /\ rx_count' = IF rx_count < FILL THEN rx_count + 1 ELSE rx_count
    <3>1. /\ JitterInsert(w, [epoch |-> cur, n |-> n])
          /\ rx_count' = IF InsertAccepts(w) /\ rx_count < FILL THEN rx_count + 1 ELSE rx_count
      BY <1>3, <1>7, Zenon DEF RxInsert, w
    <3>2. seq_ref' = SeqAdvance(seq_ref, w) /\ UNCHANGED <<gen, play_cursor, boundary>>
      BY <2>1, <3>1, Zenon DEF JitterInsert
    <3>3. ring' = [ring EXCEPT ![e % JITTER_SLOTS] =
                     [gen |-> gen, ext |-> e, state |-> "RECEIVED", pkt |-> [epoch |-> cur, n |-> n]]]
      BY <2>1, <2>5, <3>1, Zenon DEF JitterInsert
    <3>4. rx_count' = IF rx_count < FILL THEN rx_count + 1 ELSE rx_count
      BY <2>5, <3>1, Zenon
    <3> QED  BY <3>2, <3>3, <3>4, Zenon
  <2>7. seq_ref' = e /\ play_cursor' = play_cursor
    <3>1. seq_ref' = SeqAdvance(seq_ref, w) /\ play_cursor' = play_cursor
      BY <2>6, Zenon
    <3> QED  BY <1>1, <1>4, <2>1, <2>3, <3>1, SMTT(30) DEF SeqAdvance
  <2>8. rx_count' # 0
    <3>1. rx_count' = IF rx_count < FILL THEN rx_count + 1 ELSE rx_count
      BY <2>6, Zenon
    <3> QED  BY <1>1, <3>1, PlaybackAssumption, SMTT(30)
  <2>9. e \in Ahead'
    <3> DEFINE i == e % JITTER_SLOTS
               new == [gen |-> gen, ext |-> e, state |-> "RECEIVED", pkt |-> [epoch |-> cur, n |-> n]]
    <3>1. i \in Slots /\ ring' = [ring EXCEPT ![i] = new] /\ gen' = gen
      BY <1>4, <2>6, SlotIndex, Zenon
    <3>2. new.gen = gen /\ new.ext = e /\ new.state = "RECEIVED"
      OBVIOUS
    <3> HIDE DEF i, new
    <3>3. ring'[i] = new
      BY <1>1, <3>1, Zenon
    <3>4. ring'[i].gen = gen' /\ ring'[i].state = "RECEIVED" /\ ring'[i].ext = e
      BY <3>1, <3>2, <3>3, Zenon
    <3>5. ring'[i].ext >= play_cursor'
      BY <1>1, <1>4, <2>3, <2>7, <3>4, Zenon
    <3> QED  BY <3>1, <3>4, <3>5, Zenon DEF Ahead
  <2>10. ASSUME NEW x \in play_cursor' .. seq_ref', x # e PROVE x \in Ahead'
    <3>0. x \in play_cursor .. e
      BY <2>7, <2>10, Zenon
    <3>1. rx_count # 0 /\ x \in play_cursor .. seq_ref
      BY <1>1, <1>4, <2>3, <2>10, <3>0, SMTT(30)
    <3>2. x \in Ahead /\ x >= play_cursor'
      <4>1. x \in Ahead
        BY <3>1, Zenon DEF PacedState
      <4> QED  BY <1>1, <2>7, <3>1, <4>1, SMTT(30)
    <3>3. seq_ref' < play_cursor + JITTER_SLOTS
      BY <1>1, <1>4, <2>2, <2>7, PlaybackAssumption, JitterAssumption, SMTT(30)
    <3> QED  BY <2>6, <3>2, <3>3, ReceivedKept, Zenon
  <2> QED  BY <1>5, <2>2, <2>6, <2>7, <2>8, <2>9, <2>10, Zenon DEF PacedState
<1> QED  BY <1>6, <1>7, Zenon

\* A FLUSH leaves nothing of the old epoch.
LEMMA PacedFlushed ==
  ASSUME BufferInv, NEW n, NEW s \in SEQS, SessionFlush(n, s), PacedState
  PROVE  PacedState'
<1>1. /\ gen' = gen + 1 /\ seq_ref' = s /\ play_cursor' = s /\ boundary' = s /\ rx_count' = 0
      /\ UNCHANGED <<ring, resync_hold, out>>
  BY Zenon DEF SessionFlush, JitterFlush
<1>2. ~started'
  BY Zenon DEF SessionFlush
<1>3. Ahead' = {}
  BY <1>1, SMTT(30) DEF Ahead, BufferInv, IInv, TypeOK
<1> QED  BY <1>1, <1>2, <1>3, Zenon DEF PacedState

\* On a good network with a paced sender pl_thread conceals nothing and never
\* resyncs, for every ring that holds what the sender is willing to send ahead.
THEOREM PacedIsClean == MCSpec => []PacedClean
<1> DEFINE PInv == paced \in BOOLEAN /\ (paced => PacedState)
<1>1. MCInit => PInv
  <2> SUFFICES ASSUME MCInit PROVE PInv
    OBVIOUS
  <2>1. paced \in BOOLEAN /\ ~started /\ rx_count = 0 /\ resync_hold = 0 /\ out.kind = "none"
    BY Zenon DEF MCInit, Init
  <2>2. PICK s \in SEQS : JitterInit(s)
    BY Zenon DEF MCInit, Init
  <2>3. play_cursor = boundary /\ seq_ref = boundary /\ Ahead = {}
    BY <2>2, Zenon DEF JitterInit, Ahead
  <2> QED  BY <2>1, <2>3, Zenon DEF PacedState
<1>2. BufferInv /\ BufferInv' /\ [MCNext]_mcvars /\ PInv => PInv'
  <2>0. SUFFICES ASSUME BufferInv, BufferInv', [MCNext]_mcvars, PInv PROVE PInv'
    OBVIOUS
  <2>1. CASE UNCHANGED mcvars
    BY <2>0, <2>1, Zenon DEF mcvars, vars, jvars, PacedState, Ahead
  <2>2. CASE MCNext
    <3>1. Next /\ paced' = (paced /\ PacedNext)
      BY <2>2, Zenon DEF MCNext
    <3>2. paced' \in BOOLEAN /\ (paced' => PacedState /\ PacedNext)
      BY <2>0, <3>1, Zenon
    <3>3. ASSUME PacedState, PacedNext PROVE PacedState'
      <4>1. CASE Player
        BY <2>0, <3>3, <4>1, PacedPlayer, Zenon
      <4>2. CASE PacedRx
        BY <2>0, <3>1, <3>3, <4>2, PacedArrival, Zenon
      <4>3. CASE PacedFlush
        BY <2>0, <3>3, <4>3, PacedFlushed, Zenon DEF PacedFlush
      <4> QED  BY <3>3, <4>1, <4>2, <4>3, Zenon DEF PacedNext
    <3> QED  BY <3>2, <3>3, Zenon
  <2> QED  BY <2>0, <2>1, <2>2, Zenon
<1>3. PInv => PacedClean
  BY Zenon DEF PacedState, PacedClean
<1>4. MCSpec => Spec
  <2>1. MCInit => Init
    BY Zenon DEF MCInit
  <2>2. [MCNext]_mcvars => [Next]_vars
    BY Zenon DEF MCNext, mcvars
  <2> QED  BY <2>1, <2>2, PTL DEF MCSpec, Spec
<1> QED  BY <1>1, <1>2, <1>3, <1>4, BufferInvariant, PTL DEF MCSpec
=============================================================================

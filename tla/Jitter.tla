------------------------------- MODULE Jitter -------------------------------
(***************************************************************************)
(* The jitter buffer: jitter.c, with the deadline predicate session.c      *)
(* installs in it (session_deadline).  A ring of JITTER_SLOTS slots is     *)
(* indexed by the extended sequence number modulo its size, so a slot is   *)
(* the slot of a packet only when its generation and its extended number   *)
(* also match.  A FLUSH invalidates every slot by bumping the generation.  *)
(*                                                                         *)
(* The payload of a packet is abstract: pkt is whatever the caller stored. *)
(* The diagnostic counters (late, dupes, lost, overwritten, ...) and the   *)
(* timestamp reference of seqext_ts, which nothing reads, are left out.    *)
(***************************************************************************)
EXTENDS SeqExt

CONSTANTS
  JITTER_SLOTS,    \* size of the ring                     (512)
  WINDOW,          \* conceal window of session_deadline   (62)
  RESYNC_BEHIND,   \* how far ahead data must be to resync (128)
  RESYNC_MIN_RUN,  \* contiguous packets a resync needs    (8)
  RESYNC_PREROLL,  \* slots kept before the run            (16)
  NoPkt            \* the payload of a slot never written

ASSUME JitterAssumption ==
  /\ JITTER_SLOTS \in Nat \ {0} /\ WINDOW \in Nat \ {0}
  /\ RESYNC_BEHIND \in Nat /\ RESYNC_MIN_RUN \in Nat /\ RESYNC_PREROLL \in Nat

VARIABLES
  ring,         \* slot index -> [gen, ext, state, pkt]
  seq_ref,      \* reference of the sequence extension
  gen,          \* generation; bumped by every FLUSH
  play_cursor,  \* next extended number to pop
  boundary      \* first accepted extended number

jvars == <<ring, seq_ref, gen, play_cursor, boundary>>

Slots == 0 .. JITTER_SLOTS - 1
SlotStates == {"EMPTY", "RECEIVED", "CONCEALED", "CONSUMED"}

SlotFor(e) == ring[e % JITTER_SLOTS]

\* The slot of e holds packet e of this generation, not yet played.
Holds(e) ==
  SlotFor(e).gen = gen /\ SlotFor(e).ext = e /\ SlotFor(e).state = "RECEIVED"

\* The slot of e says that nothing is missing at e.
Settled(e) ==
  SlotFor(e).gen = gen /\ SlotFor(e).ext = e /\ SlotFor(e).state # "EMPTY"

JitterInit(seq) ==
  /\ ring = [i \in Slots |-> [gen |-> 0, ext |-> 0, state |-> "EMPTY", pkt |-> NoPkt]]
  /\ seq_ref = seq
  /\ gen = 1
  /\ play_cursor = seq
  /\ boundary = seq

-----------------------------------------------------------------------------
\* Faulty variant: the packet at the cursor counts as late.
InsertAcceptsPastCursor(wseq) ==
  LET ext == SeqExtend(seq_ref, wseq) IN
  ~SeqRefused(seq_ref, wseq) /\ ext >= boundary /\ ext > play_cursor /\ ~Holds(ext)

\* Faulty variant: a packet that was already played or concealed is stored.
InsertAcceptsLate(wseq) ==
  LET ext == SeqExtend(seq_ref, wseq) IN
  ~SeqRefused(seq_ref, wseq) /\ ext >= boundary /\ ~Holds(ext)

\* jitter_insert stores the packet: the number is not refused, not before the
\* FLUSH boundary, not already played or concealed, and not a duplicate.
InsertAccepts(wseq) ==
  LET ext == SeqExtend(seq_ref, wseq) IN
  /\ ~SeqRefused(seq_ref, wseq)
  /\ ext >= boundary
  /\ ext >= play_cursor
  /\ ~Holds(ext)

\* jitter_insert.  A number that is refused leaves the reference alone; every
\* other one may advance it, also when the packet is then dropped.
JitterInsert(wseq, pkt) ==
  LET ext == SeqExtend(seq_ref, wseq) IN
  /\ seq_ref' = IF SeqRefused(seq_ref, wseq) THEN seq_ref
                ELSE SeqAdvance(seq_ref, wseq)
  /\ ring' = IF InsertAccepts(wseq)
             THEN [ring EXCEPT ![ext % JITTER_SLOTS] =
                     [gen |-> gen, ext |-> ext, state |-> "RECEIVED", pkt |-> pkt]]
             ELSE ring
  /\ UNCHANGED <<gen, play_cursor, boundary>>

\* session_deadline: a packet within the conceal window after e has arrived.
DeadlinePassed(e) == \E d \in 1 .. WINDOW : d < JITTER_SLOTS /\ Holds(e + d)

\* The three outcomes of jitter_pop: data, concealment and stall.
PopData ==
  /\ Holds(play_cursor)
  /\ ring' = [ring EXCEPT ![play_cursor % JITTER_SLOTS].state = "CONSUMED"]
  /\ play_cursor' = play_cursor + 1
  /\ UNCHANGED <<seq_ref, gen, boundary>>

PopConceal ==
  /\ ~Holds(play_cursor) /\ DeadlinePassed(play_cursor)
  /\ ring' = [ring EXCEPT ![play_cursor % JITTER_SLOTS] =
                [@ EXCEPT !.gen = gen, !.ext = play_cursor, !.state = "CONCEALED"]]
  /\ play_cursor' = play_cursor + 1
  /\ UNCHANGED <<seq_ref, gen, boundary>>

PopStalls == ~Holds(play_cursor) /\ ~DeadlinePassed(play_cursor)

\* Faulty variant: the generation is not bumped, so old slots stay valid.
JitterFlushSameGen(nseq) ==
  seq_ref' = nseq /\ play_cursor' = nseq /\ boundary' = nseq /\ UNCHANGED <<ring, gen>>

\* Faulty variant: the cursor stays in the old epoch.
JitterFlushKeepCursor(nseq) ==
  gen' = gen + 1 /\ seq_ref' = nseq /\ boundary' = nseq /\ UNCHANGED <<ring, play_cursor>>

JitterFlush(nseq) ==
  /\ gen' = gen + 1
  /\ seq_ref' = nseq
  /\ play_cursor' = nseq
  /\ boundary' = nseq
  /\ UNCHANGED ring

-----------------------------------------------------------------------------
\* jitter_next_resend returns [from, to]: the first missing run at or after the
\* cursor that ends before a settled slot of the ring window.
NextResend(from, to) ==
  /\ \A e \in play_cursor .. from - 1 : Settled(e)
  /\ \A e \in from .. to : ~Settled(e)
  /\ Settled(to + 1)

ResendRanges ==
  {r \in (play_cursor .. play_cursor + JITTER_SLOTS - 2) \X
         (play_cursor .. play_cursor + JITTER_SLOTS - 2) :
     r[1] <= r[2] /\ NextResend(r[1], r[2])}

\* jitter_try_resync.  Received packets at or ahead of the cursor; the newest of
\* them is hi, and run_start is where the contiguous run that ends in hi starts.
Ahead ==
  {ring[i].ext : i \in {j \in Slots : /\ ring[j].gen = gen
                                      /\ ring[j].state = "RECEIVED"
                                      /\ ring[j].ext >= play_cursor}}

ResyncRun(hi, run_start) ==
  /\ \A e \in Ahead : e <= hi
  /\ hi >= play_cursor + RESYNC_BEHIND
  /\ \A e \in run_start .. hi - 1 : Holds(e)
  /\ run_start = play_cursor \/ ~Holds(run_start - 1)
  /\ hi - run_start + 1 >= RESYNC_MIN_RUN

CanResync == \E hi \in Ahead : \E run_start \in play_cursor .. hi : ResyncRun(hi, run_start)

ResyncTarget(run_start) ==
  LET target == IF run_start > RESYNC_PREROLL THEN run_start - RESYNC_PREROLL
                ELSE run_start
  IN IF target < play_cursor THEN play_cursor ELSE target

TryResync ==
  /\ \E hi \in Ahead : \E run_start \in play_cursor .. hi :
       /\ ResyncRun(hi, run_start)
       /\ play_cursor' = ResyncTarget(run_start)
  /\ UNCHANGED <<ring, seq_ref, gen, boundary>>
=============================================================================

------------------------------- MODULE SeqExt -------------------------------
(***************************************************************************)
(* Wire-counter arithmetic of the receiver: seqext.c, which extends the    *)
(* 16-bit RTP sequence number to a 64-bit one, and the signed 32-bit       *)
(* timestamp compare of session_reject_stale_audio.                        *)
(*                                                                         *)
(* The two counter widths are parameters, given by half of their modulus:  *)
(* SeqHalf is 2^15 and TsHalf is 2^31 in the program.                      *)
(***************************************************************************)
EXTENDS Integers

CONSTANTS SeqHalf, TsHalf

ASSUME WidthAssumption == SeqHalf \in Nat \ {0} /\ TsHalf \in Nat \ {0}

SeqMod == 2 * SeqHalf
TsMod  == 2 * TsHalf

\* The two's complement reading of x in a counter of modulus 2 * half: a C cast
\* to int16_t or int32_t.
Signed(x, half) ==
  LET r == x % (2 * half) IN IF r >= half THEN r - 2 * half ELSE r

\* seqext_seq: the signed distance of the wire number from the reference, the
\* extended number it denotes, and the two cases the function refuses (the one
\* distance that is its own negation, and a number before zero).
SeqDelta(ref, wire) == Signed(wire - (ref % SeqMod), SeqHalf)
SeqExtend(ref, wire) == ref + SeqDelta(ref, wire)
SeqRefused(ref, wire) ==
  SeqDelta(ref, wire) = -SeqHalf \/ SeqExtend(ref, wire) < 0

\* The reference after an accepted number: it only moves forward.
SeqAdvance(ref, wire) ==
  IF SeqExtend(ref, wire) > ref THEN SeqExtend(ref, wire) ELSE ref

\* session_reject_stale_audio's compare: ts lies before the boundary.
TsBefore(ts, boundary) == Signed(ts - boundary, TsHalf) < 0
=============================================================================

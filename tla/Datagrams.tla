----------------------------- MODULE Datagrams ------------------------------
(***************************************************************************)
(* Datagrams of the audio and the control socket (rtp.c) and what          *)
(* rx_dispatch of session.c makes of them.  The audio header is three      *)
(* units (flags, type, sequence number) and a block of payload one; a      *)
(* resent packet comes behind a header of two.  MARKER is the type's top   *)
(* bit.                                                                    *)
(***************************************************************************)
EXTENDS Integers, Sequences

PLAIN == 0       \* 0x80: version 2, nothing else
FLAGGED == 1
AUDIO == 2
SYNC == 3
RESENT == 4
MARKER == 8

\* Any units; the type is a byte.
AllDatagrams == {d \in Seq(Nat) : Len(d) >= 2 => d[2] < 2 * MARKER}

NoPacket == [seq |-> -1, payload |-> <<>>]

rtp_parse_audio(d) ==
  IF Len(d) < 4 \/ d[1] # PLAIN \/ d[2] % MARKER # AUDIO THEN NoPacket
  ELSE [seq |-> d[3], payload |-> SubSeq(d, 4, Len(d))]

rtp_classify_control(d) ==
  IF Len(d) < 2 THEN "UNKNOWN"
  ELSE IF d[2] % MARKER = SYNC THEN "SYNC"
  ELSE IF d[2] % MARKER = RESENT /\ Len(d) > 2 THEN "RESEND_AUDIO" ELSE "UNKNOWN"

\* The packet rx_dispatch hands to rx_insert.
rx_dispatch(socket, d) ==
  IF socket = "audio" THEN rtp_parse_audio(d)
  ELSE IF rtp_classify_control(d) = "RESEND_AUDIO" THEN rtp_parse_audio(SubSeq(d, 3, Len(d)))
  ELSE NoPacket

\* Reference: exactly the audio packets are taken, and a resent one is the packet
\* that was lost.
DatagramFaithful(d) ==
  LET IsAudio(x) == Len(x) >= 4 /\ x[1] = PLAIN /\ x[2] \in {AUDIO, AUDIO + MARKER}
      p == rx_dispatch("audio", d)
  IN  /\ p # NoPacket <=> IsAudio(d)
      /\ IsAudio(d) => d = <<PLAIN, d[2], p.seq>> \o p.payload
      /\ \A first \in {PLAIN, FLAGGED}, type \in {RESENT, RESENT + MARKER} :
           rx_dispatch("control", <<first, type>> \o d) = p
      /\ rx_dispatch("control", d) # NoPacket => d[2] % MARKER = RESENT
=============================================================================

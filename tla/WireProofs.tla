----------------------------- MODULE WireProofs -----------------------------
(***************************************************************************)
(* Proofs about what raopd reads from the network: the datagrams of a      *)
(* session (module Datagrams) and the requests of an RTSP connection       *)
(* (RtspFraming), for every input and every value of the constants.        *)
(***************************************************************************)
EXTENDS Datagrams, RtspFraming, SequenceTheorems, WellFoundedInduction, TLAPS

\* A datagram that rtp_parse_audio takes is an audio packet, taken apart.
LEMMA AudioParsed ==
  ASSUME NEW d \in AllDatagrams
  PROVE  LET IsAudio == Len(d) >= 4 /\ d[1] = PLAIN /\ d[2] \in {AUDIO, AUDIO + MARKER}
             p == rtp_parse_audio(d)
         IN  /\ p # NoPacket <=> IsAudio
             /\ IsAudio => d = <<PLAIN, d[2], p.seq>> \o p.payload
<1> DEFINE IsAudio == Len(d) >= 4 /\ d[1] = PLAIN /\ d[2] \in {AUDIO, AUDIO + MARKER}
           q == [seq |-> d[3], payload |-> SubSeq(d, 4, Len(d))]
<1>1. d \in Seq(Nat) /\ Len(d) \in Nat /\ (Len(d) >= 2 => d[2] \in Nat /\ d[2] < 16)
  BY DEF AllDatagrams, MARKER
<1>2. Len(d) >= 2 => (d[2] % MARKER = AUDIO <=> d[2] \in {AUDIO, AUDIO + MARKER})
  BY <1>1 DEF MARKER, AUDIO
<1>3. CASE IsAudio
  <2>1. rtp_parse_audio(d) = q
    BY <1>1, <1>2, <1>3 DEF rtp_parse_audio
  <2>2. q # NoPacket
    BY <1>1, <1>3 DEF NoPacket
  <2>3. d = <<PLAIN, d[2], d[3]>> \o SubSeq(d, 4, Len(d))
    <3> DEFINE h == <<d[1], d[2], d[3]>>
               t == SubSeq(d, 4, Len(d))
    <3>1. h \in Seq(Nat) /\ t \in Seq(Nat) /\ Len(h) = 3 /\ Len(t) = Len(d) - 3
      BY <1>1, <1>3, SMTT(30)
    <3>2. \A i \in 1 .. Len(d) : (h \o t)[i] = d[i]
      BY <1>1, <1>3, <3>1, SMTT(30)
    <3>3. h \o t \in Seq(Nat) /\ Len(h \o t) = Len(d)
      BY <1>1, <3>1
    <3> HIDE DEF h, t
    <3>4. h \o t = d
      BY <1>1, <3>2, <3>3, SeqEqual, Zenon
    <3> QED  BY <1>3, <3>4, Zenon DEF h, t
  <2> QED  BY <1>3, <2>1, <2>2, <2>3
<1>4. CASE ~IsAudio
  BY <1>1, <1>2, <1>4 DEF rtp_parse_audio
<1> QED  BY <1>3, <1>4, Zenon

\* Of every datagram, whatever its length and bytes: rx_dispatch takes the audio
\* packets and nothing else, and a resent packet, behind the header it has on the
\* control socket, is the one that was lost (rtp.c:44, 66).
THEOREM EveryDatagramIsFaithful == \A d \in AllDatagrams : DatagramFaithful(d)
<1> SUFFICES ASSUME NEW d \in AllDatagrams PROVE DatagramFaithful(d)
  OBVIOUS
<1> DEFINE p == rtp_parse_audio(d)
<1>1. d \in Seq(Nat) /\ Len(d) \in Nat
  BY DEF AllDatagrams
<1>2. rx_dispatch("audio", d) = p
  BY Zenon DEF rx_dispatch
<1>3. ASSUME NEW first \in {PLAIN, FLAGGED}, NEW type \in {RESENT, RESENT + MARKER}
      PROVE  rx_dispatch("control", <<first, type>> \o d) = p
  <2> DEFINE h == <<first, type>>
             e == h \o d
  <2>1. h \in Seq(Nat) /\ Len(h) = 2 /\ h[2] = type /\ type % MARKER = RESENT
    BY DEF PLAIN, FLAGGED, RESENT, MARKER
  <2> HIDE DEF h
  <2>2. e \in Seq(Nat) /\ Len(e) = Len(d) + 2 /\ e[2] = type /\ \A i \in 1 .. Len(d) : e[i + 2] = d[i]
    <3>1. /\ e \in Seq(Nat) /\ Len(e) = Len(h) + Len(d)
          /\ \A i \in 1 .. Len(h) + Len(d) : e[i] = IF i <= Len(h) THEN h[i] ELSE d[i - Len(h)]
      BY <1>1, <2>1, ConcatProperties, Zenon
    <3> HIDE DEF e
    <3>2. e[2] = type
      BY <1>1, <2>1, <3>1
    <3>3. ASSUME NEW i \in 1 .. Len(d) PROVE e[i + 2] = d[i]
      <4>1. i + 2 \in 1 .. Len(h) + Len(d) /\ ~(i + 2 <= Len(h)) /\ (i + 2) - Len(h) = i
        BY <1>1, <2>1
      <4> QED  BY <3>1, <4>1, Zenon
    <3> QED  BY <1>1, <2>1, <3>1, <3>2, <3>3
  <2> HIDE DEF e
  <2>3. CASE Len(d) = 0
    <3>1. rtp_classify_control(e) # "RESEND_AUDIO"
      BY <2>1, <2>2, <2>3 DEF rtp_classify_control, RESENT, SYNC
    <3>2. p = NoPacket
      BY <2>3 DEF rtp_parse_audio
    <3> QED  BY <3>1, <3>2, Zenon DEF rx_dispatch, h, e
  <2>4. CASE Len(d) > 0
    <3>1. rtp_classify_control(e) = "RESEND_AUDIO"
      BY <1>1, <2>1, <2>2, <2>4 DEF rtp_classify_control, RESENT, SYNC
    <3>2. SubSeq(e, 3, Len(e)) = d
      <4> DEFINE t == SubSeq(e, 3, Len(e))
      <4>1. t \in Seq(Nat) /\ Len(t) = Len(d) /\ \A i \in 1 .. Len(d) : t[i] = e[i + 2]
        BY <1>1, <2>2, SMTT(30)
      <4> HIDE DEF t
      <4>2. t = d
        BY <1>1, <2>2, <4>1, SeqEqual, Zenon
      <4> QED  BY <4>2, Zenon DEF t
    <3>3. rx_dispatch("control", e) = p
      BY <3>1, <3>2, Zenon DEF rx_dispatch
    <3> QED  BY <3>3, Zenon DEF e, h
  <2> QED  BY <1>1, <2>3, <2>4
<1>4. rx_dispatch("control", d) # NoPacket => d[2] % MARKER = RESENT
  BY Zenon DEF rx_dispatch, rtp_classify_control
<1> HIDE DEF p
<1> QED  BY <1>2, <1>3, <1>4, AudioParsed, Zenon DEF DatagramFaithful, p

-----------------------------------------------------------------------------
\* The framing of requests.

\* A nonempty set of naturals has a least member: what the inductions below use.
LEMMA LeastNat ==
  ASSUME NEW T \in SUBSET Nat, T # {}
  PROVE  \E x \in T : \A y \in T : x <= y
<1> DEFINE R == OpToRel(<, Nat)
<1>1. \A x, y \in Nat : <<y, x>> \in R <=> y < x
  BY Zenon DEF OpToRel
<1>2. IsWellFoundedOn(R, Nat)
  BY NatLessThanWellFounded, Zenon
<1> HIDE DEF R
<1>3. PICK x \in T : \A y \in T : ~(<<y, x>> \in R)
  BY <1>2, WFMin, Zenon
<1>4. ASSUME NEW y \in T PROVE x <= y
  <2>1. x \in Nat /\ y \in Nat /\ ~(y < x)
    BY <1>1, <1>3, Zenon
  <2> QED  BY <2>1
<1> QED  BY <1>4, Zenon

\* What the client sends is a sequence of requests.
LEMMA StreamTypes ==
  ASSUME Init
  PROVE  stream \in Seq(Msg) /\ Len(stream) \in Nat \ {0}
<1>1. PICK n \in 1 .. MAX_MSGS : stream \in [1 .. n -> Msg]
  BY Zenon DEF Init
<1>2. n \in Nat \ {0} /\ stream \in Seq(Msg)
  BY <1>1, FramingAssumption, SeqDef
<1>3. Len(stream) = n
  BY <1>1, <1>2, LenProperties
<1> QED  BY <1>2, <1>3, Zenon

\* The recursion that defines Start has a solution: take the least length
\* without one, and extend the solution of the length before it.
LEMMA OffsetsExist ==
  ASSUME NEW n \in Nat
  PROVE  \E f : f = [i \in 1 .. n |-> IF i = 1 THEN 0 ELSE f[i - 1] + Size(stream[i - 1])]
<1> DEFINE Ok(m) == \E f : f = [i \in 1 .. m |-> IF i = 1 THEN 0 ELSE f[i - 1] + Size(stream[i - 1])]
           T == {m \in Nat : ~Ok(m)}
<1> SUFFICES ASSUME T # {} PROVE FALSE
  BY Zenon
<1>1. PICK m \in T : \A y \in T : m <= y
  <2> HIDE DEF T
  <2>1. T \in SUBSET Nat
    BY Zenon DEF T
  <2> QED  BY <2>1, LeastNat, Zenon
<1>2. m # 0
  <2>1. Ok(0)
    <3> DEFINE g == [i \in 1 .. 0 |-> 0]
    <3>1. g = [i \in 1 .. 0 |-> IF i = 1 THEN 0 ELSE g[i - 1] + Size(stream[i - 1])]
      OBVIOUS
    <3> HIDE DEF g
    <3> QED BY <3>1, Zenon
  <2> QED BY <2>1, Zenon
<1>3. m - 1 \in Nat /\ m - 1 \notin T /\ m \in Nat
  <2>1. m \in Nat
    BY Zenon DEF T
  <2> HIDE DEF T
  <2> QED  BY <1>1, <1>2, <2>1
<1>4. PICK f : f = [i \in 1 .. m - 1 |-> IF i = 1 THEN 0 ELSE f[i - 1] + Size(stream[i - 1])]
  BY <1>3, Zenon
<1> DEFINE g == [i \in 1 .. m |-> IF i = 1 THEN 0 ELSE f[i - 1] + Size(stream[i - 1])]
<1>5. \A i \in 1 .. m - 1 : g[i] = f[i]
  <2> SUFFICES ASSUME NEW i \in 1 .. m - 1 PROVE g[i] = f[i]
    BY Zenon
  <2>1. f[i] = IF i = 1 THEN 0 ELSE f[i - 1] + Size(stream[i - 1])
    BY <1>3, <1>4, Zenon
  <2> QED  BY <1>3, <2>1
<1>6. \A i \in 1 .. m : i # 1 => g[i - 1] = f[i - 1]
  <2> SUFFICES ASSUME NEW i \in 1 .. m, i # 1 PROVE g[i - 1] = f[i - 1]
    BY Zenon
  <2>1. i - 1 \in 1 .. m - 1
    BY <1>3
  <2> HIDE DEF g
  <2> QED  BY <1>5, <2>1, Zenon
<1>7. g = [i \in 1 .. m |-> IF i = 1 THEN 0 ELSE g[i - 1] + Size(stream[i - 1])]
  BY <1>3, <1>6, Zenon
<1> HIDE DEF g
<1>8. Ok(m)
  BY <1>7, Zenon
<1> QED  BY <1>1, <1>8, Zenon

\* Start satisfies its recursion.
LEMMA StartEquation ==
  ASSUME Len(stream) \in Nat
  PROVE  Start = [i \in 1 .. (Len(stream) + 1) |-> IF i = 1 THEN 0 ELSE Start[i - 1] + Size(stream[i - 1])]
<1>1. \E f : f = [i \in 1 .. (Len(stream) + 1) |-> IF i = 1 THEN 0 ELSE f[i - 1] + Size(stream[i - 1])]
  <2>1. Len(stream) + 1 \in Nat
    OBVIOUS
  <2> QED BY <2>1, OffsetsExist, Zenon
<1> QED  BY <1>1, Zenon DEF Start

\* The requests of the stream and their sizes.
LEMMA StreamFacts ==
  ASSUME stream \in Seq(Msg)
  PROVE  /\ Len(stream) \in Nat /\ DOMAIN stream = 1 .. Len(stream)
         /\ \A i \in DOMAIN stream :
              /\ stream[i] \in Msg /\ stream[i].hdr \in Nat /\ stream[i].body \in Nat /\ stream[i].hdr >= 1
              /\ Size(stream[i]) \in Nat /\ Size(stream[i]) = stream[i].hdr + stream[i].body
              /\ Size(stream[i]) >= 1
<1>1. Len(stream) \in Nat /\ DOMAIN stream = 1 .. Len(stream) /\ \A i \in DOMAIN stream : stream[i] \in Msg
  BY LenProperties, Zenon
<1>2. \A m \in Msg : /\ m.hdr \in Nat /\ m.body \in Nat /\ m.hdr >= 1
                     /\ Size(m) \in Nat /\ Size(m) = m.hdr + m.body /\ Size(m) >= 1
  BY FramingAssumption DEF Msg, Size
<1> QED  BY <1>1, <1>2, Zenon

\* A request starts where the one before it ends.
LEMMA StartSteps ==
  ASSUME stream \in Seq(Msg)
  PROVE  /\ Start[1] = 0
         /\ \A i \in 1 .. Len(stream) : Start[i + 1] = Start[i] + Size(stream[i])
<1>1. Len(stream) \in Nat
  BY StreamFacts, Zenon
<1>2. \A j \in 1 .. (Len(stream) + 1) : Start[j] = IF j = 1 THEN 0 ELSE Start[j - 1] + Size(stream[j - 1])
  <2>1. Start = [i \in 1 .. (Len(stream) + 1) |-> IF i = 1 THEN 0 ELSE Start[i - 1] + Size(stream[i - 1])]
    BY <1>1, StartEquation, Zenon
  <2> QED  BY <2>1, Zenon
<1>3. Start[1] = 0
  <2>1. 1 \in 1 .. (Len(stream) + 1)
    BY <1>1
  <2> QED  BY <1>2, <2>1, Zenon
<1>4. ASSUME NEW i \in 1 .. Len(stream)
      PROVE  Start[i + 1] = Start[i] + Size(stream[i])
  <2>1. i + 1 \in 1 .. (Len(stream) + 1) /\ i + 1 # 1 /\ (i + 1) - 1 = i
    BY <1>1
  <2> QED  BY <1>2, <2>1, Zenon
<1> QED  BY <1>3, <1>4, Zenon

\* The offsets are naturals.
LEMMA StartNat ==
  ASSUME stream \in Seq(Msg)
  PROVE  \A i \in 1 .. Len(stream) + 1 : Start[i] \in Nat
<1> DEFINE T == {i \in 1 .. Len(stream) + 1 : Start[i] \notin Nat}
<1>0. Len(stream) \in Nat
  BY StreamFacts, Zenon
<1> SUFFICES ASSUME T # {} PROVE FALSE
  OBVIOUS
<1>1. T \in SUBSET Nat
  BY <1>0
<1>2. PICK j \in T : \A y \in T : j <= y
  <2> HIDE DEF T
  <2> QED  BY <1>1, LeastNat, Zenon
<1>3. j \in 1 .. Len(stream) + 1 /\ Start[j] \notin Nat
  OBVIOUS
<1>4. j # 1
  BY <1>3, StartSteps
<1>5. j - 1 \in 1 .. Len(stream) /\ j - 1 \notin T
  <2>1. j - 1 \in 1 .. Len(stream)
    BY <1>0, <1>3, <1>4
  <2> HIDE DEF T
  <2> QED  BY <1>0, <1>2, <1>3, <2>1
<1>6. Start[j - 1] \in Nat
  BY <1>0, <1>5
<1>7. Start[(j - 1) + 1] = Start[j - 1] + Size(stream[j - 1]) /\ Size(stream[j - 1]) \in Nat
  BY <1>5, StartSteps, StreamFacts, Zenon
<1>8. (j - 1) + 1 = j
  BY <1>0, <1>3
<1> QED  BY <1>3, <1>6, <1>7, <1>8

\* The requests start one after the other, so an offset belongs to one request.
LEMMA StartIncreasing ==
  ASSUME stream \in Seq(Msg)
  PROVE  \A i, j \in 1 .. Len(stream) + 1 : i < j => Start[i] < Start[j]
<1> DEFINE T == {j \in 1 .. Len(stream) + 1 : \E i \in 1 .. Len(stream) + 1 : i < j /\ ~(Start[i] < Start[j])}
<1>0. Len(stream) \in Nat
  BY StreamFacts, Zenon
<1> SUFFICES ASSUME T # {} PROVE FALSE
  OBVIOUS
<1>1. T \in SUBSET Nat
  BY <1>0
<1>2. PICK j \in T : \A y \in T : j <= y
  <2> HIDE DEF T
  <2> QED  BY <1>1, LeastNat, Zenon
<1>3. PICK i \in 1 .. Len(stream) + 1 : i < j /\ ~(Start[i] < Start[j])
  OBVIOUS
<1>4. j \in 1 .. Len(stream) + 1 /\ j - 1 \in 1 .. Len(stream) /\ i <= j - 1
  BY <1>0, <1>3
<1>5. j - 1 \notin T
  <2> HIDE DEF T
  <2> QED  BY <1>0, <1>2, <1>4
<1>6. Start[i] <= Start[j - 1]
  <2>1. Start[i] \in Nat /\ Start[j - 1] \in Nat
    BY <1>0, <1>4, StartNat
  <2>2. CASE i = j - 1
    BY <2>1, <2>2
  <2>3. CASE i # j - 1
    <3>1. i < j - 1 /\ j - 1 \in 1 .. Len(stream) + 1
      BY <1>0, <1>4, <2>3
    <3>2. Start[i] < Start[j - 1]
      BY <1>5, <3>1, Zenon
    <3> QED  BY <2>1, <3>2
  <2> QED  BY <2>2, <2>3, Zenon
<1>7. Start[j] = Start[j - 1] + Size(stream[j - 1])
  <2>1. (j - 1) + 1 = j
    BY <1>0, <1>4
  <2> QED  BY <1>4, <2>1, StartSteps, Zenon
<1>8. Size(stream[j - 1]) \in Nat /\ Size(stream[j - 1]) >= 1 /\ Start[i] \in Nat /\ Start[j - 1] \in Nat
  <2>1. Start[i] \in Nat /\ Start[j - 1] \in Nat
    BY <1>0, <1>4, StartNat
  <2>2. Size(stream[j - 1]) \in Nat /\ Size(stream[j - 1]) >= 1
    BY <1>0, <1>4, StreamFacts, Zenon
  <2> QED  BY <2>1, <2>2, Zenon
<1> QED  BY <1>3, <1>6, <1>7, <1>8, SMTT(30)

\* What rtsp_msg_parse finds where request k starts, or the stream ends.
LEMMA ParseResult ==
  ASSUME stream \in Seq(Msg), NEW k \in 1 .. Len(stream) + 1, NEW len \in Int
  PROVE  LET p == rtsp_msg_parse(Start[k], len) IN
         IF k \in DOMAIN stream
         THEN /\ p.msg = k
              /\ p.r = IF len < stream[k].hdr THEN 0 ELSE IF stream[k].kind = "bad" THEN -1
                       ELSE IF len < Size(stream[k]) THEN 0 ELSE 1
              /\ p.hdrs <=> len >= stream[k].hdr
         ELSE p.r = 0 /\ ~p.hdrs
<1> DEFINE p == rtsp_msg_parse(Start[k], len)
<1>0. Len(stream) \in Nat /\ DOMAIN stream = 1 .. Len(stream)
  BY StreamFacts, Zenon
<1>1. \A i \in DOMAIN stream : Start[i] = Start[k] => i = k
  <2> SUFFICES ASSUME NEW i \in DOMAIN stream, Start[i] = Start[k], i # k PROVE FALSE
    OBVIOUS
  <2>1. i \in 1 .. Len(stream) + 1 /\ (i < k \/ k < i)
    BY <1>0
  <2>2. Start[i] \in Nat /\ Start[k] \in Nat
    BY <2>1, StartNat, Zenon
  <2> QED  BY <2>1, <2>2, StartIncreasing
<1>2. CASE k \in DOMAIN stream
  <2>1. \E i \in DOMAIN stream : Start[i] = Start[k]
    BY <1>2, Zenon
  <2>2. (CHOOSE j \in DOMAIN stream : Start[j] = Start[k]) = k
    BY <1>1, <2>1, Zenon
  <2> DEFINE m == stream[k]
             c == len >= m.hdr
  <2>3. p = [msg |-> k,
             r |-> IF len < m.hdr THEN 0 ELSE IF m.kind = "bad" THEN -1 ELSE IF len < Size(m) THEN 0 ELSE 1,
             hdrs |-> c]
    BY <2>1, <2>2, Zenon DEF rtsp_msg_parse
  <2> HIDE DEF p, m, c
  <2>4. p.msg = k /\ p.r = IF len < m.hdr THEN 0 ELSE IF m.kind = "bad" THEN -1 ELSE IF len < Size(m) THEN 0 ELSE 1
    BY <2>3, Zenon
  <2>5. p.hdrs = c
    BY <2>3, Zenon
  <2> QED  BY <1>2, <2>4, <2>5, Zenon DEF p, m, c
<1>3. CASE k \notin DOMAIN stream
  <2>1. ~\E i \in DOMAIN stream : Start[i] = Start[k]
    BY <1>1, <1>3, Zenon
  <2>2. Start[k] = StreamEnd
    <3>1. k = Len(stream) + 1
      BY <1>0, <1>3
    <3> QED  BY <3>1, Zenon DEF StreamEnd
  <2> DEFINE c == FALSE
  <2>3. p = [msg |-> 0, r |-> 0, hdrs |-> c]
    BY <2>1, <2>2, Zenon DEF rtsp_msg_parse
  <2> HIDE DEF p, c
  <2>4. p.r = 0 /\ p.hdrs = c
    BY <2>3, Zenon
  <2> QED  BY <1>3, <2>4, Zenon DEF p, c
<1> QED  BY <1>2, <1>3, Zenon

\* A request that is whole, or whose headers are.
LEMMA ParseAt ==
  ASSUME stream \in Seq(Msg), NEW k \in 1 .. Len(stream) + 1, NEW len \in Int,
         LET p == rtsp_msg_parse(Start[k], len) IN p.r = 1 \/ (p.r = 0 /\ p.hdrs)
  PROVE  LET p == rtsp_msg_parse(Start[k], len) IN
         /\ k \in DOMAIN stream /\ p.msg = k
         /\ p.r = 1 => Size(stream[k]) <= len
         /\ p.r = 0 => stream[k].hdr <= len /\ len < Size(stream[k])
<1> DEFINE p == rtsp_msg_parse(Start[k], len)
           m == stream[k]
<1>1. k \in DOMAIN stream => m.hdr \in Nat /\ Size(m) \in Nat
  BY StreamFacts, Zenon
<1>2. IF k \in DOMAIN stream
      THEN /\ p.msg = k
           /\ p.r = IF len < m.hdr THEN 0 ELSE IF m.kind = "bad" THEN -1
                    ELSE IF len < Size(m) THEN 0 ELSE 1
           /\ p.hdrs <=> len >= m.hdr
      ELSE p.r = 0 /\ ~p.hdrs
  BY ParseResult, Zenon
<1>3. p.r = 1 \/ (p.r = 0 /\ p.hdrs)
  OBVIOUS
<1> HIDE DEF p, m
<1>4. /\ k \in DOMAIN stream /\ p.msg = k
      /\ p.r = 1 => Size(m) <= len
      /\ p.r = 0 => m.hdr <= len /\ len < Size(m)
  BY <1>1, <1>2, <1>3
<1> QED  BY <1>4, Zenon DEF p, m

-----------------------------------------------------------------------------
\* The values of bodycap_t.
Captures ==
  [active : BOOLEAN, msg : Nat, mode : {"FILE", "MEM", "DISCARD"}, remaining : Nat, got : Nat,
   failed : BOOLEAN]

\* The types, with what drain's offset may be.
FramingTypes ==
  /\ stream \in Seq(Msg)
  /\ rpos \in Nat /\ rlen \in Nat /\ off \in Nat /\ off <= rlen
  /\ pc \in {"wait", "drain", "closed"} /\ (pc = "wait" => off = 0)
  /\ bcap \in Captures
  /\ handled \in Seq(Nat) /\ Len(handled) <= Len(stream)

\* Where the reading stands: at the start of the request after those handled,
\* or within the body of the last one, with the rest of it to come.
Framed ==
  pc # "closed" =>
    IF bcap.active
    THEN pc = "wait" /\ rlen = 0 /\ rpos + bcap.remaining = Start[Len(handled) + 1]
    ELSE Base + off = Start[Len(handled) + 1]

\* What a capture that has not failed kept and what is to come make the body.
CaptureInv ==
  bcap.active =>
    /\ bcap.msg \in DOMAIN stream
    /\ ~bcap.failed => bcap.got + bcap.remaining = stream[bcap.msg].body

\* The inductive invariant.
FramingInv == FramingTypes /\ Framed /\ CaptureInv /\ HandledInOrder /\ PublishedWhole

\* The offsets depend on the stream alone.
LEMMA StartStays == stream' = stream => Start' = Start
  BY Zenon DEF Start, Size

\* bodycap_feed keeps the count: unless the capture failed, what it kept and
\* what is to come still make the K bytes of the body.
LEMMA FeedInv ==
  ASSUME NEW b \in Captures, NEW n \in Nat, NEW werr \in BOOLEAN, NEW K \in Nat,
         ~b.failed => b.got + b.remaining = K
  PROVE  LET c == bodycap_feed(b, n, werr) IN
         /\ c \in Captures /\ c.active = b.active /\ c.msg = b.msg /\ c.mode = b.mode
         /\ c.remaining = b.remaining - Taken(b, n)
         /\ ~c.failed => c.got + c.remaining = K
<1> DEFINE c == bodycap_feed(b, n, werr)
           take == Taken(b, n)
           r == b.remaining - take
           f == Fails(b, take, werr)
           g == IF b.failed \/ WriteFails(b, take, werr) THEN b.got
                ELSE IF OverCap(b, take) THEN MEM_CAP ELSE b.got + take
<1>1. b.remaining \in Nat /\ b.got \in Nat /\ b.failed \in BOOLEAN
  BY Zenon DEF Captures
<1>2. take \in Nat /\ r \in Nat
  BY <1>1 DEF Taken, Least
<1>3. c = [b EXCEPT !.remaining = r, !.failed = f, !.got = g]
  BY Zenon DEF bodycap_feed
<1>4. f \in BOOLEAN
  BY <1>1, Zenon DEF Fails, OverCap, WriteFails
<1>5. ~f => ~b.failed /\ ~WriteFails(b, take, werr) /\ ~OverCap(b, take)
  BY Zenon DEF Fails
<1> HIDE DEF take, f
<1>6. g \in Nat /\ (~f => g = b.got + take)
  BY <1>1, <1>2, <1>5, FramingAssumption
<1>7. ~f => g + r = K
  BY <1>1, <1>2, <1>5, <1>6
<1> HIDE DEF c, r, g
<1>8. /\ c \in Captures /\ c.active = b.active /\ c.msg = b.msg /\ c.mode = b.mode
      /\ c.remaining = r /\ c.failed = f /\ c.got = g
  BY <1>2, <1>3, <1>4, <1>6, Zenon DEF Captures
<1> QED  BY <1>7, <1>8, Zenon DEF c, r, take

\* bodycap_begin starts with the whole body to come.
LEMMA BeginInv ==
  ASSUME stream \in Seq(Msg), NEW i \in DOMAIN stream, NEW oerr \in BOOLEAN
  PROVE  LET b == bodycap_begin(i, oerr) IN
         /\ b \in Captures /\ b.active /\ b.msg = i /\ b.mode = body_mode(stream[i])
         /\ b.remaining = stream[i].body /\ b.got + b.remaining = stream[i].body
<1>1. \A a \in BOOLEAN, f \in BOOLEAN, m \in Nat, d \in {"FILE", "MEM", "DISCARD"}, r \in Nat :
        LET b == [active |-> a, msg |-> m, mode |-> d, remaining |-> r, got |-> 0, failed |-> f] IN
        /\ b \in Captures /\ b.active = a /\ b.msg = m /\ b.mode = d /\ b.remaining = r /\ b.got = 0
  BY DEF Captures
<1> DEFINE b == bodycap_begin(i, oerr)
           f == body_mode(stream[i]) = "FILE" /\ oerr
           a == TRUE
<1>2. f \in BOOLEAN /\ a \in BOOLEAN
  BY Zenon
<1>3. i \in Nat /\ stream[i].body \in Nat
  BY StreamFacts
<1>4. body_mode(stream[i]) \in {"FILE", "MEM", "DISCARD"}
  BY Zenon DEF body_mode
<1>5. b = [active |-> a, msg |-> i, mode |-> body_mode(stream[i]), remaining |-> stream[i].body,
           got |-> 0, failed |-> f]
  BY Zenon DEF bodycap_begin
<1> HIDE DEF b, f, a
<1>6. /\ b \in Captures /\ b.active = a /\ b.msg = i /\ b.mode = body_mode(stream[i])
      /\ b.remaining = stream[i].body /\ b.got = 0
  BY <1>1, <1>2, <1>3, <1>4, <1>5
<1>7. b.active
  BY <1>6, Zenon DEF a
<1> QED  BY <1>3, <1>6, <1>7 DEF b

\* A capture that is announced kept the whole body.
LEMMA AnnouncedWhole ==
  ASSUME NEW c \in Captures, ~c.failed => c.got + c.remaining = stream[c.msg].body
  PROVE  \A p \in Announced(c) : p.got = stream[p.msg].body
  BY DEF Announced, Captures

\* A cleared bodycap_t is not active.
LEMMA NoCapture == NoCap \in Captures /\ ~NoCap.active
<1>1. \A a \in BOOLEAN, f \in BOOLEAN :
        LET b == [active |-> a, msg |-> 0, mode |-> "DISCARD", remaining |-> 0, got |-> 0, failed |-> f] IN
        b \in Captures /\ b.active = a
  BY Zenon DEF Captures
<1> QED  BY <1>1, Zenon DEF NoCap

\* teardown_client leaves nothing to frame.
LEMMA DropInv ==
  ASSUME FramingInv, Drop, UNCHANGED <<stream, rpos>>,
         handled' \in Seq(Nat), Len(handled') <= Len(stream), HandledInOrder', PublishedWhole'
  PROVE  FramingInv'
<1>1. NoCap \in Captures /\ ~NoCap.active
  BY NoCapture, Zenon
<1>2. pc' = "closed" /\ rlen' = 0 /\ off' = 0 /\ bcap' = NoCap
  BY Zenon DEF Drop
<1> QED  BY <1>1, <1>2 DEF FramingInv, FramingTypes, Framed, CaptureInv

\* The next request is handled.
LEMMA NextHandled ==
  ASSUME FramingTypes, HandledInOrder, Len(handled) + 1 \in DOMAIN stream,
         handled' = Append(handled, Len(handled) + 1)
  PROVE  /\ HandledInOrder' /\ handled' \in Seq(Nat)
         /\ Len(handled') = Len(handled) + 1 /\ Len(handled') <= Len(stream)
<1>1. /\ handled \in Seq(Nat) /\ Len(handled) \in Nat /\ DOMAIN handled = 1 .. Len(handled)
      /\ Len(stream) \in Nat /\ DOMAIN stream = 1 .. Len(stream)
  BY LenProperties, StreamFacts, Zenon DEF FramingTypes
<1>2. /\ handled' \in Seq(Nat) /\ Len(handled') = Len(handled) + 1 /\ DOMAIN handled' = 1 .. Len(handled) + 1
      /\ \A i \in 1 .. Len(handled) : handled'[i] = handled[i]
      /\ handled'[Len(handled) + 1] = Len(handled) + 1
  BY <1>1, AppendProperties, LenProperties
<1>3. \A i \in 1 .. Len(handled) + 1 : i \in 1 .. Len(handled) \/ i = Len(handled) + 1
  BY <1>1
<1> QED  BY <1>1, <1>2, <1>3 DEF HandledInOrder

\* A body captured in one go is announced whole or not at all.
LEMMA WholeBody ==
  ASSUME stream \in Seq(Msg), NEW i \in DOMAIN stream, NEW oerr \in BOOLEAN, NEW werr \in BOOLEAN
  PROVE  \A p \in CapturedWhole(i, oerr, werr) : p.got = stream[p.msg].body
<1> DEFINE b == bodycap_begin(i, oerr)
           n == stream[i].body
           c == bodycap_feed(b, n, werr)
<1>1. n \in Nat
  BY StreamFacts, Zenon
<1>2. b \in Captures /\ b.msg = i /\ b.got + b.remaining = n
  BY BeginInv, Zenon
<1> HIDE DEF b, n
<1>3. c \in Captures /\ c.msg = b.msg /\ (~c.failed => c.got + c.remaining = n)
  BY <1>1, <1>2, FeedInv
<1> HIDE DEF c
<1>4. ~c.failed => c.got + c.remaining = stream[c.msg].body
  BY <1>2, <1>3, Zenon DEF n
<1>5. \A p \in Announced(c) : p.got = stream[p.msg].body
  BY <1>3, <1>4, AnnouncedWhole, Zenon
<1>6. CapturedWhole(i, oerr, werr) = Announced(c) \/ CapturedWhole(i, oerr, werr) = {}
  BY Zenon DEF CapturedWhole, b, c, n
<1> QED  BY <1>5, <1>6, Zenon

\* drain handles the request at its offset, and goes on at the next one.
LEMMA DrainOneInv ==
  ASSUME FramingInv, DrainOne
  PROVE  FramingInv'
<1> DEFINE p == rtsp_msg_parse(Base + off, rlen - off)
           k == Len(handled) + 1
<1>1. /\ stream \in Seq(Msg) /\ Len(stream) \in Nat /\ rlen \in Nat /\ off \in Nat /\ rpos \in Nat
      /\ handled \in Seq(Nat) /\ Len(handled) \in Nat /\ Len(handled) <= Len(stream)
      /\ FramingTypes /\ HandledInOrder
  BY StreamFacts, LenProperties, Zenon DEF FramingInv, FramingTypes
<1>2. /\ pc = "drain" /\ p.r = 1 /\ handled' = Append(handled, p.msg)
      /\ UNCHANGED <<stream, rpos>>
      /\ \E oerr, werr \in BOOLEAN : published' = published \cup CapturedWhole(p.msg, oerr, werr)
  BY Zenon DEF DrainOne
<1>3. ~bcap.active /\ Base + off = Start[k] /\ k \in 1 .. Len(stream) + 1 /\ rlen - off \in Int
  BY <1>1, <1>2 DEF FramingInv, Framed
<1>4. k \in DOMAIN stream /\ p.msg = k /\ Size(stream[k]) <= rlen - off
  BY <1>1, <1>2, <1>3, ParseAt
<1> HIDE DEF p
<1>5. /\ HandledInOrder' /\ handled' \in Seq(Nat)
      /\ Len(handled') = k /\ Len(handled') <= Len(stream)
  BY <1>1, <1>2, <1>4, NextHandled, Zenon
<1>6. PublishedWhole'
  <2>1. PICK oerr \in BOOLEAN, werr \in BOOLEAN : published' = published \cup CapturedWhole(k, oerr, werr)
    BY <1>2, <1>4, Zenon
  <2>2. \A q \in CapturedWhole(k, oerr, werr) : q.got = stream[q.msg].body
    BY <1>1, <1>4, WholeBody, Zenon
  <2> QED  BY <1>2, <2>1, <2>2, Zenon DEF FramingInv, PublishedWhole
<1>7. CASE Drop
  BY <1>2, <1>5, <1>6, <1>7, DropInv, Zenon
<1>8. CASE ~Drop
  <2>1. off' = off + Size(stream[k]) /\ UNCHANGED <<rlen, pc, bcap>>
    BY <1>4, <1>8, Zenon DEF DrainOne, p
  <2>2. Size(stream[k]) \in Nat
    BY <1>1, <1>4, StreamFacts, Zenon
  <2>3. FramingTypes'
    BY <1>1, <1>2, <1>4, <1>5, <2>1, <2>2 DEF FramingTypes
  <2>4. Framed'
    <3>1. Start' = Start /\ Start[k + 1] = Start[k] + Size(stream[k])
      BY <1>1, <1>2, <1>4, StartStays, StartSteps, StreamFacts, Zenon
    <3>2. Base' + off' = Start[k + 1]
      BY <1>1, <1>2, <1>3, <2>1, <2>2, <3>1, SMTT(30) DEF Base
    <3> QED  BY <1>3, <1>5, <2>1, <3>1, <3>2, Zenon DEF Framed
  <2>5. CaptureInv'
    BY <1>3, <2>1, Zenon DEF CaptureInv
  <2> QED  BY <1>5, <1>6, <2>3, <2>4, <2>5, Zenon DEF FramingInv
<1> QED  BY <1>7, <1>8, Zenon

\* frame_oversized leaves the reading within the body of the request it
\* answered, with the part not yet received to come.
LEMMA FrameOversizedInv ==
  ASSUME FramingInv, FrameOversized
  PROVE  FramingInv'
<1> DEFINE p == rtsp_msg_parse(Base, rlen)
           k == Len(handled) + 1
<1>1. /\ stream \in Seq(Msg) /\ Len(stream) \in Nat /\ rlen \in Nat /\ off \in Nat /\ rpos \in Nat
      /\ handled \in Seq(Nat) /\ Len(handled) \in Nat /\ Len(handled) <= Len(stream)
      /\ FramingTypes /\ HandledInOrder
  BY StreamFacts, LenProperties, Zenon DEF FramingInv, FramingTypes
<1>2. /\ pc = "wait" /\ off = 0 /\ ~bcap.active /\ p.r = 0 /\ p.hdrs /\ handled' = Append(handled, p.msg)
      /\ UNCHANGED <<stream, rpos, published>>
  BY Zenon DEF FrameOversized, FramingInv, FramingTypes
<1>3. Base = Start[k] /\ k \in 1 .. Len(stream) + 1
  BY <1>1, <1>2 DEF FramingInv, Framed, Base
<1>4. k \in DOMAIN stream /\ p.msg = k /\ stream[k].hdr <= rlen /\ rlen < Size(stream[k])
  BY <1>1, <1>2, <1>3, ParseAt, SMTT(30)
<1> HIDE DEF p
<1>5. /\ HandledInOrder' /\ handled' \in Seq(Nat)
      /\ Len(handled') = k /\ Len(handled') <= Len(stream)
  BY <1>1, <1>2, <1>4, NextHandled, Zenon
<1>6. PublishedWhole'
  BY <1>2, Zenon DEF FramingInv, PublishedWhole
<1>7. CASE Drop
  BY <1>2, <1>5, <1>6, <1>7, DropInv, Zenon
<1>8. CASE ~Drop
  <2>1. /\ \E oerr, werr \in BOOLEAN :
             bcap' = bodycap_feed(bodycap_begin(k, oerr), rlen - stream[k].hdr, werr)
        /\ rlen' = 0 /\ UNCHANGED <<pc, off>>
    BY <1>4, <1>8, Zenon DEF FrameOversized, p
  <2>2. PICK oerr \in BOOLEAN, werr \in BOOLEAN :
          bcap' = bodycap_feed(bodycap_begin(k, oerr), rlen - stream[k].hdr, werr)
    BY <2>1, Zenon
  <2> DEFINE b == bodycap_begin(k, oerr)
             n == rlen - stream[k].hdr
  <2>3. /\ stream[k].hdr \in Nat /\ stream[k].body \in Nat /\ Size(stream[k]) = stream[k].hdr + stream[k].body
        /\ n \in Nat /\ n < stream[k].body
    BY <1>1, <1>4, StreamFacts
  <2>4. b \in Captures /\ b.active /\ b.msg = k /\ b.remaining = stream[k].body
        /\ b.got + b.remaining = stream[k].body
    BY <1>1, <1>4, BeginInv, Zenon
  <2>5. bcap' = bodycap_feed(b, n, werr)
    BY <2>2, Zenon
  <2> HIDE DEF b, n
  <2>6. /\ bcap' \in Captures /\ bcap'.active = b.active /\ bcap'.msg = k
        /\ bcap'.remaining = b.remaining - Taken(b, n)
        /\ ~bcap'.failed => bcap'.got + bcap'.remaining = stream[k].body
    <3> DEFINE c == bodycap_feed(b, n, werr)
               K == stream[k].body
    <3>1. K \in Nat /\ n \in Nat /\ b \in Captures /\ b.got + b.remaining = K
      BY <2>3, <2>4, Zenon
    <3> HIDE DEF K
    <3>2. /\ c \in Captures /\ c.active = b.active /\ c.msg = b.msg
          /\ c.remaining = b.remaining - Taken(b, n)
          /\ ~c.failed => c.got + c.remaining = K
      BY <3>1, FeedInv
    <3> QED  BY <2>4, <2>5, <3>2, Zenon DEF K
  <2>7. bcap'.active
    BY <2>4, <2>6, Zenon
  <2>8. bcap'.remaining = stream[k].body - n
    BY <2>3, <2>4, <2>6 DEF Taken, Least
  <2>9. FramingTypes'
    BY <1>1, <1>2, <1>5, <2>1, <2>6 DEF FramingTypes
  <2>10. Framed'
    <3>1. Start' = Start /\ Start[k + 1] = Start[k] + Size(stream[k])
      BY <1>1, <1>2, <1>4, StartStays, StartSteps, StreamFacts, Zenon
    <3>2. rpos + bcap'.remaining = Start[k + 1]
      <4>1. rpos - rlen = Start[k] /\ n = rlen - stream[k].hdr
        BY <1>3, Zenon DEF Base, n
      <4>2. rpos + (stream[k].body - n) = Start[k] + (stream[k].hdr + stream[k].body)
        <5> DEFINE h == stream[k].hdr
                   d == stream[k].body
                   s == Start[k]
        <5>1. h \in Int /\ d \in Int /\ n \in Int /\ rlen \in Int /\ rpos \in Int
          BY <1>1, <2>3
        <5>2. rpos - rlen = s /\ n = rlen - h
          BY <4>1, Zenon
        <5> HIDE DEF h, d, s
        <5>3. rpos + (d - n) = s + (h + d)
          BY <5>1, <5>2
        <5> QED  BY <5>3, Zenon DEF h, d, s
      <4> QED  BY <2>3, <2>8, <3>1, <4>2, Zenon
    <3> QED  BY <1>2, <1>5, <2>1, <2>7, <3>1, <3>2, Zenon DEF Framed
  <2>11. CaptureInv'
    BY <1>2, <1>4, <2>6, Zenon DEF CaptureInv
  <2> QED  BY <1>5, <1>6, <2>9, <2>10, <2>11, Zenon DEF FramingInv
<1> QED  BY <1>7, <1>8, Zenon

\* Received bytes are appended: the buffer starts where it did.
LEMMA RecvRequestsInv ==
  ASSUME FramingInv, RecvRequests
  PROVE  FramingInv'
<1>1. /\ stream \in Seq(Msg) /\ rlen \in Nat /\ rpos \in Nat /\ off = 0 /\ StreamEnd \in Nat
      /\ pc = "wait" /\ ~bcap.active
  <2>1. stream \in Seq(Msg) /\ Len(stream) + 1 \in 1 .. Len(stream) + 1
    BY StreamFacts DEF FramingInv, FramingTypes
  <2>2. StreamEnd \in Nat
    BY <2>1, StartNat, Zenon DEF StreamEnd
  <2> QED  BY <2>1, <2>2, Zenon DEF RecvRequests, FramingInv, FramingTypes
<1>2. PICK n \in 1 .. Least(RBUF_CAP - rlen, StreamEnd - rpos) : rpos' = rpos + n /\ rlen' = rlen + n
  BY Zenon DEF RecvRequests
<1>3. n \in Nat
  BY <1>1, FramingAssumption DEF Least
<1>4. pc' = "drain" /\ UNCHANGED <<stream, off, bcap, handled, published>> /\ Start' = Start
  BY StartStays, Zenon DEF RecvRequests
<1>5. Base' = Base /\ rpos' \in Nat /\ rlen' \in Nat
  BY <1>1, <1>2, <1>3 DEF Base
<1>6. FramingTypes'
  BY <1>1, <1>4, <1>5 DEF FramingInv, FramingTypes
<1>7. Framed'
  BY <1>1, <1>4, <1>5, Zenon DEF FramingInv, Framed
<1> QED
  BY <1>4, <1>6, <1>7, Zenon DEF FramingInv, CaptureInv, HandledInOrder, PublishedWhole

\* A capture takes what its body needs, so the bytes it leaves in the buffer
\* start at the next request.
LEMMA RecvBodyInv ==
  ASSUME FramingInv, RecvBody
  PROVE  FramingInv'
<1> DEFINE k == Len(handled) + 1
<1>1. /\ stream \in Seq(Msg) /\ rlen = 0 /\ rpos \in Nat /\ off = 0 /\ StreamEnd \in Nat
      /\ pc = "wait" /\ bcap.active /\ bcap \in Captures
  <2>1. stream \in Seq(Msg) /\ Len(stream) + 1 \in 1 .. Len(stream) + 1
    BY StreamFacts DEF FramingInv, FramingTypes
  <2>2. StreamEnd \in Nat
    BY <2>1, StartNat, Zenon DEF StreamEnd
  <2> QED  BY <2>1, <2>2, Zenon DEF RecvBody, FramingInv, FramingTypes, Framed
<1>2. /\ rpos + bcap.remaining = Start[k] /\ bcap.msg \in DOMAIN stream
      /\ ~bcap.failed => bcap.got + bcap.remaining = stream[bcap.msg].body
  BY <1>1, Zenon DEF FramingInv, Framed, CaptureInv
<1> HIDE DEF k
<1>3. PICK n \in 1 .. Least(RBUF_CAP - rlen, StreamEnd - rpos), werr \in BOOLEAN :
        LET b == bodycap_feed(bcap, rlen + n, werr) IN
        /\ rpos' = rpos + n
        /\ rlen' = rlen + n - (bcap.remaining - b.remaining)
        /\ IF b.remaining > 0
           THEN bcap' = b /\ UNCHANGED <<pc, published>>
           ELSE bcap' = NoCap /\ pc' = "drain" /\ published' = published \cup Announced(b)
  BY Zenon DEF RecvBody
<1> DEFINE b == bodycap_feed(bcap, n, werr)
<1>4. n \in Nat /\ rlen + n = n
  BY <1>1, FramingAssumption DEF Least
<1>5. /\ b \in Captures /\ b.active = bcap.active /\ b.msg = bcap.msg
      /\ b.remaining = bcap.remaining - Taken(bcap, n)
      /\ ~b.failed => b.got + b.remaining = stream[bcap.msg].body
  <2> DEFINE K == stream[bcap.msg].body
  <2>1. /\ K \in Nat /\ n \in Nat /\ werr \in BOOLEAN /\ bcap \in Captures
        /\ ~bcap.failed => bcap.got + bcap.remaining = K
    BY <1>1, <1>2, <1>4, StreamFacts, Zenon
  <2> HIDE DEF K
  <2>2. /\ b \in Captures /\ b.active = bcap.active /\ b.msg = bcap.msg
        /\ b.remaining = bcap.remaining - Taken(bcap, n)
        /\ ~b.failed => b.got + b.remaining = K
    BY <2>1, FeedInv
  <2> QED  BY <2>2, Zenon DEF K
<1>6. bcap.remaining \in Nat /\ b.remaining \in Nat
  BY <1>1, <1>5, Zenon DEF Captures
<1>7. /\ rpos' = rpos + n /\ rlen' = n - (bcap.remaining - b.remaining)
      /\ \/ b.remaining > 0 /\ bcap' = b /\ UNCHANGED <<pc, published>>
         \/ ~(b.remaining > 0) /\ bcap' = NoCap /\ pc' = "drain" /\ published' = published \cup Announced(b)
  <2>1. b = bodycap_feed(bcap, rlen + n, werr)
    BY <1>4, Zenon
  <2> HIDE DEF b
  <2>2. /\ rpos' = rpos + n
        /\ rlen' = rlen + n - (bcap.remaining - b.remaining)
        /\ IF b.remaining > 0
           THEN bcap' = b /\ UNCHANGED <<pc, published>>
           ELSE bcap' = NoCap /\ pc' = "drain" /\ published' = published \cup Announced(b)
    BY <1>3, <2>1, Zenon
  <2>3. rlen' = n - (bcap.remaining - b.remaining)
    <3>1. rlen' = rlen + (n - (bcap.remaining - b.remaining))
      BY <2>2, Zenon
    <3>2. b.remaining \in Int /\ bcap.remaining \in Int
      BY <1>6
    <3> QED  BY <1>1, <1>4, <3>1, <3>2
  <2> QED  BY <2>2, <2>3, Zenon
<1> HIDE DEF b
<1>8. UNCHANGED <<stream, off, handled>> /\ Start' = Start
  BY StartStays, Zenon DEF RecvBody
<1>9. rpos' \in Nat /\ rlen' \in Nat
  <2>1. rpos \in Nat /\ rpos' = rpos + n /\ rlen' = n - (bcap.remaining - b.remaining)
        /\ b.remaining = bcap.remaining - Taken(bcap, n)
    BY <1>1, <1>7, <1>5, Zenon
  <2> QED  BY <1>4, <1>6, <2>1 DEF Taken, Least
<1>10. HandledInOrder'
  BY <1>8, Zenon DEF FramingInv, HandledInOrder
<1>11. CASE b.remaining > 0
  <2>1. bcap' = b /\ UNCHANGED <<pc, published>>
    BY <1>7, <1>11, Zenon
  <2>2. rlen' = 0 /\ rpos' + bcap'.remaining = rpos + bcap.remaining
    BY <1>1, <1>4, <1>7, <1>5, <1>6, <1>11, <2>1, SMTT(30) DEF Taken, Least
  <2>3. FramingTypes'
    BY <1>1, <1>5, <1>8, <1>9, <2>1 DEF FramingInv, FramingTypes
  <2>4. bcap'.active
    BY <1>1, <1>5, <2>1, Zenon
  <2>5. Framed'
    BY <1>1, <1>2, <1>8, <2>1, <2>2, <2>4, Zenon DEF Framed, k
  <2>6. CaptureInv' /\ PublishedWhole'
    BY <1>2, <1>5, <1>8, <2>1, Zenon DEF FramingInv, CaptureInv, PublishedWhole
  <2> QED  BY <1>10, <2>3, <2>5, <2>6, Zenon DEF FramingInv
<1>12. CASE ~(b.remaining > 0)
  <2>1. bcap' = NoCap /\ pc' = "drain" /\ published' = published \cup Announced(b)
    BY <1>7, <1>12, Zenon
  <2>2. Base' + off' = rpos + bcap.remaining
    BY <1>1, <1>4, <1>7, <1>8, <1>6, <1>12 DEF Base
  <2>3. bcap' \in Captures /\ ~bcap'.active
    BY <2>1, NoCapture, Zenon
  <2>4. FramingTypes'
    BY <1>1, <1>8, <1>9, <2>1, <2>3 DEF FramingInv, FramingTypes
  <2>5. Framed'
    BY <1>2, <1>8, <2>2, <2>3, Zenon DEF Framed, k
  <2>6. \A p \in Announced(b) : p.got = stream[p.msg].body
    BY <1>5, AnnouncedWhole, Zenon
  <2>7. CaptureInv' /\ PublishedWhole'
    BY <1>8, <2>1, <2>3, <2>6, Zenon DEF FramingInv, CaptureInv, PublishedWhole
  <2> QED  BY <1>10, <2>4, <2>5, <2>7, Zenon DEF FramingInv
<1> QED  BY <1>11, <1>12, Zenon

\* Moving the rest to the front of the buffer keeps its offset in the stream.
LEMMA DrainEndsInv ==
  ASSUME FramingInv, DrainEnds
  PROVE  FramingInv'
<1>1. /\ stream \in Seq(Msg) /\ rlen \in Nat /\ rpos \in Nat /\ off \in Nat /\ off <= rlen
      /\ pc = "drain" /\ ~bcap.active /\ Base + off = Start[Len(handled) + 1]
  BY Zenon DEF DrainEnds, FramingInv, FramingTypes, Framed
<1>2. /\ pc' = "wait" /\ rlen' = rlen - off /\ off' = 0
      /\ UNCHANGED <<stream, rpos, bcap, handled, published>> /\ Start' = Start
  BY StartStays, Zenon DEF DrainEnds, Unhandled
<1>3. Base' + off' = Base + off /\ rlen' \in Nat
  BY <1>1, <1>2 DEF Base
<1>4. FramingTypes'
  BY <1>1, <1>2, <1>3 DEF FramingInv, FramingTypes
<1>5. Framed'
  BY <1>1, <1>2, <1>3, Zenon DEF Framed
<1> QED
  BY <1>2, <1>4, <1>5, Zenon DEF FramingInv, CaptureInv, HandledInOrder, PublishedWhole

\* A new connection stands at the first request.
LEMMA FramingInitInv == Init => FramingInv
<1> SUFFICES ASSUME Init PROVE FramingInv
  OBVIOUS
<1>1. stream \in Seq(Msg) /\ Len(stream) \in Nat
  BY StreamTypes, StreamFacts, Zenon DEF Init
<1>2. /\ rpos = 0 /\ rlen = 0 /\ pc = "wait" /\ off = 0 /\ bcap = NoCap
      /\ handled = <<>> /\ published = {}
  BY Zenon DEF Init
<1>3. handled \in Seq(Nat) /\ Len(handled) = 0 /\ DOMAIN handled = {}
  BY <1>2
<1>4. Start[1] = 0
  BY <1>1, StartEquation
<1>5. FramingTypes
  BY <1>1, <1>2, <1>3, NoCapture DEF FramingTypes
<1>6. Framed
  BY <1>2, <1>3, <1>4, NoCapture DEF Framed, Base
<1>7. CaptureInv /\ HandledInOrder /\ PublishedWhole
  BY <1>2, <1>3, NoCapture, Zenon DEF CaptureInv, HandledInOrder, PublishedWhole
<1> QED  BY <1>5, <1>6, <1>7, Zenon DEF FramingInv

\* The inductive invariant of the framing holds in every reachable state of
\* a connection, for every buffer size and every stream.
THEOREM FramingInvariant == Spec => []FramingInv
<1>1. Init => FramingInv
  BY FramingInitInv, Zenon
<1>2. FramingInv /\ [Next]_vars => FramingInv'
  <2> SUFFICES ASSUME FramingInv, [Next]_vars PROVE FramingInv'
    OBVIOUS
  <2>1. ASSUME Drop, UNCHANGED <<stream, rpos, handled, published>> PROVE FramingInv'
    <3>1. /\ handled' \in Seq(Nat) /\ Len(handled') <= Len(stream) /\ HandledInOrder'
          /\ PublishedWhole'
      BY <2>1, Zenon DEF FramingInv, FramingTypes, HandledInOrder, PublishedWhole
    <3> QED  BY <2>1, <3>1, DropInv, Zenon
  <2>2. CASE RecvRequests
    BY <2>2, RecvRequestsInv, Zenon
  <2>3. CASE RecvBody
    BY <2>3, RecvBodyInv, Zenon
  <2>4. CASE FrameOversized
    BY <2>4, FrameOversizedInv, Zenon
  <2>5. CASE Unframeable
    BY <2>1, <2>5, Zenon DEF Unframeable
  <2>6. CASE DrainOne
    BY <2>6, DrainOneInv, Zenon
  <2>7. CASE DrainMalformed
    BY <2>1, <2>7, Zenon DEF DrainMalformed
  <2>8. CASE DrainEnds
    BY <2>8, DrainEndsInv, Zenon
  <2>9. CASE HangUp
    BY <2>1, <2>9, Zenon DEF HangUp
  <2>10. CASE UNCHANGED vars
    <3>1. UNCHANGED <<stream, rpos, rlen, pc, off, bcap, handled, published>> /\ Start' = Start
      BY <2>10, StartStays, Zenon DEF vars
    <3> QED
      BY <3>1, Zenon DEF FramingInv, FramingTypes, Framed, CaptureInv, HandledInOrder, PublishedWhole, Base
  <2> QED
    BY <2>2, <2>3, <2>4, <2>5, <2>6, <2>7, <2>8, <2>9, <2>10, Zenon DEF Next, Receive, Drain, Closed
<1> QED  BY <1>1, <1>2, PTL DEF Spec

\* drain and frame_oversized pass the requests to handle_msg one by one in the
\* order sent, none twice and none skipped, for every size of the read buffer
\* and of metabuf and every stream, however the network chops it up.
THEOREM RequestsInOrder == Spec => []HandledInOrder
<1>1. FramingInv => HandledInOrder
  BY Zenon DEF FramingInv
<1> QED  BY <1>1, FramingInvariant, PTL

\* What finish_body_capture and handle_msg announce to the now-playing state is
\* a whole body, for every size of the buffers and every stream.
THEOREM BodiesAreWhole == Spec => []PublishedWhole
<1>1. FramingInv => PublishedWhole
  BY Zenon DEF FramingInv
<1> QED  BY <1>1, FramingInvariant, PTL

-----------------------------------------------------------------------------
\* How a connection ends.

\* The number of the next request.
Upcoming == Len(handled) + 1

\* Between reads the buffer holds no complete request.
Incomplete ==
  pc = "wait" /\ Upcoming \in DOMAIN stream =>
    \/ rlen < stream[Upcoming].hdr
    \/ stream[Upcoming].kind # "bad" /\ rlen < Size(stream[Upcoming])

\* What the end of a connection rests on.
EndInv ==
  /\ Incomplete
  /\ pc = "closed" => DroppedForCause
  /\ bcap.active => bcap.remaining > 0
  /\ rpos <= StreamEnd

\* FramingInv with the types of what it speaks of.
LEMMA FramingFacts ==
  ASSUME FramingInv
  PROVE  /\ stream \in Seq(Msg) /\ Len(stream) \in Nat /\ DOMAIN stream = 1 .. Len(stream)
         /\ rpos \in Nat /\ rlen \in Nat /\ off \in Nat /\ off <= rlen /\ StreamEnd \in Nat
         /\ handled \in Seq(Nat) /\ Len(handled) \in Nat /\ Len(handled) <= Len(stream)
         /\ Upcoming \in 1 .. Len(stream) + 1 /\ Start[Upcoming] \in Nat
         /\ Upcoming \notin DOMAIN stream => Start[Upcoming] = StreamEnd
<1>1. /\ stream \in Seq(Msg) /\ Len(stream) \in Nat /\ DOMAIN stream = 1 .. Len(stream)
      /\ rpos \in Nat /\ rlen \in Nat /\ off \in Nat /\ off <= rlen
      /\ handled \in Seq(Nat) /\ Len(handled) \in Nat /\ Len(handled) <= Len(stream)
  BY StreamFacts, LenProperties, Zenon DEF FramingInv, FramingTypes
<1>2. Upcoming \in 1 .. Len(stream) + 1 /\ Len(stream) + 1 \in 1 .. Len(stream) + 1
  BY <1>1 DEF Upcoming
<1>3. Start[Upcoming] \in Nat /\ StreamEnd \in Nat
  BY <1>1, <1>2, StartNat, Zenon DEF StreamEnd
<1>4. Upcoming \notin DOMAIN stream => Upcoming = Len(stream) + 1
  BY <1>1, <1>2
<1> QED  BY <1>1, <1>2, <1>3, <1>4, Zenon DEF StreamEnd

\* A connection that is dropped for a cause has ended well.
LEMMA DropEnds ==
  ASSUME FramingInv, EndInv, Drop, UNCHANGED <<stream, rpos>>,
         \/ hangup'
         \/ handled' # <<>> /\ stream[handled'[Len(handled')]].kind = "bye"
         \/ /\ handled' = handled /\ Upcoming \in DOMAIN stream
            /\ stream[Upcoming].kind = "bad" \/ stream[Upcoming].hdr > RBUF_CAP
  PROVE  EndInv'
<1>1. pc' = "closed" /\ bcap' = NoCap /\ ~NoCap.active
  BY NoCapture, Zenon DEF Drop
<1>2. StreamEnd' = StreamEnd
  BY StartStays, Zenon DEF StreamEnd
<1>3. Len(handled) < Len(stream) <=> Upcoming \in DOMAIN stream
  BY FramingFacts DEF Upcoming
<1>4. DroppedForCause'
  BY <1>1, <1>3, Zenon DEF DroppedForCause, Upcoming
<1> QED  BY <1>1, <1>2, <1>4, Zenon DEF EndInv, Incomplete

LEMMA DrainOneEnds ==
  ASSUME FramingInv, EndInv, DrainOne
  PROVE  EndInv'
<1> DEFINE p == rtsp_msg_parse(Base + off, rlen - off)
<1>1. /\ pc = "drain" /\ p.r = 1 /\ handled' = Append(handled, p.msg)
      /\ UNCHANGED <<stream, rpos>> /\ ~bcap.active /\ Base + off = Start[Upcoming]
      /\ rlen - off \in Int
  BY FramingFacts DEF DrainOne, FramingInv, Framed, Upcoming
<1>2. p.msg = Upcoming
  BY <1>1, FramingFacts, ParseAt, Zenon
<1>3. CASE Drop
  <2>1. hangup' \/ stream[Upcoming].kind = "bye"
    <3>1. \/ stream[p.msg].kind = "bye"
          \/ hangup'
          \/ off' = off + Size(stream[p.msg]) /\ UNCHANGED pc
      BY Zenon DEF DrainOne
    <3> QED  BY <1>1, <1>2, <1>3, <3>1, Zenon DEF Drop
  <2>2. handled' # <<>> /\ handled'[Len(handled')] = Upcoming
    BY <1>1, <1>2, FramingFacts, AppendProperties, SMTT(30) DEF Upcoming
  <2> QED  BY <1>1, <1>3, <2>1, <2>2, DropEnds, Zenon
<1>4. CASE ~Drop
  <2>1. UNCHANGED <<pc, bcap>>
    BY <1>4, Zenon DEF DrainOne
  <2> QED  BY <1>1, <2>1, StartStays, Zenon DEF EndInv, Incomplete, StreamEnd
<1> QED  BY <1>3, <1>4, Zenon

LEMMA DrainMalformedEnds ==
  ASSUME FramingInv, EndInv, DrainMalformed
  PROVE  EndInv'
<1> DEFINE p == rtsp_msg_parse(Start[Upcoming], rlen - off)
<1>1. /\ p.r = -1 /\ Drop /\ UNCHANGED <<stream, rpos, handled>> /\ rlen - off \in Int
  <2>1. pc = "drain" /\ Base + off = Start[Upcoming] /\ rlen - off \in Int
    BY FramingFacts DEF DrainMalformed, FramingInv, Framed, Upcoming
  <2> QED  BY <2>1, Zenon DEF DrainMalformed
<1>2. IF Upcoming \in DOMAIN stream
      THEN p.r = IF rlen - off < stream[Upcoming].hdr THEN 0 ELSE IF stream[Upcoming].kind = "bad" THEN -1
                 ELSE IF rlen - off < Size(stream[Upcoming]) THEN 0 ELSE 1
      ELSE p.r = 0
  BY <1>1, FramingFacts, ParseResult, Zenon
<1>3. Upcoming \in DOMAIN stream /\ stream[Upcoming].kind = "bad"
  BY <1>1, <1>2
<1> QED  BY <1>1, <1>3, DropEnds, Zenon

LEMMA DrainEndsEnds ==
  ASSUME FramingInv, EndInv, DrainEnds
  PROVE  EndInv'
<1> DEFINE p == rtsp_msg_parse(Start[Upcoming], rlen - off)
<1>1. /\ pc = "drain" /\ Base + off = Start[Upcoming] /\ rlen - off \in Int
      /\ pc' = "wait" /\ rlen' = rlen - off /\ UNCHANGED <<stream, rpos, bcap, handled>>
      /\ off < rlen => p.r = 0
  <2>1. pc = "drain" /\ Base + off = Start[Upcoming] /\ rlen - off \in Int
    BY FramingFacts DEF DrainEnds, FramingInv, Framed, Upcoming
  <2> QED  BY <2>1, Zenon DEF DrainEnds, Unhandled
<1>2. StreamEnd' = StreamEnd /\ Upcoming' = Upcoming
  BY <1>1, StartStays, Zenon DEF StreamEnd, Upcoming
<1>3. ASSUME Upcoming \in DOMAIN stream
      PROVE  \/ rlen' < stream[Upcoming].hdr
             \/ stream[Upcoming].kind # "bad" /\ rlen' < Size(stream[Upcoming])
  <2> DEFINE m == stream[Upcoming]
  <2>1. m.hdr \in Nat /\ m.hdr >= 1 /\ Size(m) \in Nat
    BY <1>3, FramingFacts, StreamFacts, Zenon
  <2>2. p.r = IF rlen - off < m.hdr THEN 0 ELSE IF m.kind = "bad" THEN -1
              ELSE IF rlen - off < Size(m) THEN 0 ELSE 1
    BY <1>1, <1>3, FramingFacts, ParseResult, Zenon
  <2> HIDE DEF p, m
  <2>3. rlen' < m.hdr \/ (m.kind # "bad" /\ rlen' < Size(m))
    BY <1>1, <2>1, <2>2, FramingFacts, SMTT(30)
  <2> QED  BY <2>3, Zenon DEF m
<1> QED  BY <1>1, <1>2, <1>3, Zenon DEF EndInv, Incomplete

LEMMA FrameOversizedEnds ==
  ASSUME FramingInv, EndInv, FrameOversized
  PROVE  EndInv'
<1> DEFINE p == rtsp_msg_parse(Base, rlen)
<1>1. /\ pc = "wait" /\ off = 0 /\ ~bcap.active /\ p.r = 0 /\ p.hdrs /\ handled' = Append(handled, p.msg)
      /\ UNCHANGED <<stream, rpos>> /\ Base = Start[Upcoming] /\ rlen \in Int
  BY FramingFacts DEF FrameOversized, FramingInv, FramingTypes, Framed, Upcoming, Base
<1>2. p.msg = Upcoming /\ Upcoming \in DOMAIN stream /\ rlen < Size(stream[Upcoming])
  BY <1>1, FramingFacts, ParseAt, Zenon
<1>3. CASE Drop
  <2>1. hangup' \/ stream[Upcoming].kind = "bye"
    <3>1. \/ stream[p.msg].kind = "bye"
          \/ hangup'
          \/ UNCHANGED pc
      BY Zenon DEF FrameOversized
    <3> QED  BY <1>1, <1>2, <1>3, <3>1, Zenon DEF Drop
  <2>2. handled' # <<>> /\ handled'[Len(handled')] = Upcoming
    BY <1>1, <1>2, FramingFacts, AppendProperties, SMTT(30) DEF Upcoming
  <2> QED  BY <1>1, <1>3, <2>1, <2>2, DropEnds, Zenon
<1>4. CASE ~Drop
  <2>1. rlen' = 0 /\ UNCHANGED pc
    BY <1>4, Zenon DEF FrameOversized
  <2>2. FramingInv' /\ StreamEnd' = StreamEnd /\ Start' = Start
    BY <1>1, FrameOversizedInv, StartStays, Zenon DEF StreamEnd
  <2>3. Incomplete'
    <3>1. \A i \in DOMAIN stream' : stream'[i].hdr >= 1
      BY <1>1, FramingFacts, StreamFacts, Zenon
    <3>2. \A i \in DOMAIN stream' : stream'[i].hdr \in Nat
      BY <1>1, FramingFacts, StreamFacts, Zenon
    <3> QED  BY <2>1, <3>1, <3>2 DEF Incomplete
  <2>4. ASSUME bcap'.active PROVE bcap'.remaining > 0
    <3>1. rpos + bcap'.remaining = Start[Upcoming + 1] /\ bcap'.remaining \in Nat
      <4>1. Len(handled') = Upcoming
        BY <1>1, FramingFacts, AppendProperties DEF Upcoming
      <4>2. pc' # "closed" /\ rpos' + bcap'.remaining = Start'[Len(handled') + 1] /\ bcap' \in Captures
        BY <1>1, <2>1, <2>2, <2>4, Zenon DEF FramingInv, Framed, FramingTypes
      <4> QED  BY <1>1, <2>2, <4>1, <4>2, Zenon DEF Captures
    <3>2. Start[Upcoming + 1] = Start[Upcoming] + Size(stream[Upcoming]) /\ Size(stream[Upcoming]) \in Nat
      BY <1>2, FramingFacts, StartSteps, StreamFacts, Zenon
    <3> DEFINE z == Size(stream[Upcoming])
               s == Start[Upcoming]
               t == bcap'.remaining
    <3>3. rpos + t = s + z /\ rpos - rlen = s /\ rlen < z /\ z \in Nat /\ s \in Nat /\ t \in Nat /\ rpos \in Nat /\ rlen \in Nat
      BY <1>1, <1>2, <3>1, <3>2, FramingFacts, Zenon DEF Base
    <3> HIDE DEF z, s, t
    <3>4. t > 0
      BY <3>3
    <3> QED  BY <3>4, Zenon DEF t
  <2> QED  BY <1>1, <2>1, <2>2, <2>3, <2>4, Zenon DEF EndInv
<1> QED  BY <1>3, <1>4, Zenon

LEMMA UnframeableEnds ==
  ASSUME FramingInv, EndInv, Unframeable
  PROVE  EndInv'
<1> DEFINE p == rtsp_msg_parse(Start[Upcoming], rlen)
<1>1. /\ pc = "wait" /\ rlen = RBUF_CAP /\ (p.r # 0 \/ ~p.hdrs)
      /\ Drop /\ UNCHANGED <<stream, rpos, handled>> /\ Base = Start[Upcoming]
  <2>1. pc = "wait" /\ off = 0 /\ ~bcap.active /\ Base = Start[Upcoming]
    BY FramingFacts DEF Unframeable, FramingInv, FramingTypes, Framed, Upcoming, Base
  <2> QED  BY <2>1, Zenon DEF Unframeable
<1>2. Upcoming \in DOMAIN stream
  <2> SUFFICES ASSUME Upcoming \notin DOMAIN stream PROVE FALSE
    OBVIOUS
  <2>1. rpos - rlen = StreamEnd /\ rpos <= StreamEnd /\ rlen > 0
    BY <1>1, FramingFacts, FramingAssumption DEF Base, EndInv
  <2> QED  BY <2>1, FramingFacts
<1> DEFINE m == stream[Upcoming]
<1>3. /\ p.r = IF rlen < m.hdr THEN 0 ELSE IF m.kind = "bad" THEN -1
               ELSE IF rlen < Size(m) THEN 0 ELSE 1
      /\ p.hdrs <=> rlen >= m.hdr
  <2>1. rlen \in Int
    BY FramingFacts
  <2> QED  BY <1>2, <2>1, FramingFacts, ParseResult, Zenon
<1>4. rlen < m.hdr \/ (m.kind # "bad" /\ rlen < Size(m))
  BY <1>1, <1>2, Zenon DEF EndInv, Incomplete
<1>5. m.hdr \in Nat /\ Size(m) \in Nat
  BY <1>2, FramingFacts, StreamFacts, Zenon
<1> HIDE DEF p
<1>6. m.hdr > RBUF_CAP
  <2> HIDE DEF m
  <2> QED  BY <1>1, <1>3, <1>4, <1>5, FramingFacts, SMTT(30)
<1> QED  BY <1>1, <1>2, <1>6, DropEnds, Zenon

LEMMA RecvRequestsEnds ==
  ASSUME FramingInv, EndInv, RecvRequests
  PROVE  EndInv'
<1>1. PICK n \in 1 .. Least(RBUF_CAP - rlen, StreamEnd - rpos) : rpos' = rpos + n
  BY Zenon DEF RecvRequests
<1>2. rpos' <= StreamEnd
  BY <1>1, FramingFacts, FramingAssumption, SMTT(30) DEF Least
<1>3. pc' = "drain" /\ UNCHANGED <<stream, bcap>> /\ StreamEnd' = StreamEnd
  BY StartStays, Zenon DEF RecvRequests, StreamEnd
<1> QED  BY <1>2, <1>3, Zenon DEF EndInv, Incomplete

LEMMA RecvBodyEnds ==
  ASSUME FramingInv, EndInv, RecvBody
  PROVE  EndInv'
<1>1. rlen = 0 /\ pc = "wait" /\ bcap \in Captures /\ bcap.active
  BY FramingFacts, Zenon DEF RecvBody, FramingInv, FramingTypes, Framed
<1>2. PICK n \in 1 .. Least(RBUF_CAP - rlen, StreamEnd - rpos), werr \in BOOLEAN :
        LET b == bodycap_feed(bcap, rlen + n, werr) IN
        /\ rpos' = rpos + n
        /\ IF b.remaining > 0
           THEN bcap' = b /\ UNCHANGED <<pc, published>>
           ELSE bcap' = NoCap /\ pc' = "drain" /\ published' = published \cup Announced(b)
  BY Zenon DEF RecvBody
<1>3. rpos' <= StreamEnd
  BY <1>2, FramingFacts, FramingAssumption, SMTT(30) DEF Least
<1>4. UNCHANGED <<stream, handled>> /\ StreamEnd' = StreamEnd /\ FramingInv'
  BY StartStays, RecvBodyInv, Zenon DEF RecvBody, StreamEnd
<1> DEFINE b == bodycap_feed(bcap, rlen + n, werr)
<1>5. CASE b.remaining > 0
  <2>1. bcap' = b /\ pc' = pc
    BY <1>2, <1>5, Zenon
  <2>2. b.active = bcap.active
    <3> DEFINE K == bcap.got + bcap.remaining
               x == rlen + n
               c == bodycap_feed(bcap, x, werr)
    <3>1. K \in Nat /\ x \in Nat /\ werr \in BOOLEAN /\ bcap \in Captures /\ bcap.got + bcap.remaining = K
      BY <1>1, FramingFacts, FramingAssumption, SMTT(30) DEF Captures, Least
    <3> HIDE DEF K, x
    <3>2. c \in Captures /\ c.active = bcap.active /\ c.msg = bcap.msg
      BY <3>1, FeedInv
    <3> QED  BY <3>2, Zenon DEF x
  <2> HIDE DEF b
  <2>3. bcap'.active
    BY <1>1, <2>1, <2>2, Zenon
  <2>4. rlen' = 0
    BY <1>1, <1>4, <2>1, <2>3, Zenon DEF FramingInv, Framed
  <2>5. Incomplete'
    <3>1. \A i \in DOMAIN stream' : stream'[i].hdr \in Nat /\ stream'[i].hdr >= 1
      BY <1>4, FramingFacts, StreamFacts, Zenon
    <3> QED  BY <2>4, <3>1 DEF Incomplete
  <2> QED  BY <1>1, <1>3, <1>4, <1>5, <2>1, <2>5, Zenon DEF EndInv
<1>6. CASE ~(b.remaining > 0)
  <2>1. bcap' = NoCap /\ pc' = "drain"
    BY <1>2, <1>6, Zenon
  <2> QED  BY <1>3, <1>4, <2>1, NoCapture, Zenon DEF EndInv, Incomplete
<1> QED  BY <1>5, <1>6, Zenon

LEMMA HangUpEnds ==
  ASSUME FramingInv, EndInv, HangUp
  PROVE  EndInv'
<1>1. pc = "wait" /\ (rlen < RBUF_CAP \/ bcap.active) /\ Drop /\ UNCHANGED <<stream, rpos, handled>>
      /\ hangup' = (RBUF_CAP > rlen)
  BY Zenon DEF HangUp
<1>2. RBUF_CAP > rlen
  BY <1>1, FramingAssumption, FramingFacts DEF FramingInv, Framed
<1>3. hangup'
  BY <1>1, <1>2, Zenon
<1> QED  BY <1>1, <1>3, DropEnds, Zenon

\* EndInv holds in every reachable state.
LEMMA EndInvariant == Spec => []EndInv
<1>1. Init => EndInv
  <2> SUFFICES ASSUME Init PROVE EndInv
    OBVIOUS
  <2>1. FramingInv /\ rpos = 0 /\ rlen = 0 /\ pc = "wait" /\ ~bcap.active
    BY FramingInitInv, NoCapture, Zenon DEF Init
  <2>2. \A i \in DOMAIN stream : stream[i].hdr \in Nat /\ stream[i].hdr >= 1
    BY <2>1, FramingFacts, StreamFacts, Zenon
  <2> QED  BY <2>1, <2>2, FramingFacts DEF EndInv, Incomplete
<1>2. FramingInv /\ EndInv /\ [Next]_vars => EndInv'
  <2> SUFFICES ASSUME FramingInv, EndInv, [Next]_vars PROVE EndInv'
    OBVIOUS
  <2>1. CASE UNCHANGED vars
    <3>1. UNCHANGED <<stream, rpos, rlen, pc, bcap, handled, hangup>> /\ StreamEnd' = StreamEnd
      BY <2>1, StartStays, Zenon DEF vars, StreamEnd
    <3> QED  BY <3>1, Zenon DEF EndInv, Incomplete, DroppedForCause, Upcoming
  <2> QED
    BY <2>1, DrainOneEnds, DrainMalformedEnds, DrainEndsEnds, FrameOversizedEnds, UnframeableEnds,
       RecvRequestsEnds, RecvBodyEnds, HangUpEnds, Zenon DEF Next, Receive, Drain, Closed
<1> QED  BY <1>1, <1>2, FramingInvariant, PTL DEF Spec

\* What is buffered of a message is all of it when the stream ends behind it.
LEMMA FitsNoMore ==
  ASSUME NEW end \in Nat, NEW read \in Nat, NEW buffered \in Nat, NEW from \in Nat,
         NEW to \in Nat, NEW hdr \in Nat, NEW body \in Nat, NEW size,
         size = hdr + body, read = end, read - buffered = from, to = from + size,
         to <= end, buffered < hdr \/ buffered < size
  PROVE  FALSE
  OBVIOUS

\* Neither the peer's chopping nor a body of any size makes raopd drop a client
\* without a cause or sit on a request it has received.
THEOREM NothingIsWithheld == Spec => []NothingWithheld
<1>1. FramingInv /\ EndInv => NothingWithheld
  <2> SUFFICES ASSUME FramingInv, EndInv, pc = "wait", rpos = StreamEnd
               PROVE  Len(handled) = Len(stream) /\ ~bcap.active
    BY Zenon DEF EndInv, NothingWithheld
  <2>1. \A i \in 1 .. Len(stream) + 1 : Start[i] <= StreamEnd /\ Start[i] \in Nat
    <3> SUFFICES ASSUME NEW i \in 1 .. Len(stream) + 1 PROVE Start[i] <= StreamEnd /\ Start[i] \in Nat
      OBVIOUS
    <3>1. Start[i] \in Nat /\ StreamEnd \in Nat /\ Len(stream) \in Nat /\ stream \in Seq(Msg)
      BY FramingFacts, StartNat, Zenon
    <3>2. CASE i = Len(stream) + 1
      BY <3>1, <3>2 DEF StreamEnd
    <3>3. CASE i < Len(stream) + 1
      <4>1. Len(stream) + 1 \in 1 .. Len(stream) + 1
        BY <3>1
      <4> QED  BY <3>1, <3>3, <4>1, StartIncreasing DEF StreamEnd
    <3> QED  BY <3>1, <3>2, <3>3
  <2>2. ~bcap.active
    <3> SUFFICES ASSUME bcap.active PROVE FALSE
      OBVIOUS
    <3>1. rpos + bcap.remaining = Start[Upcoming] /\ bcap.remaining > 0 /\ bcap.remaining \in Nat
      BY Zenon DEF FramingInv, FramingTypes, Framed, EndInv, Captures, Upcoming
    <3> QED  BY <2>1, <3>1, FramingFacts
  <2>3. Upcoming \notin DOMAIN stream
    <3> SUFFICES ASSUME Upcoming \in DOMAIN stream PROVE FALSE
      OBVIOUS
    <3>1. rpos - rlen = Start[Upcoming]
      BY <2>2, FramingFacts DEF FramingInv, FramingTypes, Framed, Base, Upcoming
    <3> DEFINE m == stream[Upcoming]
    <3>2. m.hdr \in Nat /\ m.body \in Nat /\ Size(m) = m.hdr + m.body
      BY FramingFacts, StreamFacts, Zenon
    <3>3. Start[Upcoming + 1] = Start[Upcoming] + Size(m) /\ Upcoming + 1 \in 1 .. Len(stream) + 1
      BY FramingFacts, StartSteps
    <3>4. rlen < m.hdr \/ rlen < Size(m)
      BY Zenon DEF EndInv, Incomplete
    <3>5. Start[Upcoming + 1] <= StreamEnd /\ Start[Upcoming + 1] \in Nat
      BY <2>1, <3>3, Zenon
    <3> HIDE DEF m
    <3>6. rpos = StreamEnd /\ rpos \in Nat /\ rlen \in Nat /\ Start[Upcoming] \in Nat
      BY FramingFacts, Zenon
    <3> QED  BY <3>1, <3>2, <3>3, <3>4, <3>5, <3>6, FitsNoMore, Zenon
  <2> QED  BY <2>2, <2>3, FramingFacts DEF Upcoming
<1> QED  BY <1>1, FramingInvariant, EndInvariant, PTL

\* How much is left to do: bytes to read, requests to handle, and the rest of a
\* drain.
Rank == IF pc = "closed" THEN 0 ELSE IF pc = "wait" THEN 1 ELSE 2
Effort == 2 * (StreamEnd - rpos) + ((Len(stream) - Len(handled)) + Rank)

\* Reading a byte is worth a drain.
LEMMA Ebb ==
  ASSUME NEW end \in Nat, NEW all \in Nat, NEW read \in Nat, NEW read2 \in Nat,
         NEW done \in Nat, NEW done2 \in Nat, NEW rank \in 0 .. 2, NEW rank2 \in 0 .. 2,
         read2 <= end, done2 <= all,
         \/ read2 >= read + 1 /\ rank = 1 /\ done2 = done
         \/ read2 = read /\ done2 = done + 1 /\ rank2 <= rank
         \/ read2 = read /\ done2 = done /\ rank2 < rank
  PROVE  /\ 2 * (end - read2) + ((all - done2) + rank2) \in Nat
         /\ 2 * (end - read2) + ((all - done2) + rank2) < 2 * (end - read) + ((all - done) + rank)
  OBVIOUS

LEMMA EffortFalls ==
  ASSUME FramingInv, FramingInv', EndInv, EndInv', stream' = stream,
         \/ rpos' >= rpos + 1 /\ pc = "wait" /\ Len(handled') = Len(handled)
         \/ rpos' = rpos /\ Len(handled') = Len(handled) + 1 /\ Rank' <= Rank
         \/ rpos' = rpos /\ Len(handled') = Len(handled) /\ Rank' < Rank
  PROVE  Effort' \in Nat /\ Effort' < Effort
<1>1. /\ rpos \in Nat /\ StreamEnd \in Nat /\ Len(stream) \in Nat /\ Len(handled) \in Nat
  BY FramingFacts, Zenon
<1>2. rpos' \in Nat /\ Len(handled') \in Nat /\ Len(handled') <= Len(stream')
  BY LenProperties, Zenon DEF FramingInv, FramingTypes
<1>3. StreamEnd' = StreamEnd /\ Len(stream') = Len(stream)
  BY StartStays, Zenon DEF StreamEnd
<1>4. rpos' <= StreamEnd /\ Len(handled') <= Len(stream)
  BY <1>2, <1>3, Zenon DEF EndInv
<1>5. Rank \in 0 .. 2 /\ Rank' \in 0 .. 2 /\ (pc = "wait" => Rank = 1)
  BY DEF Rank
<1>6. \/ rpos' >= rpos + 1 /\ Rank = 1 /\ Len(handled') = Len(handled)
      \/ rpos' = rpos /\ Len(handled') = Len(handled) + 1 /\ Rank' <= Rank
      \/ rpos' = rpos /\ Len(handled') = Len(handled) /\ Rank' < Rank
  BY <1>5, Zenon
<1>7. /\ Effort = 2 * (StreamEnd - rpos) + ((Len(stream) - Len(handled)) + Rank)
      /\ Effort' = 2 * (StreamEnd - rpos') + ((Len(stream) - Len(handled')) + Rank')
  BY <1>3, Zenon DEF Effort
<1> QED  BY <1>1, <1>2, <1>4, <1>5, <1>6, <1>7, Ebb, Zenon

\* A connection takes at most as many steps as its stream has bytes and requests
\* to account for, twice over: nothing in on_client_readable, drain or
\* frame_oversized goes round without reading, handling or ending.
THEOREM FramingTerminates == Spec => [][Effort' \in Nat /\ Effort' < Effort]_vars
<1>1. /\ FramingInv /\ FramingInv' /\ EndInv /\ EndInv' /\ [Next]_vars
      => [Effort' \in Nat /\ Effort' < Effort]_vars
  <2> SUFFICES ASSUME FramingInv, FramingInv', EndInv, EndInv', Next, vars' # vars
               PROVE  Effort' \in Nat /\ Effort' < Effort
    OBVIOUS
  <2>1. CASE DrainOne \/ FrameOversized
    <3>1. \E x : handled' = Append(handled, x)
      BY <2>1, Zenon DEF DrainOne, FrameOversized
    <3>2. Len(handled') = Len(handled) + 1
      BY <3>1, FramingFacts
    <3>3. rpos' = rpos /\ stream' = stream
      BY <2>1, Zenon DEF DrainOne, FrameOversized
    <3>4. pc' \in {pc, "closed"}
      BY <2>1, Zenon DEF DrainOne, FrameOversized, Drop
    <3>5. Rank' <= Rank
      BY <3>4 DEF Rank
    <3> QED  BY <3>2, <3>3, <3>5, EffortFalls, Zenon
  <2>2. CASE DrainMalformed \/ DrainEnds \/ Unframeable \/ HangUp
    <3>1. rpos' = rpos /\ stream' = stream /\ handled' = handled
      BY <2>2, Zenon DEF DrainMalformed, DrainEnds, Unframeable, HangUp
    <3>2. (pc = "drain" /\ pc' \in {"wait", "closed"}) \/ (pc = "wait" /\ pc' = "closed")
      <4>1. CASE DrainMalformed
        BY <4>1, Zenon DEF DrainMalformed, Drop
      <4>2. CASE DrainEnds
        BY <4>2, Zenon DEF DrainEnds
      <4>3. CASE Unframeable
        BY <4>3, Zenon DEF Unframeable, Drop
      <4>4. CASE HangUp
        BY <4>4, Zenon DEF HangUp, Drop
      <4> QED  BY <2>2, <4>1, <4>2, <4>3, <4>4, Zenon
    <3>3. Rank' < Rank
      BY <3>2 DEF Rank
    <3> QED  BY <3>1, <3>3, EffortFalls, Zenon
  <2>3. CASE RecvRequests \/ RecvBody
    <3>1. stream' = stream /\ handled' = handled /\ pc = "wait"
      BY <2>3, Zenon DEF RecvRequests, RecvBody
    <3>2. \E n \in 1 .. Least(RBUF_CAP - rlen, StreamEnd - rpos) : rpos' = rpos + n
      BY <2>3, Zenon DEF RecvRequests, RecvBody
    <3>3. rpos' >= rpos + 1
      BY <3>2, FramingFacts, FramingAssumption DEF Least
    <3> QED  BY <3>1, <3>3, EffortFalls, Zenon
  <2> QED  BY <2>1, <2>2, <2>3, Zenon DEF Next, Receive, Drain, Closed
<1> QED  BY <1>1, FramingInvariant, EndInvariant, PTL DEF Spec
=============================================================================

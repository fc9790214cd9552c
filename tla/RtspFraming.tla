---------------------------- MODULE RtspFraming -----------------------------
(***************************************************************************)
(* How raopd cuts a client's byte stream into requests (main.c, with       *)
(* rtsp_msg.c and bodycap.c).  The read buffer holds RBUF_CAP bytes; a     *)
(* request whose body does not fit is answered from its headers while the  *)
(* body is streamed to a file, to memory or away.  A byte is its offset in *)
(* the stream, so the buffer is the interval before rpos.  What requests   *)
(* do is module RtspServer's subject.                                      *)
(***************************************************************************)
EXTENDS Integers, Sequences, FiniteSets

CONSTANTS
  RBUF_CAP,   \* size of the read buffer
  MEM_CAP,    \* size of metabuf
  MAX_HDR, MAX_BODY, MAX_MSGS   \* bounds on the stream a sender may send

ASSUME FramingAssumption ==
  /\ RBUF_CAP \in Nat \ {0} /\ MEM_CAP \in Nat
  /\ MAX_HDR \in Nat \ {0} /\ MAX_BODY \in Nat /\ MAX_MSGS \in Nat \ {0}

\* A request by its sizes and by what its headers make of it: art goes to
\* np-art.jpg, meta to metabuf, bye is a TEARDOWN, bad cannot be parsed.
Msg == [hdr : 1..MAX_HDR, body : 0..MAX_BODY, kind : {"art", "meta", "other", "bye", "bad"}]

VARIABLES
  stream,    \* the requests the client sends
  rpos,      \* offset of the next byte to receive
  rlen,      \* bytes in rbuf
  pc,        \* wait, drain, closed
  off,       \* drain's offset in rbuf
  bcap,      \* bodycap_t
  handled,   \* requests passed to handle_msg, in order
  published, \* bodies announced to the now-playing state: request and bytes kept
  hangup     \* the peer closed the connection, or a reply could not be written

vars == <<stream, rpos, rlen, pc, off, bcap, handled, published, hangup>>

NoCap == [active |-> FALSE, msg |-> 0, mode |-> "DISCARD", remaining |-> 0,
          got |-> 0, failed |-> FALSE]

Init ==
  /\ stream \in UNION {[1..n -> Msg] : n \in 1..MAX_MSGS}
  /\ rpos = 0 /\ rlen = 0 /\ pc = "wait" /\ off = 0
  /\ bcap = NoCap /\ handled = <<>> /\ published = {} /\ hangup = FALSE

Size(m) == m.hdr + m.body
Least(a, b) == IF a < b THEN a ELSE b

\* Offset at which request i starts.
Start ==
  LET S[i \in 1..(Len(stream) + 1)] ==
        IF i = 1 THEN 0 ELSE S[i - 1] + Size(stream[i - 1])
  IN  S

StreamEnd == Start[Len(stream) + 1]
Base == rpos - rlen

\* rtsp_msg_parse on len bytes from offset at: r is its return value; a request
\* with an incomplete body still reports its headers and the body's length.
\* Bytes that do not start at a request cannot be parsed.
rtsp_msg_parse(at, len) ==
  IF \E i \in DOMAIN stream : Start[i] = at
  THEN LET i == CHOOSE j \in DOMAIN stream : Start[j] = at
           m == stream[i]
       IN  [msg |-> i,
            r |-> IF len < m.hdr THEN 0 ELSE IF m.kind = "bad" THEN -1
                  ELSE IF len < Size(m) THEN 0 ELSE 1,
            hdrs |-> len >= m.hdr]
  ELSE [msg |-> 0, r |-> IF at = StreamEnd THEN 0 ELSE -1, hdrs |-> FALSE]

-----------------------------------------------------------------------------
body_mode(m) == CASE m.kind = "art" -> "FILE" [] m.kind = "meta" -> "MEM" [] OTHER -> "DISCARD"

\* bodycap_feed: metabuf takes what fits, and a write to the file may fail; the
\* remaining count advances all the same, to keep the stream framed.

\* Faulty variant: a failed capture stops consuming the body.
TakenUnlessFailed(b, n) == IF b.failed THEN 0 ELSE Least(b.remaining, n)

Taken(b, n) == Least(b.remaining, n)

OverCap(b, take) == b.mode = "MEM" /\ b.got + take > MEM_CAP
WriteFails(b, take, werr) == b.mode = "FILE" /\ take > 0 /\ werr

\* Faulty variant: an over-long body is cut without being marked as failed.
FailsOnWrite(b, take, werr) == b.failed \/ WriteFails(b, take, werr)

Fails(b, take, werr) == b.failed \/ OverCap(b, take) \/ WriteFails(b, take, werr)

bodycap_feed(b, n, werr) ==
  LET take == Taken(b, n) IN
  [b EXCEPT !.remaining = @ - take, !.failed = Fails(b, take, werr),
            !.got = IF b.failed \/ WriteFails(b, take, werr) THEN @
                    ELSE IF OverCap(b, take) THEN MEM_CAP ELSE @ + take]

\* bodycap_begin: opening the temporary file may fail.
bodycap_begin(i, oerr) ==
  [active |-> TRUE, msg |-> i, mode |-> body_mode(stream[i]),
   remaining |-> stream[i].body, got |-> 0,
   failed |-> body_mode(stream[i]) = "FILE" /\ oerr]

\* finish_body_capture: what is complete is renamed or parsed, and announced.
Announced(b) ==
  IF b.remaining = 0 /\ ~b.failed /\ b.mode # "DISCARD" THEN {[msg |-> b.msg, got |-> b.got]} ELSE {}

\* teardown_client: an unfinished capture is dropped with its temporary file.
Drop ==
  /\ pc' = "closed" /\ rlen' = 0 /\ off' = 0 /\ bcap' = NoCap

-----------------------------------------------------------------------------
\* handle_msg: a buffered art or metadata body is captured in one go, unless a
\* streaming capture is active; the reply may fail to go out.
CapturedWhole(i, oerr, werr) ==
  IF stream[i].body > 0 /\ body_mode(stream[i]) # "DISCARD"
  THEN Announced(bodycap_feed(bodycap_begin(i, oerr), stream[i].body, werr)) ELSE {}

\* drain, one request per step.
DrainOne ==
  LET p == rtsp_msg_parse(Base + off, rlen - off) IN
  /\ pc = "drain" /\ off < rlen /\ p.r = 1
  /\ handled' = Append(handled, p.msg)
  /\ \E oerr, werr \in BOOLEAN : published' = published \cup CapturedWhole(p.msg, oerr, werr)
  /\ \/ /\ stream[p.msg].kind = "bye" /\ Drop /\ UNCHANGED hangup
     \/ hangup' = TRUE /\ Drop
     \/ /\ stream[p.msg].kind # "bye"
        /\ off' = off + Size(stream[p.msg])
        /\ UNCHANGED <<rlen, pc, bcap, hangup>>
  /\ UNCHANGED <<stream, rpos>>

DrainMalformed ==
  /\ pc = "drain" /\ off < rlen /\ rtsp_msg_parse(Base + off, rlen - off).r = -1
  /\ Drop /\ UNCHANGED <<stream, rpos, handled, published, hangup>>

\* The rest, an incomplete request, moves to the front of the buffer.

\* Faulty variant: the handled requests stay in the buffer.
AllStays == rlen

Unhandled == rlen - off

DrainEnds ==
  /\ pc = "drain"
  /\ off < rlen => rtsp_msg_parse(Base + off, rlen - off).r = 0
  /\ pc' = "wait" /\ rlen' = Unhandled /\ off' = 0
  /\ UNCHANGED <<stream, rpos, bcap, handled, published, hangup>>

\* frame_oversized: the buffer is full and holds no complete request.
FrameOversized ==
  LET p == rtsp_msg_parse(Base, rlen) IN
  /\ pc = "wait" /\ rlen = RBUF_CAP /\ ~bcap.active
  /\ p.r = 0 /\ p.hdrs
  /\ handled' = Append(handled, p.msg)
  /\ \/ /\ stream[p.msg].kind = "bye" /\ Drop /\ UNCHANGED hangup
     \/ hangup' = TRUE /\ Drop
     \/ /\ stream[p.msg].kind # "bye"
        /\ \E oerr, werr \in BOOLEAN :
             bcap' = bodycap_feed(bodycap_begin(p.msg, oerr), rlen - stream[p.msg].hdr, werr)
        /\ rlen' = 0 /\ UNCHANGED <<pc, off, hangup>>
  /\ UNCHANGED <<stream, rpos, published>>

Unframeable ==
  LET p == rtsp_msg_parse(Base, rlen) IN
  /\ pc = "wait" /\ rlen = RBUF_CAP /\ ~bcap.active
  /\ p.r # 0 \/ ~p.hdrs
  /\ Drop /\ UNCHANGED <<stream, rpos, handled, published, hangup>>

\* on_client_readable without a capture: n bytes arrive and drain runs.
RecvRequests ==
  /\ pc = "wait" /\ ~bcap.active /\ rlen < RBUF_CAP
  /\ \E n \in 1..Least(RBUF_CAP - rlen, StreamEnd - rpos) :
       rpos' = rpos + n /\ rlen' = rlen + n
  /\ pc' = "drain"
  /\ UNCHANGED <<stream, off, bcap, handled, published, hangup>>

\* on_client_readable during a capture: the body takes what it needs, and the
\* bytes behind it are drained once it is complete.
RecvBody ==
  /\ pc = "wait" /\ bcap.active
  /\ \E n \in 1..Least(RBUF_CAP - rlen, StreamEnd - rpos), werr \in BOOLEAN :
       LET b == bodycap_feed(bcap, rlen + n, werr) IN
       /\ rpos' = rpos + n
       /\ rlen' = rlen + n - (bcap.remaining - b.remaining)
       /\ IF b.remaining > 0
          THEN bcap' = b /\ UNCHANGED <<pc, published>>
          ELSE bcap' = NoCap /\ pc' = "drain" /\ published' = published \cup Announced(b)
  /\ UNCHANGED <<stream, off, handled, hangup>>

\* The peer closes the connection, or recv fails; recv into a full buffer
\* would return 0 and look the same.
HangUp ==
  /\ pc = "wait" /\ (rlen < RBUF_CAP \/ bcap.active)
  /\ hangup' = (RBUF_CAP > rlen)
  /\ Drop /\ UNCHANGED <<stream, rpos, handled, published>>

Closed == pc = "closed" /\ UNCHANGED vars

Receive == RecvRequests \/ RecvBody \/ FrameOversized \/ Unframeable
Drain == DrainOne \/ DrainMalformed \/ DrainEnds
Next == Receive \/ Drain \/ HangUp \/ Closed
Spec == Init /\ [][Next]_vars

-----------------------------------------------------------------------------
\* However the stream is chopped up by the network, the requests are handled
\* one by one in the order they were sent, none twice and none skipped.
HandledInOrder == \A k \in DOMAIN handled : handled[k] = k

\* Only whole bodies reach the now-playing state: a cut, over-long or failed
\* capture is never announced.
PublishedWhole == \A p \in published : p.got = stream[p.msg].body

\* The connection ended for a cause: the peer left or could not be answered, it
\* said goodbye, or the next request is malformed or has too long a header.
DroppedForCause ==
  /\ pc = "closed"
  /\ \/ hangup
     \/ handled # <<>> /\ stream[handled[Len(handled)]].kind = "bye"
     \/ /\ Len(handled) < Len(stream)
        /\ LET m == stream[Len(handled) + 1] IN m.kind = "bad" \/ m.hdr > RBUF_CAP

\* A connection is never dropped without a cause, and when the last byte has been
\* read every request has been handled and every body consumed.
NothingWithheld ==
  /\ pc = "closed" => DroppedForCause
  /\ pc = "wait" /\ rpos = StreamEnd => Len(handled) = Len(stream) /\ ~bcap.active

\* Every request sent is handled and every body consumed, unless the connection
\* ends for a cause: no body size wedges the framing or loses a client.
AllHandled == <>(DroppedForCause \/ (Len(handled) = Len(stream) /\ ~bcap.active))
=============================================================================

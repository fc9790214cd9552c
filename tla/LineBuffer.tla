----------------------------- MODULE LineBuffer -----------------------------
(***************************************************************************)
(* The control channel of the supervisor as it is read (supervisor.c): the *)
(* bytes of a TCP stream come in reads of any size up to READ, and the     *)
(* line buffer makes one event of every line that fits.                    *)
(***************************************************************************)
EXTENDS Integers, Sequences, FiniteSets

CONSTANTS
  LB_MAX,          \* SUP_LB_MAX - 1: longest control line
  READ             \* bytes the supervisor reads at a time, and the size of evs

ASSUME LineBufferAssumption == LB_MAX \in Nat /\ READ \in Nat \ {0}

VARIABLES
  input,  \* the stream so far
  lb,     \* sup_lb_t
  evs     \* events sup_lb_push has returned

lineVars == <<input, lb, evs>>

\* A line of the single byte TOKEN stands for PING.
NL == 0
CR == 1
TOKEN == 2
Bytes == {NL, CR, TOKEN}

Chomp(line) ==
  LET ends == {n \in 0 .. Len(line) : n = 0 \/ line[n] \notin {CR, NL}}
  IN  SubSeq(line, 1, CHOOSE n \in ends : \A k \in ends : k <= n)

sup_classify_line(line) == IF Chomp(line) = <<TOKEN>> THEN "HEARTBEAT" ELSE "NONE"

Buffer(line) == [line |-> line, discarding |-> FALSE]

sup_lb_init == Buffer(<<>>)

Overlong == [line |-> <<>>, discarding |-> TRUE]

\* One byte of sup_lb_push; r holds the buffer and the events of this call.
PushByte(r, c) ==
  IF r.lb.discarding THEN [r EXCEPT !.lb = IF c = NL THEN sup_lb_init ELSE @]
  ELSE IF c = NL THEN [lb |-> sup_lb_init,
                       evs |-> IF Len(r.evs) < READ THEN Append(r.evs, sup_classify_line(r.lb.line))
                               ELSE r.evs]
  ELSE IF Len(r.lb.line) < LB_MAX THEN [r EXCEPT !.lb = Buffer(Append(@.line, c))]
  ELSE [r EXCEPT !.lb = Overlong]

sup_lb_push(b, data) ==
  LET r[i \in 0 .. Len(data)] ==
        IF i = 0 THEN [lb |-> b, evs |-> <<>>] ELSE PushByte(r[i - 1], data[i])
  IN  r[Len(data)]

LinesInit == input = <<>> /\ lb = sup_lb_init /\ evs = <<>>

\* The supervisor's session loop reads what has come.
ReadChunk(chunk) ==
  /\ LET r == sup_lb_push(lb, chunk) IN lb' = r.lb /\ evs' = evs \o r.evs
  /\ input' = input \o chunk

Chunks == UNION {[1 .. n -> Bytes] : n \in 1 .. READ}

LinesSpec == LinesInit /\ [][\E chunk \in Chunks : ReadChunk(chunk)]_lineVars

-----------------------------------------------------------------------------
\* Reference: the stream is cut at the newlines; a line that fits is an event.
\* The bytes p .. i - 1 of s are a line, and i is its newline.
IsLine(s, p, i) == s[i] = NL /\ (p = 1 \/ s[p - 1] = NL) /\ \A j \in p .. i - 1 : s[j] # NL

\* Where the lines that fit end.
Fitting(s) == {i \in 1 .. Len(s) : \E p \in 1 .. i : IsLine(s, p, i) /\ i - p <= LB_MAX}

EventsOf(s, es) ==
  /\ Len(es) = Cardinality(Fitting(s))
  /\ \A i \in 1 .. Len(s) : \A p \in 1 .. i :
       IsLine(s, p, i) /\ i - p <= LB_MAX =>
         es[Cardinality({j \in Fitting(s) : j <= i})] = sup_classify_line(SubSeq(s, p, i - 1))

\* The events of the control channel are those of its lines, in their order,
\* however the stream is cut into reads: none is lost for want of room in evs,
\* none split in two, and none made of the tail of an overlong line
\* (sup_lb_push, supervisor.c:80).
LinesWhole == EventsOf(input, evs)
=============================================================================

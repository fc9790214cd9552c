------------------------------- MODULE Timing -------------------------------
(***************************************************************************)
(* The timing exchange of a play session: rx_thread of session.c asks the  *)
(* sender for its clock over UDP, correlates the reply with the request by *)
(* an echoed token, and keeps the offset measured with the lowest round    *)
(* trip (raop_clock.c, rtp.c).  Requests and replies are delayed, lost,    *)
(* reordered and delivered twice, and the sender's clock differs from the  *)
(* receiver's by any D, ahead or behind.                                   *)
(***************************************************************************)
EXTENDS Integers

CONSTANTS
  NS,        \* clock units per second (10^9 in the code)
  FRAC,      \* NTP fraction units per second (2^32 in the code)
  PERIOD,    \* PERIODIC_MS: least time between two periodic passes
  LATE,      \* longest time between two periodic passes of a thread that runs
  TIMEOUT,   \* TIMING_TIMEOUT_NS
  OFFSETS,   \* what the sender's clock minus mono_ns may be
  START,     \* mono_ns when the session starts
  HORIZON,   \* bound: how far the clock runs
  DOUBLES    \* bound: datagrams the network delivers twice

ASSUME TimingAssumption ==
  /\ NS \in Nat \ {0} /\ FRAC \in Nat /\ FRAC >= NS
  /\ PERIOD \in Nat \ {0} /\ LATE \in Nat /\ TIMEOUT \in Nat /\ HORIZON \in Nat /\ DOUBLES \in Nat
  /\ LATE + 2 < TIMEOUT
  /\ START \in Nat /\ OFFSETS \subseteq Int /\ \A d \in OFFSETS : START + d >= 0

VARIABLES
  now,          \* mono_ns
  last_periodic,
  clk,          \* raop_clock_t
  outstanding,  \* timing_outstanding
  t1,           \* timing_t1_ns
  token,        \* timing_token_ntp
  net,          \* datagrams in flight
  D,            \* the sender's clock minus mono_ns; never changes
  repeated,     \* history: a request was sent with a token that was in flight
  doubled       \* datagrams that the network has delivered twice

timingVars == <<now, last_periodic, clk, outstanding, t1, token, net, D, repeated, doubled>>

\* ntp_from_ns and ns_from_ntp: 32.32 fixed point, rounded down both ways.
ntp_from_ns(mono, offset) ==
  LET t == IF mono + offset < 0 THEN 0 ELSE mono + offset
  IN  [sec |-> t \div NS, frac |-> ((t % NS) * FRAC) \div NS]

ns_from_ntp(ntp) == ntp.sec * NS + (ntp.frac * NS) \div FRAC

clock_init == [offset |-> 0, best_rtt |-> 0, have_offset |-> FALSE]

clock_timing_reply(c, sent, remote, t4) ==
  IF t4 < sent \/ (c.have_offset /\ t4 - sent >= c.best_rtt) THEN c
  ELSE [offset |-> ns_from_ntp(remote) - (sent + t4) \div 2,
        best_rtt |-> t4 - sent, have_offset |-> TRUE]

-----------------------------------------------------------------------------
\* A request carries the token; at is the time it was sent, which the wire
\* does not carry.
rtp_build_timing_request(at, off) ==
  [type |-> "request", token |-> ntp_from_ns(at, off), at |-> at]

\* session_start sends the first request before the threads run.  A request
\* that could not be sent is not outstanding.
TimingInit ==
  /\ now = START /\ last_periodic = START /\ clk = clock_init
  /\ D \in OFFSETS /\ repeated = FALSE /\ doubled = 0
  /\ \/ net = {rtp_build_timing_request(START, 0)}
        /\ outstanding = TRUE /\ t1 = START /\ token = ntp_from_ns(START, 0)
     \/ net = {} /\ outstanding = FALSE /\ t1 = 0 /\ token = [sec |-> 0, frac |-> 0]

\* Time passes.  The receiver thread is never kept from its periodic pass for
\* longer than LATE.
Tick ==
  /\ now < HORIZON /\ now - last_periodic < LATE
  /\ now' = now + 1
  /\ UNCHANGED <<last_periodic, clk, outstanding, t1, token, net, D, repeated, doubled>>

\* The sender answers a request with its own time and echoes the token.  A
\* datagram that is delivered may stay in the network, to come a second time.
SenderReplies ==
  \E m \in net :
    /\ m.type = "request"
    /\ LET reply == [type |-> "reply", token |-> m.token, at |-> m.at, remote |-> ntp_from_ns(now, D)]
       IN  \/ net' = (net \ {m}) \cup {reply} /\ UNCHANGED doubled
           \/ net' = net \cup {reply} /\ doubled < DOUBLES /\ doubled' = doubled + 1
    /\ UNCHANGED <<now, last_periodic, clk, outstanding, t1, token, D, repeated>>

Lose ==
  \E m \in net :
    /\ net' = net \ {m}
    /\ UNCHANGED <<now, last_periodic, clk, outstanding, t1, token, D, repeated, doubled>>

\* rx_dispatch on the timing socket: a reply that nothing waits for, or that
\* echoes another token, is dropped and the wait goes on.

\* Faulty variant: the token is not compared.
AcceptsAny(m) == outstanding

Correlates(m) == outstanding /\ m.token = token

RxTiming ==
  \E m \in net :
    /\ m.type = "reply"
    /\ \/ net' = net \ {m} /\ UNCHANGED doubled
       \/ net' = net /\ doubled < DOUBLES /\ doubled' = doubled + 1
    /\ IF Correlates(m)
       THEN clk' = clock_timing_reply(clk, t1, m.remote, now) /\ outstanding' = FALSE
       ELSE UNCHANGED <<clk, outstanding>>
    /\ UNCHANGED <<now, last_periodic, t1, token, D, repeated>>

\* Faulty variant: the timeout is only looked at when nothing is outstanding.
NeverTimesOut == FALSE

TimedOut == outstanding /\ now - t1 > TIMEOUT

send_timing_request ==
  /\ net' = net \cup {rtp_build_timing_request(now, clk.offset)}
  /\ t1' = now /\ token' = ntp_from_ns(now, clk.offset) /\ outstanding' = TRUE
  /\ repeated' = (repeated \/ \E m \in net : m.token = ntp_from_ns(now, clk.offset))

\* The timing part of rx_thread's periodic pass: a request whose reply is
\* overdue is given up, and when none is outstanding a new one is sent, unless
\* sendto fails.
RxPeriodic ==
  /\ now - last_periodic >= PERIOD
  /\ last_periodic' = now
  /\ IF outstanding /\ ~TimedOut
     THEN UNCHANGED <<net, t1, token, outstanding, repeated>>
     ELSE \/ send_timing_request
          \/ outstanding' = FALSE /\ UNCHANGED <<net, t1, token, repeated>>
  /\ UNCHANGED <<now, clk, D, doubled>>

TimingNext == Tick \/ SenderReplies \/ Lose \/ RxTiming \/ RxPeriodic
TimingSpec == TimingInit /\ [][TimingNext]_timingVars

-----------------------------------------------------------------------------
\* The offset is right to within half the round trip it was measured with, and
\* a unit for the conversion.
Accurate ==
  /\ clk.offset - D <= (clk.best_rtt + 1) \div 2
  /\ D - clk.offset <= clk.best_rtt \div 2 + 1

\* No datagram has come twice, and the sender's clock is behind the receiver's
\* by less than the timeout, if at all.
Plain == doubled = 0 /\ D + TIMEOUT > 0

\* The offset the session works with is right, whatever replies were lost, late,
\* out of order or doubled: a reply is never matched with the send time of
\* another request.  The one exception is a token that was sent again while a
\* datagram with it was under way, and for that it takes a doubled datagram, or
\* a sender whose clock is behind by the timeout or more: the first measurement
\* then takes the tokens, which count in the sender's time, back to those of the
\* requests given up before it.
ClockAccurate == clk.have_offset => Accurate \/ (repeated /\ ~Plain)

\* Only one request is outstanding, "so the t1<->reply correlation is
\* unambiguous": a reply in flight that echoes the awaited token answers the
\* request sent at t1, however many earlier requests were given up.
TokenUnambiguous ==
  \A m \in net : outstanding /\ m.token = token => m.at = t1

\* A reply that never comes does not wedge the exchange: no request stays
\* outstanding past the timeout and one more periodic pass.
NotWedged == outstanding => now - t1 <= TIMEOUT + LATE
=============================================================================

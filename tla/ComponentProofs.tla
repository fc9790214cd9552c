-------------------------- MODULE ComponentProofs ---------------------------
(***************************************************************************)
(* Proofs about two components that stand by themselves, for every value   *)
(* of their constants: the timing exchange (module Timing) and the         *)
(* installer (module Installer).  The two share nothing.                   *)
(***************************************************************************)
EXTENDS Timing, Installer, TLAPS

-----------------------------------------------------------------------------
\* The timing exchange.

\* The time v in the wire format.
Ntp(v) == ntp_from_ns(v, 0)

\* Division with remainder.
LEMMA Division ==
  ASSUME NEW a \in Nat, NEW b \in Nat \ {0}
  PROVE  /\ a \div b \in Nat /\ a % b \in Nat
         /\ a = (b * (a \div b)) + (a % b)
         /\ a % b < b
  OBVIOUS

\* A product with a common factor keeps a strict order by at least the factor.
LEMMA Product ==
  ASSUME NEW a \in Nat, NEW b \in Nat, NEW c \in Nat, a < b
  PROVE  a * c + c <= b * c
  OBVIOUS

\* Two times that differ have different wire formats: a fraction unit is no
\* longer than a clock unit.
LEMMA NtpInjective ==
  ASSUME NEW u \in Nat, NEW v \in Nat, u < v
  PROVE  Ntp(u) # Ntp(v)
<1> DEFINE f == u % NS
           g == v % NS
           x == (f * FRAC) \div NS
           y == (g * FRAC) \div NS
<1>0. NS \in Nat \ {0} /\ FRAC \in Nat /\ FRAC >= NS
  BY TimingAssumption, Zenon
<1>1. /\ Ntp(u) = [sec |-> u \div NS, frac |-> x]
      /\ Ntp(v) = [sec |-> v \div NS, frac |-> y]
  BY DEF Ntp, ntp_from_ns
<1>2. /\ u \div NS \in Nat /\ f \in Nat /\ u = (NS * (u \div NS)) + f
      /\ v \div NS \in Nat /\ g \in Nat /\ v = (NS * (v \div NS)) + g
  BY <1>0, Division, Zenon
<1>3. SUFFICES ASSUME u \div NS = v \div NS, x = y
               PROVE  FALSE
  <2> HIDE DEF x, y
  <2> QED  BY <1>1
<1>4. f < g
  <2> HIDE DEF f, g
  <2>1. NS * (u \div NS) = NS * (v \div NS)
    BY <1>3, Zenon
  <2>2. NS * (v \div NS) \in Int
    BY <1>0, <1>2
  <2> QED  BY <2>1, <2>2, <1>2
<1> HIDE DEF f, g
<1>5. f * FRAC + FRAC <= g * FRAC /\ f * FRAC \in Nat /\ g * FRAC \in Nat
  BY <1>0, <1>2, <1>4, Product
<1>6. /\ x \in Nat /\ f * FRAC = (NS * x) + ((f * FRAC) % NS) /\ (f * FRAC) % NS \in Nat
      /\ y \in Nat /\ g * FRAC = (NS * y) + ((g * FRAC) % NS) /\ (g * FRAC) % NS < NS
      /\ (g * FRAC) % NS \in Nat
  BY <1>0, <1>5, Division, Zenon
<1> HIDE DEF x, y
<1>7. NS * x = NS * y /\ NS * y \in Int
  BY <1>0, <1>3, <1>6
<1> QED
  BY <1>0, <1>5, <1>6, <1>7

\* Through the wire format and back, a time loses at most one unit.
LEMMA NtpRoundTrip ==
  ASSUME NEW v \in Nat
  PROVE  /\ ns_from_ntp(Ntp(v)) \in Nat
         /\ ns_from_ntp(Ntp(v)) <= v
         /\ v <= ns_from_ntp(Ntp(v)) + 1
<1> DEFINE s == v \div NS
           f == v % NS
           p == f * FRAC
           x == p \div NS
           z == (x * NS) \div FRAC
<1>0. NS \in Nat \ {0} /\ FRAC \in Nat \ {0} /\ FRAC >= NS
  BY TimingAssumption
<1>1. ns_from_ntp(Ntp(v)) = s * NS + z
  BY DEF Ntp, ntp_from_ns, ns_from_ntp
<1>2. s \in Nat /\ f \in Nat /\ v = (NS * s) + f
  BY <1>0, Division, Zenon
<1> HIDE DEF s, f
<1>3. p \in Nat
  BY <1>0, <1>2
<1>4. x \in Nat /\ p % NS \in Nat /\ p = (NS * x) + (p % NS) /\ p % NS < NS
  <2> HIDE DEF p
  <2> QED  BY <1>0, <1>3, Division, Zenon
<1>5. x * NS \in Nat /\ x * NS = NS * x
  <2> HIDE DEF x
  <2> QED  BY <1>0, <1>4
<1> HIDE DEF x
<1>6. /\ z \in Nat /\ (x * NS) % FRAC \in Nat
      /\ x * NS = (FRAC * z) + ((x * NS) % FRAC) /\ (x * NS) % FRAC < FRAC
  BY <1>0, <1>5, Division, Zenon
<1> HIDE DEF z
<1>7. FRAC * f - FRAC * z \in 0..(2 * FRAC - 1)
  <2>1. p = FRAC * f /\ FRAC * f \in Nat /\ FRAC * z \in Nat
    BY <1>0, <1>2, <1>6
  <2> HIDE DEF p
  <2> QED  BY <1>0, <1>3, <1>4, <1>5, <1>6, <2>1
<1>8. z <= f
  <2>1. SUFFICES ASSUME f < z PROVE FALSE
    BY <1>2, <1>6
  <2>2. FRAC * f + FRAC <= FRAC * z
    BY <1>0, <1>2, <1>6, <2>1, Product
  <2> QED  BY <1>0, <1>2, <1>6, <1>7, <2>2
<1>9. f <= z + 1
  <2>1. SUFFICES ASSUME z + 1 < f PROVE FALSE
    BY <1>2, <1>6
  <2>2. (z + 1) * FRAC + FRAC <= f * FRAC
    BY <1>0, <1>2, <1>6, <2>1, Product
  <2>3. (z + 1) * FRAC = FRAC * z + FRAC
    BY <1>0, <1>6
  <2> QED  BY <1>0, <1>2, <1>6, <1>7, <2>2, <2>3
<1>10. s * NS = NS * s /\ NS * s \in Nat
  BY <1>0, <1>2
<1> QED
  BY <1>1, <1>2, <1>6, <1>8, <1>9, <1>10

-----------------------------------------------------------------------------
\* The longest round trip that is still awaited, halved and rounded up.
Half == (TIMEOUT + LATE + 1) \div 2

\* No offset is larger: a measured one is at most D + Half, the first one is 0.
Slack == IF D + Half >= 0 THEN D + Half ELSE 0

Awaited(m) == outstanding /\ m.at = t1
Reference == IF outstanding THEN t1 ELSE now

RequestInv ==
  /\ now \in Nat /\ START <= now /\ last_periodic \in Nat /\ t1 \in Nat /\ outstanding \in BOOLEAN
  /\ last_periodic <= now /\ now - last_periodic <= LATE /\ t1 <= now
  /\ outstanding => last_periodic - t1 <= TIMEOUT
  /\ D \in OFFSETS /\ doubled \in Nat
  /\ clk \in [offset : Int, best_rtt : Nat, have_offset : BOOLEAN]

\* What a datagram in flight carries: a reply was made at some time s.
MsgInv(m) ==
  /\ m.at \in Nat /\ m.at <= now
  /\ m.type = "reply" =>
       \E s \in Nat : START <= s /\ m.at <= s /\ s <= now /\ m.remote = Ntp(s + D)

\* Until a token is repeated, a reply with the awaited token is the awaited one.
MatchInv == (clk.have_offset => Accurate) /\ TokenUnambiguous

\* A datagram that is not the awaited one was given up at least TIMEOUT ago, and
\* its token is below any token the session awaits or will send.
TokenInv(m, v) ==
  /\ m.token = Ntp(v)
  /\ v <= m.at + Slack
  /\ Awaited(m) => v = t1 + clk.offset
  /\ ~Awaited(m) => m.at + TIMEOUT < Reference /\ v < Reference + clk.offset

\* While nothing comes twice and the sender is not far behind, no token is
\* repeated: tokens grow from one request to the next.
PlainInv ==
  /\ ~repeated /\ now + clk.offset >= 0 /\ clk.offset <= Slack
  /\ outstanding => t1 + clk.offset >= 0 /\ token = Ntp(t1 + clk.offset)
  /\ \A m \in net : \E v \in Nat : TokenInv(m, v)
  /\ \A m, k \in net : m.at = k.at => m = k

TimingInv ==
  /\ RequestInv
  /\ \A m \in net : MsgInv(m)
  /\ ~repeated => MatchInv
  /\ Plain => PlainInv

\* The assumptions on the constants, and what Half is.
LEMMA Constants ==
  /\ TIMEOUT \in Nat /\ LATE \in Nat /\ START \in Nat /\ Half \in Nat
  /\ TIMEOUT >= Half + 1
  /\ \A r \in 0..(TIMEOUT + LATE) : (r + 1) \div 2 <= Half
  /\ \A d \in OFFSETS : d \in Int /\ START + d >= 0
  BY TimingAssumption DEF Half

\* Slack is one of its two bounds and not below either.
LEMMA SlackBounds ==
  ASSUME D \in Int
  PROVE  Slack \in Nat /\ D + Half <= Slack /\ (Slack = D + Half \/ Slack = 0)
  BY Constants DEF Slack

\* A time that is not negative is sent as it is.
LEMMA NtpOfSum ==
  ASSUME NEW a \in Int, NEW o \in Int, a + o >= 0
  PROVE  ntp_from_ns(a, o) = Ntp(a + o)
  BY DEF Ntp, ntp_from_ns

\* A session that has just started.
LEMMA TimingInitInv == TimingInit => TimingInv
<1> SUFFICES ASSUME TimingInit PROVE TimingInv
  OBVIOUS
<1>1. /\ now = START /\ last_periodic = START /\ D \in OFFSETS /\ doubled = 0 /\ ~repeated
      /\ clk = [offset |-> 0, best_rtt |-> 0, have_offset |-> FALSE]
      /\ outstanding \in BOOLEAN /\ t1 \in {START, 0}
      /\ outstanding => t1 = START /\ token = ntp_from_ns(START, 0)
  BY Zenon DEF TimingInit, clock_init
<1>2. clk.offset = 0 /\ ~clk.have_offset
  BY <1>1
<1>3. RequestInv
  BY <1>1, Constants DEF RequestInv
<1>4. ASSUME NEW m \in net
      PROVE  m.type = "request" /\ m.token = ntp_from_ns(START, 0) /\ m.at = START /\ outstanding /\ t1 = START
  <2>1. m = [type |-> "request", token |-> ntp_from_ns(START, 0), at |-> START] /\ outstanding /\ t1 = START
    BY <1>4, Zenon DEF TimingInit, rtp_build_timing_request
  <2> QED  BY <2>1, Zenon
<1>5. \A m \in net : MsgInv(m)
  BY <1>1, <1>4, Constants DEF MsgInv
<1>6. MatchInv
  BY <1>2, <1>4, Zenon DEF MatchInv, TokenUnambiguous
<1>7. PlainInv
  <2>1. D \in Int /\ Slack \in Nat
    BY <1>1, Constants, SlackBounds, Zenon
  <2>2. START \in Nat /\ START + 0 = START /\ START <= START + Slack
    BY <2>1, Constants
  <2>3. now + clk.offset >= 0 /\ clk.offset <= Slack
    BY <1>1, <1>2, <2>1, Constants
  <2>4. outstanding => t1 + clk.offset >= 0 /\ token = Ntp(t1 + clk.offset)
    BY <1>1, <1>2, <2>2 DEF Ntp
  <2>5. ASSUME NEW m \in net PROVE TokenInv(m, START)
    BY <1>2, <1>4, <2>2, <2>5, Zenon DEF TokenInv, Awaited, Ntp
  <2>6. \A m, k \in net : m.at = k.at => m = k
    BY Zenon DEF TimingInit
  <2> QED  BY <1>1, <2>2, <2>3, <2>4, <2>5, <2>6, Zenon DEF PlainInv
<1> QED  BY <1>3, <1>5, <1>6, <1>7, Zenon DEF TimingInv

\* Time passes.
LEMMA TickInv == TimingInv /\ Tick => TimingInv'
<1> SUFFICES ASSUME TimingInv, Tick PROVE TimingInv'
  OBVIOUS
<1>1. /\ now' = now + 1 /\ now - last_periodic < LATE
      /\ UNCHANGED <<last_periodic, clk, outstanding, t1, token, net, D, repeated, doubled>>
  BY Zenon DEF Tick
<1>2. RequestInv
  BY Zenon DEF TimingInv
<1>3. now \in Nat /\ t1 \in Nat /\ clk.offset \in Int
  BY <1>2, Zenon DEF RequestInv
<1>4. RequestInv'
  BY <1>1, <1>2, Constants DEF RequestInv
<1>5. ASSUME NEW m \in net' PROVE MsgInv(m)'
  <2>1. m \in net /\ MsgInv(m)
    BY <1>1, <1>5, Zenon DEF TimingInv
  <2>2. \A s \in Nat : s <= now => s <= now'
    BY <1>1, <1>3
  <2> QED  BY <1>1, <2>1, <2>2, Zenon DEF MsgInv, Ntp, ntp_from_ns
<1>6. (~repeated => MatchInv)'
  BY <1>1, Zenon DEF TimingInv, MatchInv, Accurate, TokenUnambiguous
<1>7. ASSUME Plain' PROVE PlainInv'
  <2>1. PlainInv
    BY <1>1, <1>7, Zenon DEF TimingInv, Plain
  <2>2. now' + clk.offset >= 0
    BY <1>1, <1>3, <2>1 DEF PlainInv
  <2>3. ASSUME NEW m \in net PROVE (\E v \in Nat : TokenInv(m, v))'
    <3>1. PICK v \in Nat : TokenInv(m, v)
      BY <2>1, Zenon DEF PlainInv
    <3>2. m.at \in Nat
      BY Zenon DEF TimingInv, MsgInv
    <3>3. ~Awaited(m)' => (m.at + TIMEOUT < Reference /\ v < Reference + clk.offset)'
      <4>1. (~Awaited(m)' => ~Awaited(m)) /\ Reference \in Nat /\ Reference' \in {Reference, Reference + 1}
        BY <1>1, <1>3, Zenon DEF Awaited, Reference
      <4>2. ~Awaited(m) => m.at + TIMEOUT < Reference /\ v < Reference + clk.offset
        BY <3>1, Zenon DEF TokenInv
      <4> QED  BY <1>1, <1>3, <3>2, <4>1, <4>2, Constants
    <3> QED  BY <1>1, <3>1, <3>3, Zenon DEF TokenInv, Awaited, Slack, Half, Ntp, ntp_from_ns
  <2> QED  BY <1>1, <2>1, <2>2, <2>3, Zenon DEF PlainInv, Slack, Half, Ntp, ntp_from_ns
<1> QED  BY <1>4, <1>5, <1>6, <1>7, Zenon DEF TimingInv

\* Datagrams that leave the network, or come twice, take nothing with them.
LEMMA FewerMessages ==
  ASSUME TimingInv, net' \subseteq net, doubled' \in Nat, Plain' => Plain,
         UNCHANGED <<now, last_periodic, clk, outstanding, t1, token, D, repeated>>
  PROVE  TimingInv'
<1>1. RequestInv' /\ (~repeated => MatchInv)'
  BY Zenon DEF TimingInv, RequestInv, MatchInv, Accurate, TokenUnambiguous
<1>2. ASSUME NEW m \in net' PROVE MsgInv(m)'
  BY <1>2, Zenon DEF TimingInv, MsgInv, Ntp, ntp_from_ns
<1>3. ASSUME Plain' PROVE PlainInv'
  BY <1>3, Zenon DEF TimingInv, PlainInv, TokenInv, Awaited, Reference, Slack, Half, Ntp, ntp_from_ns
<1> QED  BY <1>1, <1>2, <1>3, Zenon DEF TimingInv

\* The sender answers with the token it got and its own time.
LEMMA RepliesInv == TimingInv /\ SenderReplies => TimingInv'
<1> SUFFICES ASSUME TimingInv, SenderReplies PROVE TimingInv'
  OBVIOUS
<1> DEFINE Reply(m) == [type |-> "reply", token |-> m.token, at |-> m.at,
                        remote |-> ntp_from_ns(now, D)]
<1>1. PICK m \in net : /\ \/ net' = (net \ {m}) \cup {Reply(m)} /\ doubled' = doubled
                          \/ net' = net \cup {Reply(m)} /\ doubled < DOUBLES /\ doubled' = doubled + 1
                       /\ UNCHANGED <<now, last_periodic, clk, outstanding, t1, token, D, repeated>>
  BY Zenon DEF SenderReplies
<1>2. /\ RequestInv /\ MsgInv(m) /\ now \in Nat /\ doubled \in Nat /\ START <= now
      /\ m.at \in Nat /\ m.at <= now /\ D \in Int /\ START + D >= 0
  BY Constants, Zenon DEF TimingInv, RequestInv, MsgInv
<1>3. now + D \in Nat /\ ntp_from_ns(now, D) = Ntp(now + D)
  <2>1. now + D \in Nat
    BY <1>2, Constants
  <2>2. now \in Int /\ now + D >= 0
    BY <1>2, <2>1
  <2> QED  BY <1>2, <2>1, <2>2, NtpOfSum, Zenon
<1> DEFINE q == Reply(m)
<1>4. q.at = m.at /\ q.token = m.token /\ q.remote = Ntp(now + D) /\ m \in net
  BY <1>1, <1>3, Zenon
<1> HIDE DEF q
<1>5. net' \subseteq net \cup {q} /\ doubled' \in Nat /\ (doubled' = 0 => doubled = 0 /\ net' = (net \ {m}) \cup {q})
  <2>1. CASE net' = (net \ {m}) \cup {q} /\ doubled' = doubled
    BY <1>2, <2>1, Zenon
  <2>2. CASE net' = net \cup {q} /\ doubled' = doubled + 1
    BY <1>2, <2>2
  <2> QED  BY <1>1, <2>1, <2>2, Zenon DEF q
<1>6. RequestInv'
  BY <1>1, <1>2, <1>5, Zenon DEF RequestInv
<1>7. MsgInv(q)
  <2>1. now <= now
    BY <1>2
  <2> QED  BY <1>2, <1>4, <2>1, Zenon DEF MsgInv
<1>8. ASSUME NEW k \in net' PROVE MsgInv(k)'
  <2>1. MsgInv(k)
    BY <1>5, <1>7, <1>8, Zenon DEF TimingInv
  <2> QED  BY <1>1, <2>1, Zenon DEF MsgInv, Ntp, ntp_from_ns
<1>9. (~repeated => MatchInv)'
  BY <1>1, <1>4, <1>5, Zenon DEF TimingInv, MatchInv, Accurate, TokenUnambiguous
<1>10. ASSUME Plain' PROVE PlainInv'
  <2>1. PlainInv /\ net' = (net \ {m}) \cup {q}
    BY <1>1, <1>5, <1>10, Zenon DEF TimingInv, Plain
  <2>2. ASSUME NEW k \in net' PROVE \E v \in Nat : TokenInv(k, v)
    <3>1. PICK j \in net : k.at = j.at /\ k.token = j.token
      BY <1>4, <2>1, <2>2, Zenon
    <3> QED  BY <2>1, <3>1, Zenon DEF PlainInv, TokenInv, Awaited
  <2>3. ASSUME NEW k \in net' PROVE (\E v \in Nat : TokenInv(k, v))'
    BY <1>1, <2>2, <2>3, Zenon DEF TokenInv, Awaited, Reference, Slack, Half, Ntp, ntp_from_ns
  <2>4. \A j, k \in net' : j.at = k.at => j = k
    BY <1>4, <2>1, Zenon DEF PlainInv
  <2> QED  BY <1>1, <2>1, <2>3, <2>4, Zenon DEF PlainInv, Slack, Half, Ntp, ntp_from_ns
<1> QED  BY <1>6, <1>8, <1>9, <1>10, Zenon DEF TimingInv

\* A reply that correlates while no token was repeated answers the request of
\* t1: it was answered between t1 and now, so the midpoint is off by no more
\* than half the round trip.
LEMMA RxTimingInv == TimingInv /\ RxTiming => TimingInv'
<1> SUFFICES ASSUME TimingInv, RxTiming PROVE TimingInv'
  OBVIOUS
<1> USE Constants
<1>1. PICK m \in net :
        /\ m.type = "reply"
        /\ \/ net' = net \ {m} /\ doubled' = doubled
           \/ net' = net /\ doubled < DOUBLES /\ doubled' = doubled + 1
        /\ IF Correlates(m)
           THEN clk' = clock_timing_reply(clk, t1, m.remote, now) /\ outstanding' = FALSE
           ELSE UNCHANGED <<clk, outstanding>>
        /\ UNCHANGED <<now, last_periodic, t1, token, D, repeated>>
  BY Zenon DEF RxTiming
<1>2. RequestInv /\ MsgInv(m) /\ doubled \in Nat /\ D \in Int /\ START + D >= 0
  BY Zenon DEF TimingInv, RequestInv
<1>3. net' \subseteq net /\ doubled' \in Nat /\ (doubled' = 0 => doubled = 0 /\ net' = net \ {m})
  <2>1. CASE net' = net \ {m} /\ doubled' = doubled
    BY <1>2, <2>1, Zenon
  <2>2. CASE net' = net /\ doubled' = doubled + 1
    BY <1>2, <2>2
  <2> QED  BY <1>1, <2>1, <2>2, Zenon
<1>4. Plain' => Plain /\ net' = net \ {m}
  BY <1>1, <1>3, Zenon DEF Plain
<1>5. CASE ~Correlates(m)
  BY <1>1, <1>3, <1>4, <1>5, FewerMessages, Zenon
<1>6. CASE Correlates(m)
  <2>1. /\ clk' = clock_timing_reply(clk, t1, m.remote, now) /\ outstanding' = FALSE
        /\ outstanding /\ m.token = token
        /\ UNCHANGED <<now, last_periodic, t1, token, D, repeated>>
    BY <1>1, <1>6, Zenon DEF Correlates
  <2>2. /\ now \in Nat /\ t1 \in Nat /\ t1 <= now /\ now - t1 <= TIMEOUT + LATE
        /\ clk \in [offset : Int, best_rtt : Nat, have_offset : BOOLEAN]
    BY <1>2, <2>1 DEF RequestInv
  <2>3. PICK s \in Nat : START <= s /\ m.at <= s /\ s <= now /\ m.remote = Ntp(s + D)
    BY <1>1, <1>2, Zenon DEF MsgInv
  <2> DEFINE r == ns_from_ntp(m.remote)
             mid == (t1 + now) \div 2
  <2>4. s + D \in Nat
    BY <1>2, <2>3
  <2>5. r \in Nat /\ r <= s + D /\ s + D <= r + 1
    BY <2>3, <2>4, NtpRoundTrip
  <2>6. mid \in Nat /\ mid <= now /\ 2 * mid <= t1 + now /\ t1 + now <= 2 * mid + 1
    BY <2>2
  <2> HIDE DEF r, mid
  <2>7. clk' = clk \/ clk' = [offset |-> r - mid, best_rtt |-> now - t1, have_offset |-> TRUE]
    BY <2>1, Zenon DEF clock_timing_reply, r, mid
  <2>8. RequestInv'
    <3>1. outstanding' \in BOOLEAN /\ ~outstanding'
      BY <2>1, Zenon
    <3>2. clk' \in [offset : Int, best_rtt : Nat, have_offset : BOOLEAN]
      <4>1. r - mid \in Int /\ now - t1 \in Nat
        BY <2>2, <2>5, <2>6
      <4>2. CASE clk' = [offset |-> r - mid, best_rtt |-> now - t1, have_offset |-> TRUE]
        BY <4>1, <4>2
      <4> QED  BY <2>2, <2>7, <4>2, Zenon
    <3> QED  BY <1>2, <1>3, <2>1, <3>1, <3>2, Zenon DEF RequestInv
  <2>9. ASSUME NEW k \in net' PROVE MsgInv(k)'
    <3>1. MsgInv(k)
      BY <1>3, <2>9, Zenon DEF TimingInv
    <3> QED  BY <2>1, <3>1, Zenon DEF MsgInv, Ntp, ntp_from_ns
  <2>10. ~repeated => m.at = t1 /\ t1 <= s
    BY <2>1, <2>3, Zenon DEF TimingInv, MatchInv, TokenUnambiguous
  <2>11. ASSUME ~repeated' PROVE MatchInv'
    <3>1. CASE clk' = clk
      BY <2>1, <2>11, <3>1, Zenon DEF TimingInv, MatchInv, Accurate, TokenUnambiguous
    <3>2. CASE clk' = [offset |-> r - mid, best_rtt |-> now - t1, have_offset |-> TRUE]
      <4>1. t1 <= s
        BY <2>1, <2>10, <2>11, Zenon
      <4>2. /\ (r - mid) - D <= ((now - t1) + 1) \div 2
            /\ D - (r - mid) <= (now - t1) \div 2 + 1
        BY <1>2, <2>2, <2>3, <2>5, <2>6, <4>1
      <4>3. clk'.offset = r - mid /\ clk'.best_rtt = now - t1
        BY <3>2, Zenon
      <4> QED  BY <2>1, <4>2, <4>3, Zenon DEF MatchInv, Accurate, TokenUnambiguous
    <3> QED  BY <2>7, <3>1, <3>2, Zenon
  <2>12. ASSUME Plain' PROVE PlainInv'
    <3>1. PlainInv /\ net' = net \ {m} /\ D + TIMEOUT > 0
      BY <1>4, <2>1, <2>12, Zenon DEF TimingInv, Plain
    <3>2. /\ Slack \in Nat /\ D + Half <= Slack /\ (Slack = D + Half \/ Slack = 0)
          /\ ~repeated /\ t1 <= s /\ m.at = t1
          /\ now + clk.offset >= 0 /\ clk.offset <= Slack /\ t1 + clk.offset >= 0
      BY <1>2, <2>1, <2>10, <3>1, SlackBounds, Zenon DEF PlainInv
    <3>3. now + clk'.offset >= 0 /\ clk'.offset <= Slack
      <4>1. CASE clk' = clk
        BY <3>2, <4>1, Zenon
      <4>2. CASE clk'.offset = r - mid
        <5>1. now - t1 \in 0..(TIMEOUT + LATE)
          BY <2>2
        <5>2. ((now - t1) + 1) \div 2 <= Half
          BY <5>1, Zenon
        <5> QED  BY <1>2, <2>2, <2>3, <2>5, <2>6, <3>2, <4>2, <5>2
      <4> QED  BY <2>7, <4>1, <4>2
    <3>4. ASSUME NEW k \in net' PROVE (\E v \in Nat : TokenInv(k, v))'
      <4>1. k \in net /\ k # m
        BY <3>1, <3>4, Zenon
      <4>2. PICK v \in Nat : TokenInv(k, v)
        BY <3>1, <4>1, Zenon DEF PlainInv
      <4>3. k.at \in Nat /\ k.at # t1
        BY <3>1, <3>2, <4>1, Zenon DEF PlainInv, TimingInv, MsgInv
      <4>4. k.at + TIMEOUT < t1 /\ v < t1 + clk.offset /\ v <= k.at + Slack /\ k.token = Ntp(v)
        BY <2>1, <4>2, <4>3, Zenon DEF TokenInv, Awaited, Reference
      <4>5. k.at + TIMEOUT < now
        BY <2>2, <4>3, <4>4
      <4>6. v < now + clk'.offset
        <5>1. CASE clk' = clk
          BY <2>2, <4>4, <5>1
        <5>2. CASE clk'.offset = r - mid
          <6>1. now + (r - mid) >= (t1 + D) - 1
            BY <1>2, <2>2, <2>3, <2>5, <2>6, <3>2
          <6>2. v < (t1 + D) - 1
            BY <1>2, <2>2, <3>1, <3>2, <4>3, <4>4
          <6> QED  BY <1>2, <2>2, <2>5, <2>6, <5>2, <6>1, <6>2
        <5> QED  BY <2>7, <5>1, <5>2
      <4>7. ~Awaited(k)' /\ Reference' = now
        BY <2>1, Zenon DEF Awaited, Reference
      <4>8. (k.token = Ntp(v) /\ v <= k.at + Slack)'
        BY <2>1, <4>4, Zenon DEF Slack, Half, Ntp, ntp_from_ns
      <4> QED  BY <4>5, <4>6, <4>7, <4>8, Zenon DEF TokenInv
    <3> QED  BY <2>1, <3>1, <3>2, <3>3, <3>4, Zenon DEF PlainInv, Slack, Half
  <2> QED  BY <2>8, <2>9, <2>11, <2>12, Zenon DEF TimingInv
<1> QED  BY <1>5, <1>6, Zenon

\* The periodic pass: what is in flight when a request is sent, or given up,
\* is older than the timeout, and its token is smaller than the new one.
LEMMA RxPeriodicInv == TimingInv /\ RxPeriodic => TimingInv'
<1> SUFFICES ASSUME TimingInv, RxPeriodic PROVE TimingInv'
  OBVIOUS
<1> USE Constants
<1>1. UNCHANGED <<now, clk, D, doubled>> /\ last_periodic' = now
  BY Zenon DEF RxPeriodic
<1>2. RequestInv /\ now \in Nat /\ t1 \in Nat /\ t1 <= now /\ clk.offset \in Int /\ D \in Int /\ now - now = 0
  <2>1. RequestInv /\ now \in Nat /\ t1 \in Nat /\ t1 <= now /\ clk.offset \in Int /\ D \in Int
    BY Zenon DEF TimingInv, RequestInv
  <2> QED  BY <2>1
<1>3. CASE outstanding /\ ~TimedOut
  <2>1. UNCHANGED <<net, t1, token, outstanding, repeated>>
    BY <1>3, Zenon DEF RxPeriodic
  <2>2. RequestInv'
    <3>1. now - t1 <= TIMEOUT
      BY <1>2, <1>3 DEF TimedOut
    <3>2. now' - last_periodic' <= LATE /\ now <= now
      BY <1>1, <1>2
    <3> QED  BY <1>1, <1>2, <2>1, <3>1, <3>2, Zenon DEF RequestInv
  <2>3. ASSUME NEW m \in net' PROVE MsgInv(m)'
    BY <1>1, <2>1, <2>3, Zenon DEF TimingInv, MsgInv, Ntp, ntp_from_ns
  <2>4. (~repeated => MatchInv)'
    BY <1>1, <2>1, Zenon DEF TimingInv, MatchInv, Accurate, TokenUnambiguous
  <2>5. ASSUME Plain' PROVE PlainInv'
    BY <1>1, <2>1, <2>5, Zenon DEF TimingInv, Plain, PlainInv, TokenInv, Awaited, Reference, Slack, Half,
                                    Ntp, ntp_from_ns
  <2> QED  BY <2>2, <2>3, <2>4, <2>5, Zenon DEF TimingInv
<1>4. CASE ~outstanding \/ TimedOut
  <2>1. ASSUME Plain, NEW m \in net
        PROVE  /\ m.at \in Nat /\ m.at + TIMEOUT < now
               /\ \E v \in Nat : m.token = Ntp(v) /\ v <= m.at + Slack /\ v < now + clk.offset
    <3>1. m.at \in Nat
      BY Zenon DEF TimingInv, MsgInv
    <3>2. PICK v \in Nat : TokenInv(m, v)
      BY <2>1, Zenon DEF TimingInv, PlainInv
    <3>3. m.token = Ntp(v) /\ v <= m.at + Slack
      BY <3>2, Zenon DEF TokenInv
    <3>4. CASE Awaited(m)
      <4>1. m.at = t1 /\ v = t1 + clk.offset /\ TimedOut
        BY <1>4, <3>2, <3>4, Zenon DEF TokenInv, Awaited
      <4>2. m.at + TIMEOUT < now /\ v < now + clk.offset
        BY <1>2, <4>1 DEF TimedOut
      <4> QED  BY <3>1, <3>3, <4>2, Zenon
    <3>5. CASE ~Awaited(m)
      <4>1. m.at + TIMEOUT < Reference /\ v < Reference + clk.offset /\ Reference \in {t1, now}
        BY <3>2, <3>5, Zenon DEF TokenInv, Reference
      <4>2. m.at + TIMEOUT < now /\ v < now + clk.offset
        BY <1>2, <3>1, <4>1
      <4> QED  BY <3>1, <3>3, <4>2, Zenon
    <3> QED  BY <3>4, <3>5, Zenon
  <2>2. ASSUME Plain, NEW m \in net, (outstanding => t1 = now)' PROVE (\E v \in Nat : TokenInv(m, v))'
    <3>1. PICK v \in Nat : m.token = Ntp(v) /\ v <= m.at + Slack /\ v < now + clk.offset
      BY <2>1, <2>2, Zenon
    <3>2. m.at \in Nat /\ m.at + TIMEOUT < now
      BY <2>1, <2>2, Zenon
    <3>3. m.at # now
      BY <1>2, <3>2
    <3>4. Reference' = now /\ ~Awaited(m)'
      BY <1>1, <2>2, <3>3, Zenon DEF Reference, Awaited
    <3> QED  BY <1>1, <3>1, <3>2, <3>4, Zenon DEF TokenInv, Slack, Half, Ntp, ntp_from_ns
  <2>3. CASE send_timing_request
    <3>n. PICK n : n = ntp_from_ns(now, clk.offset)
      OBVIOUS
    <3>q. PICK q : q = [type |-> "request", token |-> n, at |-> now]
      OBVIOUS
    <3>1. /\ net' = net \cup {q} /\ t1' = now /\ outstanding' = TRUE /\ token' = n
          /\ repeated' = (repeated \/ \E m \in net : m.token = n)
      BY <2>3, <3>n, <3>q, Zenon DEF send_timing_request, rtp_build_timing_request
    <3>2. q.type = "request" /\ q.token = n /\ q.at = now
      BY <3>q, Zenon
    <3>3. RequestInv'
      <4>1. /\ now' - last_periodic' <= LATE /\ last_periodic' - t1' <= TIMEOUT
            /\ now <= now
        BY <1>1, <1>2, <3>1
      <4>2. outstanding' \in BOOLEAN
        BY <3>1, Zenon
      <4> QED  BY <1>1, <1>2, <3>1, <4>1, <4>2, Zenon DEF RequestInv
    <3>4. ASSUME NEW m \in net' PROVE MsgInv(m)'
      <4>1. CASE m = q
        <5>1. now <= now
          BY <1>2
        <5>2. q.type # "reply"
          BY <3>2
        <5> QED  BY <1>1, <1>2, <3>2, <4>1, <5>1, <5>2, Zenon DEF MsgInv
      <4>2. CASE m \in net
        BY <1>1, <4>2, Zenon DEF TimingInv, MsgInv, Ntp, ntp_from_ns
      <4> QED  BY <3>1, <3>4, <4>1, <4>2, Zenon
    <3>5. ASSUME ~repeated' PROVE MatchInv'
      <4>1. ~repeated /\ \A m \in net : m.token # n
        BY <3>1, <3>5, Zenon
      <4>2. TokenUnambiguous'
        BY <3>1, <3>2, <4>1, Zenon DEF TokenUnambiguous
      <4> QED  BY <1>1, <4>1, <4>2, Zenon DEF TimingInv, MatchInv, Accurate
    <3>6. ASSUME Plain' PROVE PlainInv'
      <4>1. Plain /\ PlainInv
        BY <1>1, <3>6, Zenon DEF TimingInv, Plain
      <4>2. ~repeated /\ now + clk.offset >= 0 /\ clk.offset <= Slack
        BY <4>1, Zenon DEF PlainInv
      <4>3. PICK w \in Nat : w = now + clk.offset
        BY <1>2, <4>2
      <4>4. n = Ntp(w)
        <5>1. now \in Int
          BY <1>2
        <5> QED  BY <1>2, <3>n, <4>2, <4>3, <5>1, NtpOfSum, Zenon
      <4>5. ASSUME NEW m \in net PROVE m.token # n
        <5>1. PICK v \in Nat : m.token = Ntp(v) /\ v < now + clk.offset
          BY <2>1, <4>1, Zenon
        <5> QED  BY <4>3, <4>4, <5>1, NtpInjective, Zenon
      <4>6. ~repeated'
        BY <3>1, <4>2, <4>5, Zenon
      <4>7. TokenInv(q, w)'
        <5>1. w <= now + Slack
          BY <1>2, <4>2, <4>3, SlackBounds
        <5> QED  BY <1>1, <3>1, <3>2, <4>3, <4>4, <5>1, Zenon DEF TokenInv, Awaited, Slack, Half, Ntp, ntp_from_ns
      <4>8. ASSUME NEW m \in net' PROVE (\E v \in Nat : TokenInv(m, v))'
        <5>1. (outstanding => t1 = now)'
          BY <1>1, <3>1, Zenon
        <5> QED  BY <2>2, <3>1, <4>1, <4>7, <4>8, <5>1, Zenon
      <4>9. \A m \in net : m.at # now
        BY <1>2, <2>1, <4>1
      <4>10. \A j, k \in net' : j.at = k.at => j = k
        BY <3>1, <3>2, <4>1, <4>9, Zenon DEF PlainInv
      <4>11. t1' + clk'.offset >= 0 /\ token' = Ntp(t1' + clk'.offset)
        BY <1>1, <3>1, <4>2, <4>3, <4>4, Zenon
      <4> QED  BY <1>1, <4>2, <4>6, <4>8, <4>10, <4>11, Zenon DEF PlainInv, Slack, Half, Ntp, ntp_from_ns
    <3> QED  BY <3>3, <3>4, <3>5, <3>6, Zenon DEF TimingInv
  <2>4. CASE outstanding' = FALSE /\ UNCHANGED <<net, t1, token, repeated>>
    <3>1. RequestInv'
      <4>1. outstanding' \in BOOLEAN /\ ~outstanding'
        BY <2>4, Zenon
      <4>2. now' - last_periodic' <= LATE /\ now <= now
        BY <1>1, <1>2
      <4> QED  BY <1>1, <1>2, <2>4, <4>1, <4>2, Zenon DEF RequestInv
    <3>2. ASSUME NEW m \in net' PROVE MsgInv(m)'
      BY <1>1, <2>4, <3>2, Zenon DEF TimingInv, MsgInv, Ntp, ntp_from_ns
    <3>3. (~repeated => MatchInv)'
      BY <1>1, <2>4, Zenon DEF TimingInv, MatchInv, Accurate, TokenUnambiguous
    <3>4. ASSUME Plain' PROVE PlainInv'
      <4>1. Plain /\ PlainInv
        BY <1>1, <3>4, Zenon DEF TimingInv, Plain
      <4> QED  BY <1>1, <2>2, <2>4, <4>1, Zenon DEF PlainInv, Slack, Half
    <3> QED  BY <3>1, <3>2, <3>3, <3>4, Zenon DEF TimingInv
  <2> QED  BY <1>4, <2>3, <2>4, Zenon DEF RxPeriodic, TimedOut
<1> QED  BY <1>3, <1>4, Zenon

\* TimingInv holds in every reachable state, for every difference of the two
\* clocks and whatever the network does.
THEOREM TimingInvariant == TimingSpec => []TimingInv
<1>1. TimingInit => TimingInv
  BY TimingInitInv, Zenon
<1>2. TimingInv /\ [TimingNext]_timingVars => TimingInv'
  <2> SUFFICES ASSUME TimingInv, [TimingNext]_timingVars PROVE TimingInv'
    OBVIOUS
  <2>1. CASE Lose \/ UNCHANGED timingVars
    <3>1. /\ net' \subseteq net
          /\ UNCHANGED <<now, last_periodic, clk, outstanding, t1, token, D, repeated, doubled>>
      BY <2>1, Zenon DEF Lose, timingVars
    <3>2. doubled' \in Nat /\ (Plain' => Plain)
      BY <3>1, Zenon DEF TimingInv, RequestInv, Plain
    <3> QED  BY <3>1, <3>2, FewerMessages, Zenon
  <2> QED
    BY <2>1, TickInv, RepliesInv, RxTimingInv, RxPeriodicInv, Zenon DEF TimingNext
<1> QED  BY <1>1, <1>2, PTL DEF TimingSpec

\* The clock offset is right to within half the best round trip, for every
\* difference of the two clocks, period and timeout, unless a token was repeated;
\* and that takes a doubled datagram or a sender behind by the timeout.
THEOREM ClockIsAccurate == TimingSpec => []ClockAccurate
<1>1. TimingInv => ClockAccurate
  BY Zenon DEF TimingInv, MatchInv, PlainInv, ClockAccurate
<1> QED  BY <1>1, TimingInvariant, PTL

\* The comment's claim and its limits (session.c, send_timing_request): while no
\* datagram has come twice and the sender is behind by less than the timeout, if
\* at all, a reply that echoes the awaited token answers the awaited request.
THEOREM TokenIsUnambiguous == TimingSpec => [](Plain => TokenUnambiguous)
<1>1. TimingInv => (Plain => TokenUnambiguous)
  BY Zenon DEF TimingInv, PlainInv, MatchInv
<1> QED  BY <1>1, TimingInvariant, PTL

\* A request is outstanding no longer than the timeout and a periodic pass.
THEOREM ExchangeIsNotWedged == TimingSpec => []NotWedged
<1>1. TimingInv => NotWedged
  BY Constants DEF TimingInv, RequestInv, NotWedged
<1> QED  BY <1>1, TimingInvariant, PTL

-----------------------------------------------------------------------------
\* The installer.

\* The tree is that of the version on the device.
Installed == \A p \in Paths : disk[p] = Ship[app][p]
\* ensureInstalled is past its check of the stamp.
Installing == pc \in {"entry", "stage", "rename", "prune", "stamp"}

\* What an install has done so far.
InstallInv ==
  /\ Installing =>
       /\ todo \subseteq Entries(app)
       /\ \A p \in Entries(app) \ todo : disk[p] = Ship[app][p]
  /\ pc \in {"stage", "rename"} => cur \in todo
  /\ pc = "rename" => tmp[cur] = Ship[app][cur]
  /\ pc \in {"prune", "stamp"} => todo = {}
  /\ pc = "stamp" => Installed /\ tmp[Stamp] = app

\* A stamp is that of the version on the device or of one it has replaced, and a
\* first install of a version is complete when its stamp is there.
InstallerInv ==
  /\ app \in Versions
  /\ disk \in [Paths -> Contents \cup {None}]
  /\ tmp \in [Paths \cup {Stamp} -> Contents \cup {None, Cut} \cup Versions]
  /\ stamp \in past \cup {app, None}
  /\ stamp = app /\ app \notin past => Installed
  /\ Installing \/ pc = "clean" => stamp # app
  /\ pc = "ready" => stamp = app
  /\ InstallInv

\* A device with any tree and no stamp of this version satisfies the invariant.
LEMMA InstallerInitInv ==
  ASSUME InstallerInit
  PROVE  InstallerInv
  BY InstallerAssumption, Zenon DEF InstallerInit, InstallerInv, InstallInv, Installing

\* Two entries of one version never stand in each other's way.
LEMMA EntriesDisjoint ==
  ASSUME NEW v \in Versions, NEW p \in Entries(v), NEW q \in Conflicts(p)
  PROVE  q \notin Entries(v)
  BY InstallerAssumption, Zenon DEF Entries, Conflicts

\* An entry is current, or is staged: what was installed before it stays.
LEMMA EntryInv ==
  ASSUME InstallerInv, NEW p \in Paths,
         ClearConflict(p) \/ EntryCurrent(p) \/ EntryStage(p)
  PROVE  InstallerInv'
<1> USE DEF InstallerInv, InstallInv, Installing, Installed
<1>1. CASE ClearConflict(p)
  <2>1. PICK q \in Conflicts(p) : disk' = [disk EXCEPT ![q] = None]
    BY <1>1, Zenon DEF ClearConflict
  <2>2. q \notin Entries(app) /\ q \in Paths
    BY <1>1, EntriesDisjoint, Zenon DEF ClearConflict, Conflicts
  <2>3. UNCHANGED <<app, past, pc, todo, cur, tmp, stamp>> /\ pc = "entry"
    BY <1>1, Zenon DEF ClearConflict, world
  <2>4. disk' \in [Paths -> Contents \cup {None}]
    BY <2>1, Zenon
  <2>5. \A r \in Entries(app) : disk'[r] = disk[r]
    BY <2>1, <2>2, Zenon DEF Entries
  <2> QED  BY <2>3, <2>4, <2>5, Zenon DEF Entries, Contents
<1>2. CASE EntryCurrent(p)
  BY <1>2, Zenon DEF EntryCurrent, world, files, Entries, Contents
<1>3. CASE EntryStage(p)
  <2>1. /\ UNCHANGED <<app, past, todo, disk, stamp>>
        /\ pc = "entry" /\ pc' = "stage" /\ cur' \in todo
    BY <1>3, Zenon DEF EntryStage, world
  <2>2. tmp' \in [Paths \cup {Stamp} -> Contents \cup {None, Cut} \cup Versions]
    BY <1>3, Zenon DEF EntryStage
  <2> QED  BY <2>1, <2>2, Zenon DEF Entries, Contents
<1> QED  BY <1>1, <1>2, <1>3, Zenon

\* The steps of an install: an entry counts as installed once its rename is
\* done, and the stamp is staged only when nothing is left to do.
LEMMA InstallerStepInv ==
  ASSUME InstallerInv,
         \/ CleanStaleNew \/ EntryStaged \/ EntryRename \/ EntriesDone
         \/ PruneFile \/ PruneConfig \/ StampStage \/ StampRename
  PROVE  InstallerInv'
<1> USE DEF InstallerInv, InstallInv, Installing, Installed
<1>1. CASE CleanStaleNew
  <2>1. tmp' \in [Paths \cup {Stamp} -> Contents \cup {None, Cut} \cup Versions]
    BY <1>1, Zenon DEF CleanStaleNew
  <2> QED  BY <1>1, <2>1, Zenon DEF CleanStaleNew, world, Entries, Contents
<1>2. CASE EntryStaged
  <2>1. cur \in Paths /\ Ship[app][cur] \in Contents
    BY <1>2 DEF EntryStaged, Entries, Contents
  <2>2. /\ tmp' \in [Paths \cup {Stamp} -> Contents \cup {None, Cut} \cup Versions]
        /\ tmp'[cur] = Ship[app][cur]
    BY <1>2, <2>1, Zenon DEF EntryStaged
  <2>3. /\ UNCHANGED <<app, past, todo, cur, disk, stamp>>
        /\ pc = "stage" /\ pc' = "rename"
    BY <1>2, Zenon DEF EntryStaged, world
  <2> QED  BY <2>2, <2>3, Zenon DEF Entries, Contents
<1>3. CASE EntryRename
  <2>1. /\ UNCHANGED <<app, past, stamp>> /\ pc = "rename" /\ pc' = "entry" /\ todo' = todo \ {cur}
        /\ disk' = [disk EXCEPT ![cur] = tmp[cur]] /\ tmp' = [tmp EXCEPT ![cur] = None]
    BY <1>3, Zenon DEF EntryRename, world
  <2>2. cur \in Paths /\ cur \in todo /\ tmp[cur] = Ship[app][cur] /\ Ship[app][cur] \in Contents
    <3>1. cur \in todo /\ cur \in Entries(app) /\ tmp[cur] = Ship[app][cur] /\ app \in Versions
      BY <2>1, Zenon
    <3> QED  BY <3>1, SMTT(30) DEF Entries, Contents
  <2>3. /\ disk' \in [Paths -> Contents \cup {None}]
        /\ tmp' \in [Paths \cup {Stamp} -> Contents \cup {None, Cut} \cup Versions]
    BY <2>1, <2>2, Zenon
  <2>4. \A r \in Entries(app) \ todo' : disk'[r] = Ship[app][r]
    BY <2>1, <2>2, Zenon DEF Entries
  <2> QED  BY <2>1, <2>3, <2>4, Zenon DEF Entries, Contents
<1>4. CASE EntriesDone
  BY <1>4, Zenon DEF EntriesDone, world, files, Entries, Contents
<1>5. CASE PruneFile
  <2>1. PICK q \in Orphans : disk' = [disk EXCEPT ![q] = None]
    BY <1>5, Zenon DEF PruneFile
  <2>2. q \notin Entries(app) /\ q \in Paths
    BY Zenon DEF Orphans
  <2>3. UNCHANGED <<app, past, pc, todo, cur, tmp, stamp>> /\ pc = "prune"
    BY <1>5, Zenon DEF PruneFile, world
  <2>4. disk' \in [Paths -> Contents \cup {None}]
    BY <2>1, Zenon
  <2>5. \A r \in Entries(app) : disk'[r] = disk[r]
    BY <2>1, <2>2, Zenon DEF Entries
  <2> QED  BY <2>3, <2>4, <2>5, Zenon DEF Entries, Contents
<1>6. CASE PruneConfig
  BY <1>6, Zenon DEF PruneConfig, world, Entries, Contents
<1>7. CASE StampStage
  <2>1. Installed
    BY <1>7, Zenon DEF StampStage, Orphans, Entries
  <2>2. /\ tmp' \in [Paths \cup {Stamp} -> Contents \cup {None, Cut} \cup Versions]
        /\ tmp'[Stamp] = app
    BY <1>7, Zenon DEF StampStage
  <2> QED  BY <1>7, <2>1, <2>2, Zenon DEF StampStage, world, Entries, Contents
<1>8. CASE StampRename
  <2>1. tmp' \in [Paths \cup {Stamp} -> Contents \cup {None, Cut} \cup Versions]
    BY <1>8, Zenon DEF StampRename
  <2> QED  BY <1>8, <2>1, Zenon DEF StampRename, world, Entries, Contents
<1> QED  BY <1>1, <1>2, <1>3, <1>4, <1>5, <1>6, <1>7, <1>8, Zenon

\* A launch, a fault and the user leave the tree alone; a fault ends the
\* install, and a new version is not the stamped one.
LEMMA AroundInstallInv ==
  ASSUME InstallerInv, Launch \/ Fault \/ User
  PROVE  InstallerInv'
<1> USE DEF InstallerInv, InstallInv, Installing, Installed
<1>1. CASE Launch
  BY <1>1, Zenon DEF Launch, world, files, Entries, Contents
<1>2. CASE Fault
  BY <1>2, Zenon DEF Fault, files, Entries, Contents
<1>3. CASE EnsureConfig \/ EditConfig
  BY <1>3, Zenon DEF EnsureConfig, EditConfig, world, Entries, Contents
<1>4. ASSUME NEW v \in Versions, Replace(v) PROVE InstallerInv'
  BY <1>4, InstallerAssumption, Zenon DEF Replace, files, Entries, Contents
<1> QED  BY <1>1, <1>2, <1>3, <1>4, Zenon DEF User

\* The inductive invariant of the installer holds, for every set of paths and
\* versions, and for any number of faults and replacements.
THEOREM InstallerInvariant ==
  InstallerSpec => []InstallerInv
<1>1. InstallerInit => InstallerInv
  BY InstallerInitInv, Zenon
<1>2. InstallerInv /\ [InstallerNext]_installerVars => InstallerInv'
  <2> SUFFICES ASSUME InstallerInv, [InstallerNext]_installerVars PROVE InstallerInv'
    OBVIOUS
  <2>1. CASE UNCHANGED installerVars
    BY <2>1, Zenon DEF installerVars, InstallerInv, InstallInv, Installing, Installed, Entries, Contents
  <2>2. CASE InstallStep
    BY <2>2, EntryInv, InstallerStepInv, Zenon DEF InstallStep
  <2> QED  BY <2>1, <2>2, AroundInstallInv, Zenon DEF InstallerNext
<1> QED  BY <1>1, <1>2, PTL DEF InstallerSpec

\* A program is started from exactly the tree its manifest describes, whatever
\* interrupted earlier installs, unless the user went back to an earlier version
\* (Installer.ensureInstalled): for every set of paths and versions.
THEOREM TreeIsReady ==
  InstallerSpec => []ReadyTree
<1>1. InstallerInv => ReadyTree
  BY Zenon DEF InstallerInv, Installed, ReadyTree
<1> QED  BY <1>1, InstallerInvariant, PTL
=============================================================================

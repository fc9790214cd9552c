------------------------------ MODULE Parsers -------------------------------
(***************************************************************************)
(* The parsers that read bytes from outside, each next to a reference      *)
(* definition of what it should return: the supervisor's line buffer       *)
(* (supervisor.c), the session description and its keys (sdp.c, b64.c),    *)
(* DAAP metadata (daap.c), names and SRV records of an mDNS answer         *)
(* (dacp_resolve.c), audio and control datagrams (rtp.c) and the           *)
(* configured name (raop_name.c).  Bytes are numbers and widths are scaled *)
(* down.  An input grows unit by unit, so that every input up to           *)
(* MaxLen[algo] units is met.                                              *)
(***************************************************************************)
EXTENDS LineBuffer, Datagrams, SequencesExt

CONSTANTS
  KEY_CAP,         \* size of the key buffer
  KEY_LENS,        \* lengths a key may have
  IV_LEN,          \* length of the initialisation vector
  MAX_FRAME,       \* largest frameLength
  TITLE,           \* longest title kept
  DAAP_MAX_DEPTH,
  HOPS,            \* most compression pointers followed
  DNS_MAX_NAME,
  RAOP_NAME_MAX_BYTES,
  MaxLen           \* bound: units of input, for each parser

VARIABLE algo  \* the parser; input is what it has been given

parserVars == <<algo, input, lb, evs>>

-----------------------------------------------------------------------------
\* b64_decode with 3-bit digits and 4-bit bytes (6 and 8 in the code) in an
\* 8-bit accumulator (32 in the code).
PAD == 8
WS == 9
BAD == 10

b64_init == [acc |-> 0, bits |-> 0, out |-> <<>>, n |-> 0, seen_pad |-> FALSE, err |-> FALSE]

b64_digit(r, v, cap) ==
  LET acc == (r.acc * 8 + v) % 256
      bits == r.bits + 3
      byte == (acc \div 2^(bits - 4)) % 16
      next == [r EXCEPT !.acc = acc, !.n = @ + 1]
  IN  IF bits < 4 THEN [next EXCEPT !.bits = bits]
      ELSE IF Len(r.out) >= cap THEN [next EXCEPT !.err = TRUE]
      ELSE [next EXCEPT !.bits = bits - 4, !.out = Append(@, byte)]

b64_decode(in, cap) ==
  LET Char(r, c) == IF r.err \/ c = WS THEN r
                    ELSE IF c = PAD THEN [r EXCEPT !.seen_pad = TRUE]
                    ELSE IF r.seen_pad \/ c = BAD THEN [r EXCEPT !.err = TRUE]
                    ELSE b64_digit(r, c, cap)
      r == FoldLeft(Char, b64_init, in)
  IN  [ok |-> ~r.err /\ r.n % 4 # 1, out |-> r.out]

b64_decoded_upper_bound(in) == (Len(SelectSeq(in, LAMBDA c : c \notin {PAD, WS})) * 3) \div 4

\* sdp_parse on a key attribute.
sdp_key(in, cap, lens) ==
  IF b64_decoded_upper_bound(in) > cap THEN "OVERFLOW"
  ELSE IF ~b64_decode(in, cap).ok THEN "PARSE"
  ELSE IF Len(b64_decode(in, cap).out) \notin lens THEN "KEYLEN" ELSE "OK"

\* Reference: digits, then padding; the digits are one long number.
WellFormed(in) ==
  LET text == SelectSeq(in, LAMBDA c : c # WS)
      n == Len(SelectSeq(text, LAMBDA c : c < PAD))
  IN  /\ \A i \in DOMAIN text : IF i <= n THEN text[i] < PAD ELSE text[i] = PAD
      /\ n % 4 # 1

KeyOf(in) ==
  LET digits == SelectSeq(in, LAMBDA c : c < PAD)
      value == FoldLeft(LAMBDA v, d : v * 8 + d, 0, digits)
      n == Len(digits) * 3
  IN  [k \in 1 .. n \div 4 |-> (value \div 2^(n - 4 * k)) % 16]

KeyFaithful(in) ==
  LET verdict == sdp_key(in, KEY_CAP, KEY_LENS)
  IN  /\ verdict = "OVERFLOW" <=> Len(SelectSeq(in, LAMBDA c : c \notin {PAD, WS})) * 3 >= 4 * (KEY_CAP + 1)
      /\ verdict = "PARSE" => ~WellFormed(in)
      /\ verdict \in {"KEYLEN", "OK"} => WellFormed(in) /\ b64_decode(in, KEY_CAP).out = KeyOf(in)
      /\ verdict = "OK" => Len(KeyOf(in)) \in KEY_LENS

-----------------------------------------------------------------------------
\* sdp_parse.  A line has a kind and a value, a sequence of numbers: of an m
\* line the payload type, of fmtp the payload type, the frame length and the
\* channels (the other fields are like these), of a key its base64 text.  A
\* number or list that does not parse is BAD.
find_attr(body, kind) == SelectSeq(body, LAMBDA l : l.kind = kind)

fmtp_fields_in_range(f) == f[2] > 0 /\ f[2] <= MAX_FRAME

sdp_parse(body) ==
  LET m == find_attr(body, "m")
      f == find_attr(body, "fmtp")
      rk == find_attr(body, "rsaaeskey")
      iv == find_attr(body, "aesiv")
      Key == sdp_key(rk[1].val, KEY_CAP, KEY_LENS)
  IN  IF m = <<>> \/ m[1].val = <<BAD>> \/ f = <<>> THEN "PARSE"
      ELSE IF f[1].val = <<BAD>> THEN "FMTP"
      ELSE IF f[1].val[1] # m[1].val[1] THEN "FORMAT"
      ELSE IF ~fmtp_fields_in_range(f[1].val) THEN "FMTP"
      ELSE IF f[1].val[3] # 2 THEN "FORMAT"
      ELSE IF rk = <<>> THEN "PARSE"
      ELSE IF Key # "OK" THEN Key
      ELSE IF iv = <<>> THEN "PARSE"
      ELSE sdp_key(iv[1].val, 2 * IV_LEN, {IV_LEN})

GoodKey == <<2, 5, PAD>>
GoodIv == <<2, 5, 2, 5>>

SdpLines ==
  [kind : {"m"}, val : {<<0>>, <<1>>, <<BAD>>}]
    \cup [kind : {"fmtp"}, val : {<<0, MAX_FRAME, 2>>, <<1, MAX_FRAME, 2>>, <<0, 0, 2>>,
                                 <<0, MAX_FRAME + 1, 2>>, <<0, MAX_FRAME, 1>>, <<BAD>>}]
    \cup [kind : {"rsaaeskey"}, val : {GoodKey, <<2, 5, 5>>}]
    \cup [kind : {"aesiv"}, val : {GoodIv, <<2, BAD>>}]

\* Reference: of every kind the first line counts, whatever stands around it,
\* and each must be good.
SdpFaithful(body) ==
  LET First(kind, val) == \E i \in DOMAIN body : /\ body[i].kind = kind /\ body[i].val = val
                                                 /\ \A j \in 1 .. i - 1 : body[j].kind # kind
  IN  sdp_parse(body) = "OK" <=>
        /\ \E pt \in {0, 1} : First("m", <<pt>>) /\ First("fmtp", <<pt, MAX_FRAME, 2>>)
        /\ First("rsaaeskey", GoodKey)
        /\ First("aesiv", GoodIv)

-----------------------------------------------------------------------------
\* daap_parse.  An item is a code, a length and a value, each length and code
\* one unit; MINM is the title (asar and asal are alike), ITEM any other code.
MINM == 1
ITEM == 2

\* looks_nested on the bytes p .. end - 1 of s (offsets count from 0).
looks_nested(s, p, end) == end - p >= 2 /\ s[p + 1] \in {MINM, ITEM} /\ s[p + 2] <= end - (p + 2)

take(v) == SubSeq(v, 1, IF Len(v) > TITLE THEN TITLE ELSE Len(v))

\* walk from p to end, with the title found so far.
RECURSIVE walk(_, _, _, _, _)
walk(s, p, end, title, depth) ==
  IF depth > DAAP_MAX_DEPTH \/ end - p < 2 \/ end - (p + 2) < s[p + 2] THEN title
  ELSE LET val == p + 2
           stop == val + s[p + 2]
           found == IF s[p + 1] = MINM THEN take(SubSeq(s, val + 1, stop))
                    ELSE IF stop - val >= 2 /\ looks_nested(s, val, stop)
                         THEN walk(s, val, stop, title, depth + 1) ELSE title
       IN  walk(s, stop, end, found, depth)

daap_parse(s) == walk(s, 0, Len(s), <<>>, 0)

\* What a sender encodes: items with a value (of bytes that are no code) or
\* with items inside.
Leaf(code, val) == [code |-> code, val |-> val, kids |-> <<>>]

Leaves == {Leaf(MINM, <<7>>), Leaf(MINM, <<8, 8, 8>>), Leaf(ITEM, <<9, 1>>), Leaf(ITEM, <<>>)}

Around(kids) == {[code |-> ITEM, val |-> <<>>, kids |-> k] : k \in kids}

Items == Leaves \cup Around({<<x, y>> : x, y \in Leaves})
                \cup Around({<<x, y>> : x \in Leaves, y \in Around({<<z>> : z \in Leaves})})

RECURSIVE Encoded(_)
Encoded(items) ==
  FlattenSeq([i \in DOMAIN items |->
    LET body == items[i].val \o Encoded(items[i].kids) IN <<items[i].code, Len(body)>> \o body])

\* Reference: the titles in the order they are met, down to DAAP_MAX_DEPTH.
RECURSIVE Titles(_, _)
Titles(items, depth) ==
  IF depth > DAAP_MAX_DEPTH THEN <<>>
  ELSE FlattenSeq([i \in DOMAIN items |->
         IF items[i].code = MINM THEN <<items[i].val>> ELSE Titles(items[i].kids, depth + 1)])

\* A body cut short yields the last title among the items it holds whole.
DaapFaithful(items) ==
  \A cut \in 0 .. Len(Encoded(items)) :
    LET whole == {n \in 0 .. Len(items) : Len(Encoded(SubSeq(items, 1, n))) <= cut}
        titles == Titles(SubSeq(items, 1, CHOOSE n \in whole : \A k \in whole : k <= n), 0)
    IN  daap_parse(SubSeq(Encoded(items), 1, cut)) = IF titles = <<>> THEN <<>> ELSE take(Last(titles))

-----------------------------------------------------------------------------
\* Names in an mDNS packet: a label is its length (1 or 2 here) and its bytes,
\* 0 ends the name, POINTER is followed by the offset of the rest.
POINTER == 3
RESERVED == 4
UPPER == 5
LOWER == 6
DOT == 7

At(p, i) == p[i + 1]

Lowered(s) == [i \in DOMAIN s |-> IF s[i] = UPPER THEN LOWER ELSE s[i]]

Malformed == [ok |-> FALSE, name |-> <<>>, next |-> 0]

\* Faulty variant: every pointer moves the end of the name.
NextOfLast(next, v) == v

\* *next is set once; 0 is unset.
NextOfFirst(next, v) == IF next = 0 THEN v ELSE next

\* read_name's loop at cur.
RECURSIVE read_name_at(_, _, _, _, _)
read_name_at(p, cur, out, hops, next) ==
  IF cur >= Len(p) THEN Malformed
  ELSE LET b == At(p, cur) IN
    CASE b = POINTER ->
           IF cur + 1 >= Len(p) \/ At(p, cur + 1) >= cur \/ hops >= HOPS THEN Malformed
           ELSE read_name_at(p, At(p, cur + 1), out, hops + 1, NextOfFirst(next, cur + 2))
      [] b = 0 ->
           IF Len(out) >= DNS_MAX_NAME THEN Malformed
           ELSE [ok |-> TRUE, name |-> out, next |-> IF next = 0 THEN cur + 1 ELSE next]
      [] b \in {1, 2} ->
           IF cur + 1 + b > Len(p) \/ Len(out) + b + 1 >= DNS_MAX_NAME THEN Malformed
           ELSE read_name_at(p, cur + 1 + b,
                  (IF out = <<>> THEN out ELSE Append(out, DOT)) \o Lowered(SubSeq(p, cur + 2, cur + 1 + b)),
                  hops, next)
      [] OTHER -> Malformed

read_name(p, off) == read_name_at(p, off, <<>>, 0, 0)

\* Reference: a name ends where its first root or pointer does.
RECURSIVE EndOfName(_, _)
EndOfName(p, i) == IF At(p, i) = 0 THEN i + 1 ELSE IF At(p, i) = POINTER THEN i + 2
                   ELSE EndOfName(p, i + 1 + At(p, i))

NameFaithful(p) ==
  \A off \in 0 .. Len(p) - 1 :
    LET r == read_name(p, off)
    IN  r.ok => r.next = EndOfName(p, off) /\ r.next <= Len(p) /\ Len(r.name) < DNS_MAX_NAME

\* dacp_srv_parse_response.  The header is the number of questions and of
\* records; a record is a name, type, TTL, length and data, of which the port
\* is the first unit.  0 is failure.
SRV == 1
TXT == 2

RECURSIVE AnswerFrom(_, _, _)
AnswerFrom(p, off, n) ==
  LET r == read_name(p, off)
      rdata == r.next + 3
      rdlen == At(p, r.next + 2)
  IN  IF n = 0 \/ ~r.ok \/ rdata > Len(p) \/ rdata + rdlen > Len(p) THEN 0
      ELSE IF /\ At(p, r.next) = SRV /\ rdlen >= 1 /\ At(p, r.next + 1) # 0
              /\ r.name = <<LOWER, DOT, LOWER>> /\ At(p, rdata) # 0
           THEN At(p, rdata)
      ELSE AnswerFrom(p, rdata + rdlen, n - 1)

RECURSIVE AfterQuestions(_, _, _)
AfterQuestions(p, off, qd) ==
  IF qd = 0 THEN [ok |-> TRUE, off |-> off]
  ELSE LET r == read_name(p, off)
       IN  IF ~r.ok \/ r.next + 1 > Len(p) THEN [ok |-> FALSE, off |-> 0]
           ELSE AfterQuestions(p, r.next + 1, qd - 1)

dacp_srv_parse_response(p, qd, total) ==
  LET q == AfterQuestions(p, 0, qd) IN IF q.ok THEN AnswerFrom(p, q.off, total) ELSE 0

\* What a responder sends: the question, then records whose name is the
\* owner's or shares its second label, in full or by pointers into the question.
Question == <<1, UPPER, 1, LOWER, 0, SRV>>

Records == [own : BOOLEAN, packed : BOOLEAN, type : {SRV, TXT}, ttl : {0, 1}, data : {<<>>, <<0>>, <<8>>, <<9, 9>>}]

EncodedRecord(r) ==
  (IF r.packed THEN IF r.own THEN <<POINTER, 0>> ELSE <<1, DOT, POINTER, 2>>
   ELSE <<1, IF r.own THEN UPPER ELSE DOT, 1, LOWER, 0>>)
  \o <<r.type, r.ttl, Len(r.data)>> \o r.data

Packet(records) == Question \o FlattenSeq([i \in DOMAIN records |-> EncodedRecord(records[i])])

\* Reference: the port of the first live SRV record of the owner that the
\* packet, cut anywhere, holds whole.
AnswerFaithful(records) ==
  \A cut \in 0 .. Len(Packet(records)) :
    LET hits == {i \in DOMAIN records :
                   /\ records[i].own /\ records[i].type = SRV /\ records[i].ttl # 0
                   /\ records[i].data \notin {<<>>, <<0>>}
                   /\ Len(Packet(SubSeq(records, 1, i))) <= cut}
    IN  dacp_srv_parse_response(SubSeq(Packet(records), 1, cut), 1, Len(records))
          = IF hits = {} THEN 0 ELSE records[CHOOSE i \in hits : \A j \in hits : i <= j].data[1]

-----------------------------------------------------------------------------
\* raop_name_sanitize.  A control character, dot or at sign is DROP; a letter
\* of two bytes is LEAD and CONT.
DROP == 1
BLANK == 2
LETTER == 3
LEAD == 4
CONT == 5
DEFAULT == <<LETTER, LETTER>>

Filtered(in) ==
  LET Char(r, c) == IF c = DROP THEN r
                    ELSE IF c = BLANK THEN [r EXCEPT !.pending_space = r.tmp # <<>>]
                    ELSE [tmp |-> (IF r.pending_space THEN Append(r.tmp, BLANK) ELSE r.tmp) \o <<c>>,
                          pending_space |-> FALSE]
  IN  FoldLeft(Char, [tmp |-> <<>>, pending_space |-> FALSE], in).tmp

\* The back off from a cut before a continuation byte.
RECURSIVE Boundary(_, _)
Boundary(tmp, n) == IF n > 0 /\ tmp[n + 1] = CONT THEN Boundary(tmp, n - 1) ELSE n

raop_name_sanitize(in) ==
  LET tmp == Filtered(in)
      cap == RAOP_NAME_MAX_BYTES
  IN  IF tmp = <<>> THEN DEFAULT
      ELSE SubSeq(tmp, 1, IF Len(tmp) > cap THEN Boundary(tmp, cap) ELSE Len(tmp))

\* Reference: a space where blanks stand between letters, and as many whole
\* letters of the result as fit.
NameKept(in) ==
  LET text == SelectSeq(in, LAMBDA c : c # DROP)
      IsKept(i) == text[i] # BLANK
                   \/ /\ i < Len(text) /\ text[i + 1] # BLANK
                      /\ \E j \in 1 .. i : text[j] # BLANK
      kept == SelectSeq([i \in DOMAIN text |-> i], IsKept)
      whole == {n \in 0 .. Len(kept) : n <= RAOP_NAME_MAX_BYTES /\ (n < Len(kept) => text[kept[n + 1]] # CONT)}
      most == CHOOSE n \in whole : \A k \in whole : k <= n
  IN  IF kept = <<>> THEN DEFAULT ELSE [n \in 1 .. most |-> text[kept[n]]]

-----------------------------------------------------------------------------
ParsersInit == algo \in DOMAIN MaxLen /\ LinesInit

Read(chunk) ==
  /\ algo = "lines"
  /\ Len(input) + Len(chunk) <= MaxLen[algo]
  /\ ReadChunk(chunk)
  /\ UNCHANGED algo

\* One more unit of an input that a parser is given whole.
Grow(name, units) ==
  /\ algo = name
  /\ Len(input) < MaxLen[algo]
  /\ \E u \in units : input' = input \o u
  /\ UNCHANGED <<algo, lb, evs>>

Singly(units) == {<<u>> : u \in units}

ParsersNext ==
  \/ \E chunk \in Chunks : Read(chunk)
  \/ Grow("key", Singly({2, 5, PAD, WS, BAD}))
  \/ Grow("sdp", Singly(SdpLines))
  \/ Grow("daap", Singly(Items))
  \/ Grow("dns", Singly({0, 1, 2, POINTER, RESERVED}))
  \/ Grow("answer", Singly(Records))
  \/ Grow("rtp", Singly({PLAIN, FLAGGED, AUDIO, AUDIO + MARKER, SYNC, RESENT, RESENT + MARKER}))
  \/ Grow("name", {<<DROP>>, <<BLANK>>, <<LETTER>>, <<LEAD, CONT>>})

\* Each parser returns what its reference says: the events of the control channel
\* are those of its lines however the stream is cut into reads, none lost, split
\* or made of the tail of an overlong line (supervisor.c:80); a key is accepted
\* with the bytes its text encodes and a well-formed one is never called malformed
\* (sdp.c:226);
\* a description is accepted for the first line of each kind in any order
\* (sdp.c:165); a cut or nested DAAP body gives the last whole title
\* (daap.c:20); a name ends where its first pointer does, wherever that leads,
\* and an answer gives the first live SRV record of the owner (dacp_resolve.c:58,
\* 96); a resent packet is the one that was lost and nothing but audio is taken
\* (rtp.c:44, 66); a configured name keeps its words and whole letters
\* (raop_name.c:6).
Parsed ==
  CASE algo = "lines"  -> LinesWhole
    [] algo = "key"    -> KeyFaithful(input)
    [] algo = "sdp"    -> SdpFaithful(input)
    [] algo = "daap"   -> DaapFaithful(input)
    [] algo = "dns"    -> NameFaithful(input)
    [] algo = "answer" -> AnswerFaithful(input)
    [] algo = "rtp"    -> DatagramFaithful(input)
    [] algo = "name"   -> raop_name_sanitize(input) = NameKept(input)
=============================================================================

------------------------------- MODULE MCWire --------------------------------
(***************************************************************************)
(* What raopd and the supervisor read from the network, in one instance:   *)
(* the framing of the RTSP stream, the parsers, and the timing exchange.   *)
(* The three share no state; part says which of them a behaviour is about, *)
(* and the other two rest in one initial state.                            *)
(***************************************************************************)
EXTENDS RtspFraming, Parsers, Timing

VARIABLE part

MCMaxLen ==
  [lines |-> 8, key |-> 6, sdp |-> 5, daap |-> 3, dns |-> 7, answer |-> 2, rtp |-> 5, name |-> 7]

\* A sender behind by more than the timeout, one just within it, one ahead.
MCOffsets == {-7, -4, 1}

\* The stream of the parts that have none.
NoStream == <<[hdr |-> 1, body |-> 0, kind |-> "other"]>>

MCInit ==
  /\ part \in {"framing", "parsers", "timing"}
  /\ part # "framing" => stream = NoStream
  /\ Init
  /\ ParsersInit
  /\ part # "parsers" => algo = "lines"
  /\ TimingInit
  /\ part # "timing" => net = {} /\ D = 1

MCNext ==
  /\ UNCHANGED part
  /\ \/ part = "framing" /\ Next /\ UNCHANGED <<parserVars, timingVars>>
     \/ part = "parsers" /\ ParsersNext /\ UNCHANGED <<vars, timingVars>>
     \/ part = "timing" /\ TimingNext /\ UNCHANGED <<vars, parserVars>>

\* The client sends what it has begun; raopd reads what has arrived.
MCSpec ==
  /\ MCInit
  /\ [][MCNext]_<<part, vars, parserVars, timingVars>>
  /\ WF_vars(part = "framing" /\ Receive)
  /\ WF_vars(part = "framing" /\ Drain)

\* Every request sent is handled and every body consumed, unless the connection
\* ends for a cause: no body size wedges the framing or loses a client
\* (frame_oversized, main.c:337).
FramingEnds == part = "framing" => AllHandled
=============================================================================

----------------------------- MODULE MCPlayback -----------------------------
(***************************************************************************)
(* Playback with a history variable that tells the behaviours of a good    *)
(* network and a paced sender from the others.                             *)
(***************************************************************************)
EXTENDS Playback

VARIABLE paced  \* every step so far was one of PacedNext

mcvars == <<vars, paced>>

MCInit == Init /\ paced = TRUE
MCNext == Next /\ paced' = (paced /\ PacedNext)

\* The player runs; a good network goes on delivering for as long as it is one.
MCSpec == MCInit /\ [][MCNext]_mcvars /\ WF_vars(Player) /\ WF_vars(paced /\ PacedRx)

-----------------------------------------------------------------------------
\* On a good network with a paced sender nothing is concealed and nothing jumped
\* over: pl_thread finds every packet in its slot or waits for it.
PacedClean == paced => out.kind # "silence" /\ resync_hold = 0

\* With a paced sender and no loss, the start gate opens after every FLUSH and
\* everything received is played, nothing concealed and nothing jumped over: the
\* gate (START_FILL_FRAMES) needs no more packets than the sender is willing to
\* send before it hears sound, and playback does not overtake the network.
PacedPlays ==
  /\ []PacedClean
  /\ []<>(paced => Ahead = {} /\ rx_count > 0)
=============================================================================

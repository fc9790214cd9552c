------------------------------- MODULE Playout ------------------------------
(***************************************************************************)
(* What the receive path promises the listener.  The sender numbers its    *)
(* packets by media position; a FLUSH opens a new epoch.  The player emits *)
(* one packet's worth of sound per position: the packet the sender         *)
(* numbered with that position in the current epoch, or silence for one    *)
(* that did not come.  It may skip positions.  No position is ever emitted *)
(* twice or revisited, and nothing of an old epoch is emitted in a new one.*)
(***************************************************************************)
EXTENDS Integers

VARIABLES
  epoch,  \* the number of the current epoch
  pos,    \* the next media position to emit
  out     \* the last emission: [kind, epoch, n]

pvars == <<epoch, pos, out>>

Init == epoch = 1 /\ pos \in Nat /\ out.kind = "none"

Emit ==
  /\ out'.kind \in {"data", "silence"}
  /\ out'.epoch = epoch
  /\ out'.n = pos
  /\ pos' = pos + 1
  /\ epoch' = epoch

Skip == pos' > pos /\ UNCHANGED <<epoch, out>>

NewEpoch == epoch' = epoch + 1 /\ pos' >= pos /\ out' = out

Next == Emit \/ Skip \/ NewEpoch

Spec == Init /\ [][Next]_pvars
=============================================================================

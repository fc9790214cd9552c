----------------------------- MODULE MCInstaller ----------------------------
(***************************************************************************)
(* Two versions of a payload: a is updated, b is the same in both, c is    *)
(* dropped, d is new, and the file s of version 1 is a directory in        *)
(* version 2, where sx lies in it.                                         *)
(***************************************************************************)
EXTENDS Installer

CONSTANTS a, b, c, d, s, sx

MCPaths == {a, b, c, d, s, sx}
MCVersions == {"v1", "v2"}
MCBlocks == {<<s, sx>>}
Dropped(v) == IF v = "v1" THEN {d, sx} ELSE {c, s}
MCShip ==
  [v \in MCVersions |->
    [p \in MCPaths |-> IF p \in Dropped(v) THEN None ELSE IF p = b THEN "same" ELSE v]]
=============================================================================

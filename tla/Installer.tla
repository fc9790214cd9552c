------------------------------ MODULE Installer -----------------------------
(***************************************************************************)
(* The self-install of the native payload (PayloadInstaller.java, called   *)
(* by KindletShell.installPayload): the bundled version is compared with   *)
(* the stamp and, when they differ, every file is staged as *.new, synced, *)
(* verified and renamed, files the manifest does not name are pruned, and  *)
(* the stamp is written last.  An I/O error or a power loss can fall       *)
(* between any two steps.                                                  *)
(*                                                                         *)
(* A file's contents is the hash the manifest gives it.  Renames reach the *)
(* disk in the order they were made, as on the ext3 of /var/local.         *)
(***************************************************************************)
EXTENDS Integers, FiniteSets

CONSTANTS
  Paths,       \* paths some version ships
  Versions,
  Ship,        \* Ship[v][p]: contents of p in version v, None if not shipped
  Blocks,      \* pairs <<p, q>>: q cannot exist while p is a regular file, or
               \* the other way round (one is a directory on the other's path)
  None, Cut,   \* no file; contents cut short
  MAX_FAULTS,  \* bound: I/O errors and power losses
  MAX_SWAPS    \* bound: times the user replaces the Kindlet

ASSUME InstallerAssumption ==
  /\ Ship \in [Versions -> [Paths -> (UNION {{Ship[v][p] : p \in Paths} : v \in Versions})]]
  /\ None \notin Versions /\ Blocks \subseteq Paths \X Paths
  /\ \A v \in Versions : \A b \in Blocks : None \in {Ship[v][b[1]], Ship[v][b[2]]}
  /\ MAX_FAULTS \in Nat /\ MAX_SWAPS \in Nat

VARIABLES
  app,      \* version of the Kindlet on the device
  past,     \* versions the user has replaced
  pc,       \* idle, clean, entry, stage, rename, prune, stamp, ready
  todo,     \* manifest entries still to install
  cur,      \* the entry being installed
  disk,     \* contents of each path
  tmp,      \* contents of each *.new file; Stamp stands for the stamp's
  stamp,    \* contents of .installed-version
  config,   \* the user's configuration file: None, "default" or "user"
  faults, swaps

installerVars == <<app, past, pc, todo, cur, disk, tmp, stamp, config, faults, swaps>>
Stamp == "stamp"
files == <<disk, tmp, stamp, config>>
world == <<app, past, faults, swaps>>

Entries(v) == {p \in Paths : Ship[v][p] # None}
Conflicts(p) == {q \in Paths : disk[q] # None /\ (<<p, q>> \in Blocks \/ <<q, p>> \in Blocks)}

InstallerInit ==
  /\ app \in Versions /\ past = {} /\ pc = "idle" /\ todo = {} /\ cur = None
  /\ disk = [p \in Paths |-> None] /\ tmp = [p \in Paths \cup {Stamp} |-> None]
  /\ stamp = None /\ config = None /\ faults = 0 /\ swaps = 0

-----------------------------------------------------------------------------
\* installPayload: isUpToDate trusts the stamp.

Launch ==
  /\ pc \in {"idle", "ready"}
  /\ pc' = IF stamp = app THEN "ready" ELSE "clean"
  /\ UNCHANGED <<world, todo, cur, files>>

\* install: cleanStaleNew removes what an interrupted install left staged.
CleanStaleNew ==
  /\ pc = "clean"
  /\ tmp' = [p \in DOMAIN tmp |-> None]
  /\ todo' = Entries(app) /\ pc' = "entry"
  /\ UNCHANGED <<world, cur, disk, stamp, config>>

\* installEntry, clearTypeConflicts: what stands in the way is deleted, file by
\* file.

\* Faulty variant: nothing is cleared; creating the parent directory fails.
ClearNothing(p) ==
  /\ pc = "entry" /\ p \in todo /\ Conflicts(p) # {}
  /\ pc' = "idle" /\ todo' = {} /\ cur' = None
  /\ UNCHANGED <<world, files>>

ClearConflict(p) ==
  /\ pc = "entry" /\ p \in todo
  /\ \E q \in Conflicts(p) : disk' = [disk EXCEPT ![q] = None]
  /\ UNCHANGED <<world, pc, todo, cur, tmp, stamp, config>>

\* A file that already has the manifest's hash is left alone.

\* Faulty variant: a file that exists is left alone.
EntryExists(p) ==
  /\ pc = "entry" /\ p \in todo /\ Conflicts(p) = {}
  /\ disk[p] # None
  /\ todo' = todo \ {p}
  /\ UNCHANGED <<world, pc, cur, files>>

EntryCurrent(p) ==
  /\ pc = "entry" /\ p \in todo /\ Conflicts(p) = {}
  /\ disk[p] = Ship[app][p]
  /\ todo' = todo \ {p}
  /\ UNCHANGED <<world, pc, cur, files>>

\* writeFileSynced begins: until the sync the staged file is incomplete.
EntryStage(p) ==
  /\ pc = "entry" /\ p \in todo /\ Conflicts(p) = {}
  /\ disk[p] # Ship[app][p]
  /\ tmp' = [tmp EXCEPT ![p] = Cut]
  /\ cur' = p /\ pc' = "stage"
  /\ UNCHANGED <<world, todo, disk, stamp, config>>

\* The data is synced, its hash verified and its mode set.

EntryStaged ==
  /\ pc = "stage"
  /\ tmp' = [tmp EXCEPT ![cur] = Ship[app][cur]]
  /\ pc' = "rename"
  /\ UNCHANGED <<world, todo, cur, disk, stamp, config>>

EntryRename ==
  /\ pc = "rename"
  /\ disk' = [disk EXCEPT ![cur] = tmp[cur]] /\ tmp' = [tmp EXCEPT ![cur] = None]
  /\ todo' = todo \ {cur} /\ cur' = None /\ pc' = "entry"
  /\ UNCHANGED <<world, stamp, config>>

EntriesDone ==
  /\ pc = "entry" /\ todo = {}
  /\ pc' = "prune"
  /\ UNCHANGED <<world, todo, cur, files>>

\* pruneOrphans: every file the manifest does not name goes, one by one; the
\* configuration lives in the same directory and no manifest names it.
Orphans == {p \in Paths : disk[p] # None /\ p \notin Entries(app)}

PruneFile ==
  /\ pc = "prune"
  /\ \E p \in Orphans : disk' = [disk EXCEPT ![p] = None]
  /\ UNCHANGED <<world, pc, todo, cur, tmp, stamp, config>>

PruneConfig ==
  /\ pc = "prune" /\ config # None
  /\ config' = None
  /\ UNCHANGED <<world, pc, todo, cur, disk, tmp, stamp>>

\* The stamp is staged and synced, then renamed.
StampStage ==
  /\ pc = "prune" /\ Orphans = {} /\ config = None
  /\ tmp' = [tmp EXCEPT ![Stamp] = app] /\ pc' = "stamp"
  /\ UNCHANGED <<world, todo, cur, disk, stamp, config>>

StampRename ==
  /\ pc = "stamp"
  /\ stamp' = tmp[Stamp] /\ tmp' = [tmp EXCEPT ![Stamp] = None]
  /\ pc' = "ready"
  /\ UNCHANGED <<world, todo, cur, disk, config>>

-----------------------------------------------------------------------------
\* An I/O error throws out of install, a power loss ends everything: both leave
\* the disk as it is.
Fault ==
  /\ pc \notin {"idle", "ready"} /\ faults < MAX_FAULTS
  /\ faults' = faults + 1 /\ pc' = "idle" /\ todo' = {} /\ cur' = None
  /\ UNCHANGED <<app, past, swaps, files>>

\* The user puts another Kindlet on the device, between two launches.
Replace(v) ==
  /\ pc \in {"idle", "ready"} /\ swaps < MAX_SWAPS
  /\ v # app
  /\ app' = v /\ past' = past \cup {app} /\ swaps' = swaps + 1 /\ pc' = "idle"
  /\ UNCHANGED <<todo, cur, files, faults>>

\* airplay_config_ensure on every start of the receiver, and airplay-wifi or
\* the user's editor.
EnsureConfig ==
  /\ pc = "ready" /\ config = None
  /\ config' = "default"
  /\ UNCHANGED <<world, pc, todo, cur, disk, tmp, stamp>>

EditConfig ==
  /\ pc \in {"idle", "ready"} /\ config = "default"
  /\ config' = "user"
  /\ UNCHANGED <<world, pc, todo, cur, disk, tmp, stamp>>

InstallStep ==
  \/ CleanStaleNew \/ EntryStaged \/ EntryRename \/ EntriesDone
  \/ \E p \in Paths : ClearConflict(p) \/ EntryCurrent(p) \/ EntryStage(p)
  \/ PruneFile \/ PruneConfig \/ StampStage \/ StampRename
User == EnsureConfig \/ EditConfig \/ \E v \in Versions : Replace(v)
InstallerNext == Launch \/ InstallStep \/ Fault \/ User
InstallerSpec == InstallerInit /\ [][InstallerNext]_installerVars

\* The Kindlet is opened again after a failure, and an install that is not
\* interrupted goes on.
InstallerFairSpec == InstallerSpec /\ WF_installerVars(Launch) /\ WF_installerVars(InstallStep)

-----------------------------------------------------------------------------
Contents == UNION {{Ship[v][p] : p \in Paths} : v \in Versions}

\* The types: an installed file is whole, the contents some version gives it,
\* and no path is a file and a directory at once.
InstallerTypeOK ==
  /\ app \in Versions /\ past \subseteq Versions
  /\ pc \in {"idle", "clean", "entry", "stage", "rename", "prune", "stamp", "ready"}
  /\ todo \subseteq Paths /\ cur \in Paths \cup {None}
  /\ tmp \in [Paths \cup {Stamp} -> Contents \cup {None, Cut} \cup Versions]
  /\ stamp \in Versions \cup {None} /\ config \in {None, "default", "user"}
  /\ disk \in [Paths -> Contents \cup {None}]
  /\ \A b \in Blocks : None \in {disk[b[1]], disk[b[2]]}

\* A program is only ever started from exactly the tree its manifest describes:
\* every file in the shipped version, nothing left over, whatever interrupted
\* earlier installs ("the install is fail-closed").  A user who has gone back to
\* an earlier version is excepted: its stamp is still there while a later
\* version's install is cut short, and isUpToDate trusts it.
ReadyTree == pc = "ready" /\ app \notin past => \A p \in Paths : disk[p] = Ship[app][p]

\* An interrupted install, or a directory where a file must go, never wedges
\* the device: opening the Kindlet again ends in an installed version.
Recovers == (pc = "clean") ~> (pc = "ready")

\* A user's configuration is changed by the user only ("Never overwrite a user's
\* config", airplay-lib.sh).  pruneOrphans does not keep it so.
ConfigKept == [][config = "user" => config' = "user"]_installerVars
=============================================================================

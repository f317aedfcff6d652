---------------------------- MODULE ExclusiveLock ----------------------------
(***************************************************************************)
(* What the ingest lock promises: it has at most one owner, a live owner   *)
(* keeps it until it gives it up itself, and only what a dead owner left   *)
(* behind may be discarded.  (ADR robustness-patterns: "auto-deleting a    *)
(* lock without knowing whether the previous process is truly dead risks   *)
(* concurrent mutation".)                                                  *)
(***************************************************************************)
CONSTANTS Procs, None

VARIABLES
  owner,  \* the run that owns the lock, or None
  dead    \* the runs that were killed

vars == <<owner, dead>>

Init == owner = None /\ dead = {}

Take(p) ==
  /\ owner = None /\ p \notin dead
  /\ owner' = p
  /\ dead' = dead

GiveUp(p) ==
  /\ owner = p /\ p \notin dead
  /\ owner' = None
  /\ dead' = dead

Discard ==
  /\ owner \in dead
  /\ owner' = None
  /\ dead' = dead

Die(p) ==
  /\ p \notin dead
  /\ dead' = dead \cup {p}
  /\ owner' = owner

Next == Discard \/ \E p \in Procs : Take(p) \/ GiveUp(p) \/ Die(p)

Spec == Init /\ [][Next]_vars
===============================================================================

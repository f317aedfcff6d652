----------------------------- MODULE MCIngestLock -----------------------------
(* Instances of IngestLock for TLC.                                        *)
EXTENDS IngestLock, TLC

Symmetry == Permutations(Procs)
===============================================================================

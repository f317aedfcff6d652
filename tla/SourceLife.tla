------------------------------ MODULE SourceLife ------------------------------
(***************************************************************************)
(* What `kb ingest` promises about the files it is given, and nothing of   *)
(* how: a file in raw/ is archived once, never deleted and never put back; *)
(* it counts as ingested only when it is out of raw/; it is set aside as a *)
(* duplicate only of a file that counts as ingested.                       *)
(***************************************************************************)
CONSTANTS
  Files,    \* documents that may be ingested, each a content at a path
  Outside,  \* those that are not under raw/
  Hash      \* the content of each file

VARIABLES
  place,    \* where each file is
  ingested  \* the files that count as ingested

vars == <<place, ingested>>

Init == /\ place \in [Files -> {"absent", "raw", "outside"}]
        /\ \A f \in Files : place[f] = "outside" <=> f \in Outside
        /\ ingested = {}

Move(f, from, to) == place[f] = from /\ place' = [place EXCEPT ![f] = to]

Arrive(f) == Move(f, "absent", "raw") /\ UNCHANGED ingested

Keep(f) == Move(f, "raw", "processed") /\ UNCHANGED ingested

Count(f) == /\ place[f] \in {"processed", "outside"}
            /\ ingested' = ingested \cup {f}
            /\ UNCHANGED place

SetAside(f) == /\ \E g \in ingested : Hash[g] = Hash[f]
               /\ Move(f, "raw", "duplicates")
               /\ UNCHANGED ingested

Next == \E f \in Files : Arrive(f) \/ Keep(f) \/ Count(f) \/ SetAside(f)

Spec == Init /\ [][Next]_vars
===============================================================================

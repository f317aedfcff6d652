------------------------------ MODULE NoteLife ------------------------------
(***************************************************************************)
(* What reorganising the library promises about the notes, and nothing of  *)
(* how: a note is never lost, an id never comes to name two notes, and a   *)
(* note is replaced only by one that there is.                             *)
(***************************************************************************)
CONSTANTS
  Notes,  \* the notes, by what they say
  Topics,
  Ids

VARIABLES
  places,   \* the <<topic, id>> where a file holds each note
  replaced  \* the <<id, id>> of notes and of what has replaced them

vars == <<places, replaced>>

Init == places = [n \in Notes |-> {}] /\ replaced = {}

Put(n, topic, id) ==
  /\ \A o \in Notes \ {n} : \A p \in places[o] : p[2] # id
  /\ places' = [places EXCEPT ![n] = @ \cup {<<topic, id>>}]
  /\ UNCHANGED replaced

Drop(n, topic, id) ==
  /\ \E p \in places[n] \ {<<topic, id>>} : p[2] = id
  /\ places' = [places EXCEPT ![n] = @ \ {<<topic, id>>}]
  /\ UNCHANGED replaced

Replace(id, by) ==
  /\ \E n \in Notes : \E p \in places[n] : p[2] = by
  /\ replaced' = {r \in replaced : r[1] # id} \cup {<<id, by>>}
  /\ UNCHANGED places

Next ==
  \/ \E n \in Notes, topic \in Topics, id \in Ids : Put(n, topic, id) \/ Drop(n, topic, id)
  \/ \E id, by \in Ids : Replace(id, by)

Spec == Init /\ [][Next]_vars
===============================================================================

----------------------------- MODULE ReviewLife -----------------------------
(***************************************************************************)
(* What the review queue promises about a question it was given, and       *)
(* nothing of how: it is asked once and never forgotten; it is accepted    *)
(* only after what it proposes has been done, and only while it is open is *)
(* that done; a rejected one comes back only if it is of a kind that a     *)
(* later scan may raise again.                                             *)
(***************************************************************************)
CONSTANTS
  Keys,       \* the questions, by their fingerprints
  Effectless, \* those whose acceptance changes no note
  Recurring   \* those that a later scan may raise again

VARIABLES
  status,  \* none, open, accepted or rejected
  applied  \* the questions whose proposal has been carried out

vars == <<status, applied>>

Init == status = [k \in Keys |-> "none"] /\ applied = Effectless

Turn(k, from, to) == status[k] = from /\ status' = [status EXCEPT ![k] = to]

Ask(k)    == Turn(k, "none", "open") /\ UNCHANGED applied
Apply(k)  == status[k] = "open" /\ applied' = applied \cup {k} /\ UNCHANGED status
Accept(k) == k \in applied /\ Turn(k, "open", "accepted") /\ UNCHANGED applied
Reject(k) == Turn(k, "open", "rejected") /\ UNCHANGED applied
Reopen(k) == k \in Recurring /\ Turn(k, "rejected", "open") /\ UNCHANGED applied

Next == \E k \in Keys : Ask(k) \/ Apply(k) \/ Accept(k) \/ Reject(k) \/ Reopen(k)

Spec == Init /\ [][Next]_vars
===============================================================================

---------------------------- MODULE MCReviewQueue ----------------------------
(* Instances of ReviewQueue for TLC.                                       *)
EXTENDS ReviewQueue, TLC

CONSTANTS c1, c2, m, d, s, g, h, n1, n2

(* c1 and c2 are of one queue, so they compete for ids.                    *)
KindOf == [k \in Keys |-> CASE k \in {c1, c2} -> "classification" [] k = m -> "merge"
                            [] k = d -> "dispute" [] k = s -> "searchmiss"
                            [] k = g -> "cluster" [] k = h -> "hygiene"]
Named == [k \in Keys |-> IF k \in {m, d} THEN {n1, n2} ELSE {}]
===============================================================================

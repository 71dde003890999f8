---------------------------- MODULE AdmissionMC ----------------------------
(***************************************************************************)
(* A small instance of Admission: three generations of one key, two of     *)
(* them streams, and a reader; a generation of another key; one model.     *)
(***************************************************************************)
EXTENDS Admission

CONSTANTS k1, k2, g1, g2, g3, g4, reader, global, m1

KeyOfRequest == [r \in Requests |-> IF r = g4 THEN k2 ELSE k1]
\* The reader names no model.
ChargedBuckets == [r \in Requests |->
    {global, KeyOfRequest[r]} \cup (IF r = reader THEN {} ELSE {m1})]
\* A model's bucket is the smallest, as it is by default.
Capacities == [b \in Buckets |-> IF b \in {m1, k2} THEN 1 ELSE 2]
\* k2 has a limit of its own and no quota.
OwnLimits == [k \in Keys |-> IF k = k2 THEN 1 ELSE 0]
Budgets == [k \in Keys |-> IF k = k1 THEN 1 ELSE 0]
\* A reload sets the limit on requests to zero, which counts as one, and the limit on
\* streams, which counts as none.
TwoPolicies == {[requests |-> 2, streams |-> 1], [requests |-> 0, streams |-> 0]}

=============================================================================

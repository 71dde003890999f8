----------------------------- MODULE DispatchMC -----------------------------
(***************************************************************************)
(* Small instances of Dispatch: which nodes have the model a request asks  *)
(* for.                                                                    *)
(***************************************************************************)
EXTENDS Dispatch

CONSTANTS n1, n2, r1, r2, r3

EveryNode == [r \in Requests |-> Nodes]
\* Only n1 has the model r2 asks for.
OneModelRare == [r \in Requests |-> IF r = r2 THEN {n1} ELSE Nodes]

=============================================================================

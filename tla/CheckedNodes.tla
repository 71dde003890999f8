---------------------------- MODULE CheckedNodes ----------------------------
(***************************************************************************)
(* What the health checks promise the rest of the gateway about the states *)
(* of the nodes.  A round touches only nodes that agreed to be checked,    *)
(* and whoever runs a check, a node goes only where CheckTargets lets a    *)
(* verdict take it.  Nothing is said of why.                               *)
(***************************************************************************)
EXTENDS CheckVerdicts

CONSTANT Nodes

VARIABLES
    status,   \* per node: its state in the registry
    by        \* who moved last: "registry", "round" or "forced"

checkedVars == <<status, by>>

AnyVerdict == {"skipped", "active", "inconclusive", "broken"}
Reachable(st) ==
    {IF target = "keep" THEN st ELSE target : target \in UNION {CheckTargets(st, v) : v \in AnyVerdict}}

Init == status \in [Nodes -> NodeState] /\ by = "registry"

\* A round moves what it has checked at once, and nothing that did not agree to checks.
Round ==
    /\ by' = "round"
    /\ status' \in [Nodes -> NodeState]
    /\ \A n \in Nodes : status'[n] # status[n] =>
          status[n] \in ActiveHealthCheckStates /\ status'[n] \in Reachable(status[n])

\* A forced check moves one node, from whatever state.
Forced(n) ==
    /\ by' = "forced"
    /\ \E st \in Reachable(status[n]) : status' = [status EXCEPT ![n] = st]

\* The handlers of the registry, which are NodeRegistry's subject.
Registry(n) ==
    /\ by' = "registry"
    /\ \E st \in NodeState : status' = [status EXCEPT ![n] = st]

Next == Round \/ \E n \in Nodes : Forced(n) \/ Registry(n)

Spec == Init /\ [][Next]_checkedVars

=============================================================================

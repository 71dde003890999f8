--------------------------- MODULE CheckVerdicts ---------------------------
(***************************************************************************)
(* The states of a node and what one run of the health checks may do to    *)
(* them, whatever the checks measured: the registry's own view of a run.   *)
(* HealthCheck shows how the measurements lead there.                      *)
(***************************************************************************)
EXTENDS Naturals

NodeState == {"candidate", "pending_consent", "consent_challenge_sent",
              "verified", "healthy", "degraded", "unhealthy", "draining",
              "quarantined", "blacklisted", "revoked"}
RoutableStates == {"verified", "healthy", "degraded"}
ActiveHealthCheckStates == RoutableStates \cup {"unhealthy", "draining"}

Severity == [st \in NodeState |->
    CASE st \in {"candidate", "pending_consent", "consent_challenge_sent"} -> 0
      [] st \in {"verified", "healthy"} -> 1
      [] st = "draining" -> 2
      [] st = "degraded" -> 3
      [] st = "unhealthy" -> 4
      [] st = "quarantined" -> 5
      [] st = "revoked" -> 6
      [] st = "blacklisted" -> 7]

\* The state the strongest signal of the run leads to ("keep": no signal and no
\* recovery).  401/403 and failure counters may come with any verdict.
CheckTargets(st, verdict) ==
    IF verdict = "broken" THEN {"blacklisted", "quarantined"}
    ELSE {"blacklisted", "unhealthy", "degraded", "keep"} \cup
         IF /\ verdict \in {"skipped", "active"}
            /\ Severity[st] > Severity["verified"]
            /\ st # "draining"
         THEN {"verified"} ELSE {}

=============================================================================

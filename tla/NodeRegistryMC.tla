--------------------------- MODULE NodeRegistryMC ---------------------------
(***************************************************************************)
(* Small instances of NodeRegistry: which coroutines run, in which process,*)
(* and which operations each performs.                                     *)
(***************************************************************************)
EXTENDS NodeRegistry

CONSTANTS n1, n2, p1, p2, a, b, c, r1

OneEndpoint == [n \in Nodes |-> "e"]          \* every id registers the same address
OneProcess == [x \in Workers \cup Requests |-> p1]
\* The gateway that runs the loops, and a replica.
TwoProcesses == [x \in Workers \cup Requests |-> IF x = c THEN p1 ELSE p2]

AdminOps == {"enroll", "verify", "revoke", "blacklist", "lift", "drain", "undrain",
             "delete", "force", "expire"}

\* One handler at a time: all of them, and rounds of the check loop.
SequentialJobs == [w \in Workers |-> AdminOps \cup {"check"}]

\* An owner and an administrator racing the loops.
RaceJobs == [w \in Workers |->
    IF w = a THEN {"enroll", "verify", "revoke", "blacklist", "undrain", "delete"}
             ELSE {"check", "expire"}]

\* An owner, the health loop, and requests some node refuses.
DispatchJobs == [w \in Workers |->
    IF w = a THEN {"enroll", "verify", "revoke"} ELSE {"check", "autoban"}]

\* A replica that serves the admin API next to its registry loop (b), and the
\* gateway that ends lapsed consents (c).
LiveJobs == [w \in Workers |->
    CASE w = a -> {"enroll", "verify", "revoke"}
      [] w = b -> {"sync"}
      [] w = c -> {"expire"}]

BanJobs == [w \in Workers |-> {"enroll", "verify", "blacklist"}]
DrainJobs == [w \in Workers |-> {"enroll", "verify", "drain", "check"}]
RevokeJobs == [w \in Workers |->
    IF w = a THEN {"enroll", "verify"} ELSE {"revoke"}]

=============================================================================

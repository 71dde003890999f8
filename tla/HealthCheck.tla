---------------------------- MODULE HealthCheck ----------------------------
(***************************************************************************)
(* The health checker of one process: rounds over all nodes in one         *)
(* transaction, timers that live in memory and outlive a round that fails, *)
(* failure counters that live in the rows and do not, and the checks an    *)
(* administrator forces between rounds.                                    *)
(*                                                                         *)
(* What a check finds follows from the state of the node in the world.     *)
(* How handlers and rounds interleave on one row is NodeRegistry's         *)
(* subject: here they act between rounds.                                  *)
(***************************************************************************)
EXTENDS CheckVerdicts, FiniteSets

CONSTANTS
    Checked,         \* the nodes
    Every,           \* per kind of check: its interval, in rounds
    LiveLimit,       \* liveness_failure_threshold
    ReadyLimit,      \* readiness_failure_threshold
    Functional,      \* nodes whose owner allows the functional check
    Handled,         \* states the registry's handlers give
    MaxFaults        \* bound on failing rounds and restarts

Kinds == {"live", "ready", "consent", "functional"}

ASSUME HealthAssumption ==
    /\ Every \in [Kinds -> Nat \ {0}]
    /\ LiveLimit \in Nat \ {0} /\ ReadyLimit \in Nat \ {0}
    /\ Functional \subseteq Checked /\ Handled \subseteq NodeState
    /\ MaxFaults \in Nat

VARIABLES
    row,      \* per node: state and failure counters, as committed
    draft,    \* per node: the same, as the round in progress would commit it
    since,    \* per node and kind: rounds since the check last ran, in memory
    todo,     \* nodes the round has still to look at
    inRound,
    world,    \* per node: what it answers, and whether its consent stands
    last,     \* who moved a state last
    faults

healthVars == <<row, draft, since, todo, inRound, world, last, faults>>

Checkables == [status : NodeState, live : 0 .. LiveLimit, ready : 0 .. ReadyLimit]
\* "all" of the API, only its "version", nothing, or refusals.
Answers == {"all", "version", "nothing", "denied"}
\* The proof still stands, was withdrawn at the node, or the consent ended at the gateway.
Consents == {"given", "withdrawn", "ended"}

HealthTypeOK ==
    /\ row \in [Checked -> Checkables] /\ draft \in [Checked -> Checkables]
    /\ since \in [Checked -> [Kinds -> Nat]]
    /\ \A n \in Checked, k \in Kinds : since[n][k] <= Every[k]
    /\ todo \subseteq Checked /\ inRound \in BOOLEAN
    /\ world \in [Checked -> [answers : Answers, consent : Consents]]
    /\ last \in {"registry", "round", "forced"} /\ faults \in 0 .. MaxFaults

HealthInit ==
    /\ row = [n \in Checked |-> [status |-> "verified", live |-> 0, ready |-> 0]]
    /\ draft = row
    /\ since = [n \in Checked |-> Every]
    /\ todo = {} /\ inRound = FALSE
    /\ world = [n \in Checked |-> [answers |-> "all", consent |-> "given"]]
    /\ last = "registry" /\ faults = 0

-----------------------------------------------------------------------------
(* One run over one node                                                    *)

\* Mutant: a proof that is gone counts as one that could not be fetched.
VerdictLenient(n) ==
    CASE world[n].consent = "ended" -> "broken"
      [] world[n].consent = "given" /\ world[n].answers \in {"all", "version"} -> "active"
      [] OTHER -> "inconclusive"

\* _consent_status, with the file of the node itself as the proof: a node that does not
\* answer proves nothing, one that refuses or has lost the file breaks the consent.
VerdictOn(n) ==
    CASE world[n].consent = "ended" -> "broken"
      [] world[n].consent # "ended" /\ world[n].answers = "nothing" -> "inconclusive"
      [] world[n].consent = "withdrawn" /\ world[n].answers # "nothing" -> "broken"
      [] world[n].consent = "given" /\ world[n].answers = "denied" -> "broken"
      [] OTHER -> "active"

\* The result of each kind of check: "ok", "fail" or "auth".
Result(n, k) ==
    CASE k = "consent" -> IF VerdictOn(n) = "active" THEN "ok" ELSE "fail"
      [] k # "consent" /\ world[n].answers = "denied" -> "auth"
      [] k # "consent" /\ world[n].answers = "nothing" -> "fail"
      [] k \in {"ready", "functional"} /\ world[n].answers = "version" -> "fail"
      [] OTHER -> "ok"

\* Mutant: the counter starts again when it has reached the threshold.
TallyWrapping(n, due, k, count, limit) ==
    IF k \notin due THEN count ELSE IF Result(n, k) = "ok" \/ count = limit - 1 THEN 0 ELSE count + 1

\* The counter of a kind after the run; at the threshold more failures change nothing.
Tally(n, due, k, count, limit) ==
    IF k \notin due THEN count
    ELSE IF Result(n, k) = "ok" THEN 0
    ELSE IF count < limit THEN count + 1 ELSE count

Tallied(n, due, before) ==
    [before EXCEPT !.live = Tally(n, due, "live", @, LiveLimit),
                   !.ready = Tally(n, due, "ready", @, ReadyLimit)]

\* The signals of the checks that ran, and those of the passive window.
Signals(n, due, before, passive) ==
    LET tallied == Tallied(n, due, before) IN
    passive
    \cup {st \in {"blacklisted"} : \E k \in due : Result(n, k) = "auth"}
    \cup {st \in {"quarantined"} : "consent" \in due /\ VerdictOn(n) = "broken"}
    \cup {st \in {"unhealthy"} : "live" \in due /\ Result(n, "live") = "fail" /\ tallied.live = LiveLimit}
    \cup {st \in {"degraded"} : "ready" \in due /\ Result(n, "ready") = "fail" /\ tallied.ready = ReadyLimit}

\* _PRIORITY_*: the strongest signal wins.
Priority == [st \in {"blacklisted", "quarantined", "unhealthy", "degraded"} |->
    CASE st = "blacklisted" -> 40 [] st = "quarantined" -> 30 [] st = "unhealthy" -> 20 [] st = "degraded" -> 10]
Strongest(signals) == CHOOSE s \in signals : \A t \in signals : Priority[t] <= Priority[s]

\* Mutant: a state stronger than verified is left whatever it was.
RecoversDraining(n, due, st) ==
    due # {} /\ (\A k \in due : Result(n, k) = "ok") /\ Severity[st] > Severity["verified"]

\* recovered: some check ran, every one that ran passed.  One that was not due has no say.
Recovers(n, due, st) ==
    /\ due # {} /\ \A k \in due : Result(n, k) = "ok"
    /\ Severity[st] > Severity["verified"] /\ st # "draining"

\* check_node's writes to the row: the counters, and one transition for all signals.
AfterRun(n, due, before, passive) ==
    LET tallied == Tallied(n, due, before)
        signals == Signals(n, due, before, passive)
    IN  IF signals # {} THEN [tallied EXCEPT !.status = Strongest(signals)]
        ELSE IF Recovers(n, due, before.status) THEN [tallied EXCEPT !.status = "verified"]
        ELSE tallied

\* _blacklist ends the consent of the nodes it bans.
Banning(banned) == [n \in Checked |-> IF n \in banned THEN [world[n] EXCEPT !.consent = "ended"] ELSE world[n]]

Offered(n) == IF n \in Functional THEN Kinds ELSE Kinds \ {"functional"}
DueIn(n) == {k \in Offered(n) : since[n][k] >= Every[k]}
\* The timers of the checks that ran start again.
Restarted(n, due) == [since EXCEPT ![n] = [k \in Kinds |-> IF k \in due THEN 0 ELSE @[k]]]

-----------------------------------------------------------------------------
(* Rounds                                                                   *)

\* run_forever has waited one liveness interval and check_all lists the nodes.
StartRound ==
    /\ ~inRound
    /\ inRound' = TRUE
    /\ draft' = row
    /\ todo' = {n \in Checked : row[n].status \notin {"blacklisted", "revoked"}}
    /\ since' = [n \in Checked |-> [k \in Kinds |->
                    IF since[n][k] < Every[k] THEN since[n][k] + 1 ELSE since[n][k]]]
    /\ UNCHANGED <<row, world, last, faults>>

\* check_node, unforced: a node whose state does not allow checks is passed over.
CheckInRound(n) ==
    /\ inRound /\ n \in todo
    /\ todo' = todo \ {n}
    /\ IF draft[n].status \in ActiveHealthCheckStates
       THEN /\ draft' = [draft EXCEPT ![n] = AfterRun(n, DueIn(n), @, {})]
            /\ since' = Restarted(n, DueIn(n))
       ELSE UNCHANGED <<draft, since>>
    /\ UNCHANGED <<row, inRound, world, last, faults>>

CommitRound ==
    /\ inRound /\ todo = {}
    /\ row' = draft /\ inRound' = FALSE /\ last' = "round"
    /\ world' = Banning({n \in Checked : draft[n].status = "blacklisted" /\ row[n].status # "blacklisted"})
    /\ UNCHANGED <<draft, since, todo, faults>>

\* An exception, for one node or in the commit, rolls all rows back; the timers stay.
FailRound ==
    /\ inRound /\ faults < MaxFaults
    /\ faults' = faults + 1
    /\ draft' = row /\ todo' = {} /\ inRound' = FALSE
    /\ UNCHANGED <<row, since, world, last>>

\* A restart loses the round and the timers.
Restart ==
    /\ faults < MaxFaults
    /\ faults' = faults + 1
    /\ draft' = row /\ todo' = {} /\ inRound' = FALSE
    /\ since' = [n \in Checked |-> Every]
    /\ UNCHANGED <<row, world, last>>

-----------------------------------------------------------------------------
(* Administrators, handlers, the world                                      *)

\* The passive window of the runtime the caller passed, if it has one: 401/403, a high
\* error rate or a streak of timeouts, seen from the runtime's own state.
PassiveSignals == {{}, {"blacklisted"}, {"degraded"}, {"unhealthy"}}

\* force_check: every check runs, whatever the state of the node.
ForceCheck(n) ==
    /\ ~inRound
    /\ \E passive \in PassiveSignals :
          /\ row' = [row EXCEPT ![n] = AfterRun(n, Offered(n), @, passive)]
          /\ world' = Banning({m \in {n} : "blacklisted" \in Signals(m, Offered(m), row[m], passive)})
    /\ draft' = row'
    /\ since' = Restarted(n, Offered(n))
    /\ last' = "forced"
    /\ UNCHANGED <<todo, inRound, faults>>

\* A handler of the registry moves the node and leaves its counters.
Handle(n) ==
    /\ ~inRound
    /\ \E st \in Handled : row' = [row EXCEPT ![n].status = st]
    /\ draft' = row'
    /\ last' = "registry"
    /\ UNCHANGED <<since, todo, inRound, world, faults>>

Change(n) ==
    /\ \E a \in Answers, c \in Consents : world' = [world EXCEPT ![n] = [answers |-> a, consent |-> c]]
    /\ UNCHANGED <<row, draft, since, todo, inRound, last, faults>>

HealthNext ==
    \/ StartRound \/ CommitRound \/ FailRound \/ Restart
    \/ \E n \in Checked : CheckInRound(n) \/ ForceCheck(n) \/ Handle(n) \/ Change(n)

\* The loop goes on and its rounds come to an end.
HealthFair ==
    /\ WF_healthVars(StartRound)
    /\ WF_healthVars(CommitRound)
    /\ \A n \in Checked : WF_healthVars(CheckInRound(n))

HealthSpec == HealthInit /\ [][HealthNext]_healthVars /\ HealthFair

-----------------------------------------------------------------------------
(* Properties                                                               *)

\* The rounds and forced checks do what CheckedNodes promises of them: a state changes
\* only on a commit, only from a state that may be checked (forced ones aside), and only
\* to a target of its verdict (check_node, check_all).
Promise == INSTANCE CheckedNodes WITH
    Nodes <- Checked, status <- [n \in Checked |-> row[n].status], by <- last
KeepsPromise == Promise!Spec

\* A node that stops answering for good is taken out, again and again if handlers bring
\* it back, whatever was checked, forced, rolled back or restarted before
\* (liveness_failure_threshold).
DeadNodeLeaves ==
    \A n \in Checked : <>[](world[n].answers = "nothing") => []<>(row[n].status \notin RoutableStates)

\* An owner who withdraws the consent file, or whose consent has ended, gets the node
\* taken out although it answers every other check (consent_recheck_interval_seconds).
WithdrawalLeaves ==
    \A n \in Checked :
        <>[](world[n].answers = "all" /\ world[n].consent # "given") => []<>(row[n].status \notin RoutableStates)

\* A round does not call a node verified while its last readiness checks failed.  It
\* does: see the README.
RecoveryReflectsChecks ==
    [][\A n \in Checked : last' = "round" /\ row[n].status # "verified" /\ row'[n].status = "verified" =>
          row'[n].ready < ReadyLimit]_healthVars

=============================================================================

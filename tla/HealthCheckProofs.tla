------------------------- MODULE HealthCheckProofs -------------------------
(***************************************************************************)
(* Proof that HealthCheck implements CheckedNodes, for any nodes,          *)
(* intervals, thresholds and faults: the safety the registry relies on,    *)
(* whatever rounds fail, restart or are mixed with forced checks.          *)
(***************************************************************************)
EXTENDS HealthCheck, TLAPS

SignalStates == {"blacklisted", "quarantined", "unhealthy", "degraded"}

\* Why a round may commit its draft: what it has changed so far it was allowed to, and
\* what it has still to look at it has not touched.
DraftKept ==
    /\ \A n \in Checked : draft[n].status # row[n].status =>
          row[n].status \in ActiveHealthCheckStates /\ draft[n].status \in Promise!Reachable(row[n].status)
    /\ \A n \in todo : draft[n] = row[n]

HealthInv == HealthTypeOK /\ DraftKept

-----------------------------------------------------------------------------
(* One run                                                                  *)

LEMMA PromisedStates ==
    /\ Promise!NodeState = NodeState
    /\ Promise!ActiveHealthCheckStates = ActiveHealthCheckStates
BY DEF Promise!NodeState, NodeState, Promise!ActiveHealthCheckStates, ActiveHealthCheckStates,
   Promise!RoutableStates, RoutableStates

LEMMA ReachableStates ==
    ASSUME NEW st \in NodeState
    PROVE  /\ SignalStates \cup {st} \subseteq Promise!Reachable(st)
           /\ Severity[st] > Severity["verified"] /\ st # "draining" => "verified" \in Promise!Reachable(st)
<1>1. /\ Promise!CheckTargets(st, "broken") = {"blacklisted", "quarantined"}
      /\ {"blacklisted", "unhealthy", "degraded", "keep"} \subseteq Promise!CheckTargets(st, "active")
  BY DEF Promise!CheckTargets
<1>2. Severity[st] > Severity["verified"] /\ st # "draining" => "verified" \in Promise!CheckTargets(st, "active")
  BY DEF Promise!CheckTargets, Promise!Severity, Severity, Promise!NodeState, NodeState
<1>3. {"active", "broken"} \subseteq Promise!AnyVerdict
  BY DEF Promise!AnyVerdict
<1>4. \A target \in Promise!CheckTargets(st, "active") \cup Promise!CheckTargets(st, "broken") :
          (IF target = "keep" THEN st ELSE target) \in Promise!Reachable(st)
  BY <1>3 DEF Promise!Reachable
<1> QED
  BY <1>1, <1>2, <1>4 DEF SignalStates

LEMMA SignalsType ==
    ASSUME NEW n, NEW due, NEW before, NEW passive \in SUBSET SignalStates
    PROVE  Signals(n, due, before, passive) \subseteq SignalStates
BY DEF Signals, SignalStates

LEMMA StrongestIsSignal ==
    ASSUME NEW signals \in SUBSET SignalStates, signals # {} PROVE Strongest(signals) \in signals
<1>1. /\ Priority["blacklisted"] = 40 /\ Priority["quarantined"] = 30
      /\ Priority["unhealthy"] = 20 /\ Priority["degraded"] = 10
  BY DEF Priority
<1>2. \E s \in signals : \A t \in signals : Priority[t] <= Priority[s]
  <2>1. CASE "blacklisted" \in signals
    BY <1>1, <2>1 DEF SignalStates
  <2>2. CASE "blacklisted" \notin signals /\ "quarantined" \in signals
    BY <1>1, <2>2 DEF SignalStates
  <2>3. CASE "blacklisted" \notin signals /\ "quarantined" \notin signals /\ "unhealthy" \in signals
    BY <1>1, <2>3 DEF SignalStates
  <2>4. CASE "blacklisted" \notin signals /\ "quarantined" \notin signals /\ "unhealthy" \notin signals
    <3>1. signals = {"degraded"}
      BY <2>4 DEF SignalStates
    <3> QED
      BY <1>1, <3>1
  <2> QED
    BY <2>1, <2>2, <2>3, <2>4
<1> QED
  BY <1>2 DEF Strongest

LEMMA TallyType ==
    ASSUME NEW n, NEW due, NEW k, NEW limit \in Nat, NEW count \in 0 .. limit
    PROVE  Tally(n, due, k, count, limit) \in 0 .. limit
BY DEF Tally

LEMMA TalliedType ==
    ASSUME NEW n, NEW due, NEW before \in Checkables
    PROVE  Tallied(n, due, before) \in Checkables /\ Tallied(n, due, before).status = before.status
<1>1. LiveLimit \in Nat /\ ReadyLimit \in Nat /\ before.live \in 0 .. LiveLimit /\ before.ready \in 0 .. ReadyLimit
  BY HealthAssumption DEF Checkables
<1>2. /\ Tally(n, due, "live", before.live, LiveLimit) \in 0 .. LiveLimit
      /\ Tally(n, due, "ready", before.ready, ReadyLimit) \in 0 .. ReadyLimit
  BY <1>1, TallyType
<1> QED
  BY <1>2 DEF Tallied, Checkables

\* Whatever the checks find, one run takes a node where its verdict may (check_node).
LEMMA RunKeepsPromise ==
    ASSUME NEW n, NEW due, NEW before \in Checkables, NEW passive \in SUBSET SignalStates
    PROVE  /\ AfterRun(n, due, before, passive) \in Checkables
           /\ AfterRun(n, due, before, passive).status \in Promise!Reachable(before.status)
<1> DEFINE tallied == Tallied(n, due, before)
           signals == Signals(n, due, before, passive)
<1>1. tallied \in Checkables /\ tallied.status = before.status /\ before.status \in NodeState
  BY TalliedType DEF Checkables
<1>2. signals \subseteq SignalStates
  BY SignalsType
<1>3. AfterRun(n, due, before, passive) =
          IF signals # {} THEN [tallied EXCEPT !.status = Strongest(signals)]
          ELSE IF Recovers(n, due, before.status) THEN [tallied EXCEPT !.status = "verified"]
          ELSE tallied
  BY DEF AfterRun
<1> HIDE DEF tallied, signals
<1>4. \A st \in NodeState : [tallied EXCEPT !.status = st] \in Checkables /\ [tallied EXCEPT !.status = st].status = st
  BY <1>1 DEF Checkables
<1>5. CASE signals # {}
  <2>1. Strongest(signals) \in SignalStates /\ Strongest(signals) \in NodeState
    BY <1>2, <1>5, StrongestIsSignal DEF SignalStates, NodeState
  <2> QED
    BY <1>1, <1>3, <1>4, <1>5, <2>1, ReachableStates
<1>6. CASE signals = {} /\ Recovers(n, due, before.status)
  <2>1. Severity[before.status] > Severity["verified"] /\ before.status # "draining" /\ "verified" \in NodeState
    BY <1>6 DEF Recovers, NodeState
  <2> QED
    BY <1>1, <1>3, <1>4, <1>6, <2>1, ReachableStates
<1>7. CASE signals = {} /\ ~Recovers(n, due, before.status)
  BY <1>1, <1>3, <1>7, ReachableStates
<1> QED
  BY <1>5, <1>6, <1>7

-----------------------------------------------------------------------------
(* The invariant                                                            *)

LEMMA RestartedType ==
    ASSUME HealthTypeOK, NEW n \in Checked, NEW due
    PROVE  /\ Restarted(n, due) \in [Checked -> [Kinds -> Nat]]
           /\ \A m \in Checked, k \in Kinds : Restarted(n, due)[m][k] <= Every[k]
BY HealthAssumption DEF HealthTypeOK, Restarted

LEMMA BanningType ==
    ASSUME HealthTypeOK, NEW banned PROVE Banning(banned) \in [Checked -> [answers : Answers, consent : Consents]]
BY DEF HealthTypeOK, Banning, Consents

LEMMA HealthInitInv == HealthInit => HealthInv
<1> SUFFICES ASSUME HealthInit PROVE HealthInv
  OBVIOUS
<1>1. row \in [Checked -> Checkables] /\ draft = row
  BY HealthAssumption DEF HealthInit, Checkables, NodeState
<1>2. since \in [Checked -> [Kinds -> Nat]] /\ \A n \in Checked, k \in Kinds : since[n][k] <= Every[k]
  BY HealthAssumption DEF HealthInit
<1>3. world \in [Checked -> [answers : Answers, consent : Consents]]
  BY DEF HealthInit, Answers, Consents
<1>4. faults \in 0 .. MaxFaults
  <2>1. faults = 0 /\ MaxFaults \in Nat
    BY HealthAssumption DEF HealthInit
  <2> QED
    BY <2>1
<1>5. todo = {} /\ inRound = FALSE /\ last = "registry"
  BY DEF HealthInit
<1> QED
  BY <1>1, <1>2, <1>3, <1>4, <1>5 DEF HealthInv, HealthTypeOK, DraftKept

LEMMA StartRoundInv == ASSUME HealthInv, StartRound PROVE HealthInv'
<1>1. since' \in [Checked -> [Kinds -> Nat]] /\ \A n \in Checked, k \in Kinds : since'[n][k] <= Every[k]
  BY HealthAssumption DEF HealthInv, HealthTypeOK, StartRound
<1>2. HealthTypeOK'
  BY <1>1 DEF HealthInv, HealthTypeOK, StartRound
<1> QED
  BY <1>2 DEF HealthInv, DraftKept, StartRound

LEMMA CheckInRoundInv == ASSUME HealthInv, NEW n \in Checked, CheckInRound(n) PROVE HealthInv'
<1>1. n \in todo /\ draft[n] = row[n] /\ draft[n] \in Checkables /\ draft \in [Checked -> Checkables]
      /\ row' = row /\ todo' = todo \ {n} /\ todo \subseteq Checked
  BY DEF CheckInRound, HealthInv, HealthTypeOK, DraftKept
<1>2. CASE draft[n].status \in ActiveHealthCheckStates
  <2> DEFINE after == AfterRun(n, DueIn(n), draft[n], {})
  <2>1. after \in Checkables /\ after.status \in Promise!Reachable(row[n].status)
    BY <1>1, RunKeepsPromise
  <2> HIDE DEF after
  <2>2. draft' = [draft EXCEPT ![n] = after] /\ since' = Restarted(n, DueIn(n))
    BY <1>2 DEF CheckInRound, after
  <2>3. HealthTypeOK'
    BY <1>1, <2>1, <2>2, RestartedType DEF HealthInv, HealthTypeOK, CheckInRound
  <2>4. DraftKept'
    BY <1>1, <1>2, <2>1, <2>2 DEF HealthInv, DraftKept
  <2> QED
    BY <2>3, <2>4 DEF HealthInv
<1>3. CASE draft[n].status \notin ActiveHealthCheckStates
  BY <1>1, <1>3 DEF HealthInv, HealthTypeOK, DraftKept, CheckInRound
<1> QED
  BY <1>2, <1>3

\* A step that leaves the draft equal to the rows.
LEMMA SettledInv ==
    ASSUME HealthTypeOK', draft' = row' PROVE HealthInv'
BY DEF HealthInv, DraftKept, HealthTypeOK

LEMMA CommitRoundInv == ASSUME HealthInv, CommitRound PROVE HealthInv'
<1>1. world' \in [Checked -> [answers : Answers, consent : Consents]]
  BY BanningType DEF HealthInv, CommitRound
<1>2. HealthTypeOK' /\ draft' = row'
  BY <1>1 DEF HealthInv, HealthTypeOK, CommitRound
<1> QED
  BY <1>2, SettledInv

\* A step that throws a round away.
LEMMA DroppedInv ==
    ASSUME HealthInv, faults < MaxFaults, faults' = faults + 1, draft' = row, todo' = {}, inRound' = FALSE,
           UNCHANGED <<row, world, last>>, since' \in [Checked -> [Kinds -> Nat]],
           \A n \in Checked, k \in Kinds : since'[n][k] <= Every[k]
    PROVE  HealthInv'
<1>1. faults' \in 0 .. MaxFaults
  BY HealthAssumption DEF HealthInv, HealthTypeOK
<1>2. row' \in [Checked -> Checkables] /\ draft' \in [Checked -> Checkables] /\ draft' = row'
      /\ todo' \subseteq Checked /\ inRound' \in BOOLEAN
  BY DEF HealthInv, HealthTypeOK
<1>3. /\ world' \in [Checked -> [answers : Answers, consent : Consents]]
      /\ last' \in {"registry", "round", "forced"}
  BY DEF HealthInv, HealthTypeOK
<1> QED
  BY <1>1, <1>2, <1>3, SettledInv DEF HealthTypeOK

LEMMA FailRoundInv == ASSUME HealthInv, FailRound PROVE HealthInv'
BY DroppedInv DEF FailRound, HealthInv, HealthTypeOK

LEMMA RestartInv == ASSUME HealthInv, Restart PROVE HealthInv'
<1>1. since' \in [Checked -> [Kinds -> Nat]] /\ \A n \in Checked, k \in Kinds : since'[n][k] <= Every[k]
  BY HealthAssumption DEF Restart
<1> QED
  BY <1>1, DroppedInv DEF Restart

LEMMA PassiveAreSignals == ASSUME NEW passive \in PassiveSignals PROVE passive \in SUBSET SignalStates
BY DEF PassiveSignals, SignalStates

LEMMA ForceCheckInv == ASSUME HealthInv, NEW n \in Checked, ForceCheck(n) PROVE HealthInv'
<1>1. PICK passive \in PassiveSignals :
          /\ row' = [row EXCEPT ![n] = AfterRun(n, Offered(n), @, passive)]
          /\ world' = Banning({m \in {n} : "blacklisted" \in Signals(m, Offered(m), row[m], passive)})
  BY DEF ForceCheck
<1>2. AfterRun(n, Offered(n), row[n], passive) \in Checkables
  BY PassiveAreSignals, RunKeepsPromise DEF HealthInv, HealthTypeOK
<1>3. HealthTypeOK' /\ draft' = row'
  BY <1>1, <1>2, RestartedType, BanningType DEF HealthInv, HealthTypeOK, ForceCheck
<1> QED
  BY <1>3, SettledInv

LEMMA HandleInv == ASSUME HealthInv, NEW n \in Checked, Handle(n) PROVE HealthInv'
<1>1. row' \in [Checked -> Checkables]
  BY HealthAssumption DEF HealthInv, HealthTypeOK, Handle, Checkables
<1>2. HealthTypeOK' /\ draft' = row'
  BY <1>1 DEF HealthInv, HealthTypeOK, Handle
<1> QED
  BY <1>2, SettledInv

LEMMA ChangeInv == ASSUME HealthInv, NEW n \in Checked, Change(n) PROVE HealthInv'
BY DEF HealthInv, HealthTypeOK, DraftKept, Change

LEMMA HealthNextInv == HealthInv /\ [HealthNext]_healthVars => HealthInv'
<1>1. HealthInv /\ UNCHANGED healthVars => HealthInv'
  BY DEF HealthInv, HealthTypeOK, DraftKept, healthVars
<1> QED
  BY <1>1, StartRoundInv, CommitRoundInv, FailRoundInv, RestartInv, CheckInRoundInv, ForceCheckInv,
     HandleInv, ChangeInv DEF HealthNext

-----------------------------------------------------------------------------
(* The refinement                                                           *)

\* What the promise calls the states of the nodes.
StatusOf(rows) == [n \in Checked |-> rows[n].status]

LEMMA StatusType == ASSUME NEW rows \in [Checked -> Checkables] PROVE StatusOf(rows) \in [Checked -> NodeState]
BY DEF StatusOf, Checkables

LEMMA InitKeepsPromise == HealthInit => Promise!Init
<1> SUFFICES ASSUME HealthInit PROVE Promise!Init
  OBVIOUS
<1>1. StatusOf(row) \in [Checked -> NodeState]
  BY HealthInitInv, StatusType DEF HealthInv, HealthTypeOK
<1> QED
  BY <1>1, PromisedStates DEF Promise!Init, StatusOf, HealthInit

\* A commit is a round of the promise.
LEMMA CommitIsRound == ASSUME HealthInv, CommitRound PROVE Promise!Round
<1>1. row' = draft /\ last' = "round" /\ draft \in [Checked -> Checkables]
  BY DEF CommitRound, HealthInv, HealthTypeOK
<1>2. StatusOf(row') \in [Checked -> NodeState]
  BY <1>1, StatusType
<1>3. \A n \in Checked : StatusOf(row')[n] # StatusOf(row)[n] =>
          StatusOf(row)[n] \in ActiveHealthCheckStates /\ StatusOf(row')[n] \in Promise!Reachable(StatusOf(row)[n])
  BY <1>1 DEF HealthInv, DraftKept, StatusOf
<1> QED
  BY <1>1, <1>2, <1>3, PromisedStates DEF Promise!Round, StatusOf

\* A step that writes one row.
LEMMA OneStatus ==
    ASSUME row \in [Checked -> Checkables], NEW n \in Checked, NEW written,
           row' = [row EXCEPT ![n] = written]
    PROVE  StatusOf(row') = [StatusOf(row) EXCEPT ![n] = written.status]
BY DEF StatusOf

LEMMA ForceIsForced == ASSUME HealthInv, NEW n \in Checked, ForceCheck(n) PROVE Promise!Forced(n)
<1>1. PICK passive \in PassiveSignals : row' = [row EXCEPT ![n] = AfterRun(n, Offered(n), row[n], passive)]
  BY DEF ForceCheck
<1> DEFINE after == AfterRun(n, Offered(n), row[n], passive)
<1>2. after.status \in Promise!Reachable(row[n].status)
  BY PassiveAreSignals, RunKeepsPromise DEF HealthInv, HealthTypeOK
<1> HIDE DEF after
<1>3. StatusOf(row') = [StatusOf(row) EXCEPT ![n] = after.status] /\ StatusOf(row)[n] = row[n].status
  BY <1>1, OneStatus DEF HealthInv, HealthTypeOK, StatusOf, after
<1>4. last' = "forced"
  BY DEF ForceCheck
<1> QED
  BY <1>2, <1>3, <1>4 DEF Promise!Forced, StatusOf

LEMMA HandleIsRegistry == ASSUME HealthInv, NEW n \in Checked, Handle(n) PROVE Promise!Registry(n)
<1>1. PICK st \in Handled : row' = [row EXCEPT ![n].status = st]
  BY DEF Handle
<1>2. st \in NodeState /\ [row[n] EXCEPT !.status = st].status = st
  BY HealthAssumption DEF HealthInv, HealthTypeOK, Checkables
<1>3. StatusOf(row') = [StatusOf(row) EXCEPT ![n] = st]
  BY <1>1, <1>2, OneStatus DEF HealthInv, HealthTypeOK
<1>4. last' = "registry"
  BY DEF Handle
<1> QED
  BY <1>2, <1>3, <1>4, PromisedStates DEF Promise!Registry, StatusOf

LEMMA StepKeepsPromise ==
    ASSUME HealthInv, [HealthNext]_healthVars PROVE [Promise!Next]_(Promise!checkedVars)
<1>1. CASE CommitRound
  BY <1>1, CommitIsRound DEF Promise!Next
<1>2. CASE \E n \in Checked : ForceCheck(n) \/ Handle(n)
  BY <1>2, ForceIsForced, HandleIsRegistry DEF Promise!Next
<1>3. CASE \/ StartRound \/ FailRound \/ Restart \/ UNCHANGED healthVars
           \/ \E n \in Checked : CheckInRound(n) \/ Change(n)
  <2>1. row' = row /\ last' = last
    BY <1>3 DEF StartRound, FailRound, Restart, CheckInRound, Change, healthVars
  <2> QED
    BY <2>1 DEF Promise!checkedVars
<1> QED
  BY <1>1, <1>2, <1>3 DEF HealthNext

\* The invariant a round rests on: the types, and a draft that changes only what it may.
THEOREM RoundsAreSound == HealthSpec => []HealthInv
BY HealthInitInv, HealthNextInv, PTL DEF HealthSpec

\* The rounds, the forced checks and the handlers together do what CheckedNodes promises:
\* a node that did not agree to checks is touched by no round, and no check takes a node
\* out of quarantine, a ban or draining other than by its verdict (check_node, check_all).
THEOREM HealthImplementsPromise == HealthSpec => KeepsPromise
<1>1. HealthInit => Promise!Init
  BY InitKeepsPromise
<1>2. HealthInv /\ [HealthNext]_healthVars => [Promise!Next]_(Promise!checkedVars)
  BY StepKeepsPromise
<1> QED
  BY <1>1, <1>2, RoundsAreSound, PTL DEF HealthSpec, KeepsPromise, Promise!Spec

=============================================================================

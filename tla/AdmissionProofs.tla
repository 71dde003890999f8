-------------------------- MODULE AdmissionProofs --------------------------
(***************************************************************************)
(* Proofs about Admission, for any keys, requests, limits, quotas and      *)
(* costs: types, the return of every slot, and the overshoot of the daily  *)
(* quota.                                                                  *)
(***************************************************************************)
EXTENDS Admission, FiniteSetTheorems, TLAPS

LEMMA KeyOfRequest == ASSUME NEW r \in Requests PROVE KeyOf[r] \in Keys
BY AdmissionAssumption

\* What the steps of a request do to a count of slots.
LEMMA CountType ==
    ASSUME NEW count \in [Keys -> Nat], NEW k \in Keys
    PROVE  More(count, k) \in [Keys -> Nat] /\ Fewer(count, k) \in [Keys -> Nat]
BY DEF More, Fewer

-----------------------------------------------------------------------------
(* Types                                                                    *)

LEMMA TypeInit == Init => TypeOK
BY AdmissionAssumption DEF Init, TypeOK, Phases

LEMMA SlotType == ASSUME TypeOK, NEW r \in Requests, Enter(r) \/ Release(r) PROVE TypeOK'
<1>1. active' \in [Keys -> Nat] /\ streams' \in [Keys -> Nat]
  BY KeyOfRequest, CountType DEF TypeOK, Enter, Release
<1> QED
  BY <1>1 DEF TypeOK, Enter, Release, To, Phases

LEMMA GateType == ASSUME TypeOK, NEW r \in Requests, Gate(r) PROVE TypeOK'
<1>1. /\ tokens' \in [Buckets -> Nat]
      /\ \A b \in Buckets : tokens'[b] <= Capacity[b]
  BY AdmissionAssumption DEF TypeOK, Gate
<1> QED
  BY <1>1 DEF TypeOK, Gate, To, Phases

LEMMA FinishType == ASSUME TypeOK, NEW r \in Requests, Finish(r) PROVE TypeOK'
<1>1. used' \in [Keys -> Nat]
  BY AdmissionAssumption, KeyOfRequest DEF TypeOK, Finish
<1> QED
  BY <1>1 DEF TypeOK, Finish, To, Phases

LEMMA RefillType == ASSUME TypeOK, NEW b \in Buckets, Refill(b) PROVE TypeOK'
<1>1. /\ tokens \in [Buckets -> Nat] /\ tokens[b] < Capacity[b]
      /\ tokens' = [tokens EXCEPT ![b] = tokens[b] + 1]
      /\ Capacity \in [Buckets -> Nat]
  BY AdmissionAssumption DEF TypeOK, Refill
<1>2. tokens' \in [Buckets -> Nat] /\ tokens'[b] <= Capacity[b]
  BY <1>1
<1>3. \A c \in Buckets \ {b} : tokens'[c] = tokens[c]
  BY <1>1
<1> QED
  BY <1>2, <1>3 DEF TypeOK, Refill

LEMMA TypeNext == TypeOK /\ [Next]_vars => TypeOK'
<1> SUFFICES ASSUME TypeOK, [Next]_vars PROVE TypeOK'
  OBVIOUS
<1>1. ASSUME NEW r \in Requests, Enter(r) \/ Release(r) \/ Gate(r) \/ Finish(r)
      PROVE  TypeOK'
  BY <1>1, SlotType, GateType, FinishType
<1>2. ASSUME NEW r \in Requests, Reject(r) PROVE TypeOK'
  BY <1>2 DEF TypeOK, Reject, To, Phases
<1>3. ASSUME NEW b \in Buckets, Refill(b) PROVE TypeOK'
  BY <1>3, RefillType
<1>4. ASSUME NEW k \in Keys, Slide(k) PROVE TypeOK'
  BY <1>4 DEF TypeOK, Slide
<1>5. CASE Reload \/ UNCHANGED vars
  BY <1>5 DEF TypeOK, Reload, vars
<1> QED
  BY <1>1, <1>2, <1>3, <1>4, <1>5 DEF Next

\* Every reachable state of the admission is well typed.
THEOREM AdmissionTypeCorrect == Spec => []TypeOK
<1> QED
  BY TypeInit, TypeNext, PTL DEF Spec

-----------------------------------------------------------------------------
(* The slots of a key                                                       *)

SlotsInv == TypeOK /\ UserSlotsBalance

\* Only r moves.
Moved(r) == \A q \in Requests \ {r} : req'[q] = req[q]

LEMMA HoldersFinite ==
    ASSUME NEW k \in Keys, NEW S, S \subseteq Holders(k)
    PROVE  IsFiniteSet(S) /\ Cardinality(S) \in Nat
                          /\ Cardinality(S) <= Cardinality(Holders(k))
<1>1. IsFiniteSet(Holders(k))
  BY AdmissionAssumption, FS_Subset DEF Holders
<1> QED
  BY <1>1, FS_Subset, FS_CardinalityType

\* A request that is under way before and after changes no set of holders.
LEMMA HoldersKept ==
    ASSUME NEW r \in Requests, Moved(r), NEW k \in Keys,
           r \in Readers \/ KeyOf[r] # k \/ (req[r] = "idle" <=> req'[r] = "idle")
    PROVE  Holders(k)' = Holders(k)
BY DEF Moved, Holders

\* The counts of a key follow the sets they count when r joins them ...
LEMMA Joined ==
    ASSUME NEW count \in [Keys -> Nat], NEW k \in Keys, NEW r, NEW S, IsFiniteSet(S),
           r \notin S, count[k] = Cardinality(S)
    PROVE  More(count, k)[k] = Cardinality(S \cup {r})
BY FS_AddElement DEF More

\* ... or leaves them.
LEMMA Left ==
    ASSUME NEW count \in [Keys -> Nat], NEW k \in Keys, NEW r, NEW S, IsFiniteSet(S),
           r \in S, count[k] = Cardinality(S)
    PROVE  Fewer(count, k)[k] = Cardinality(S \ {r})
<1>1. Cardinality(S \ {r}) = Cardinality(S) - 1
  BY FS_RemoveElement
<1>2. Cardinality(S \ {r}) \in Nat
  BY FS_Difference, FS_Singleton, FS_CardinalityType
<1> QED
  BY <1>1, <1>2 DEF Fewer

LEMMA EnterSlots ==
    ASSUME SlotsInv, NEW r \in Requests, Enter(r), NEW m \in Keys
    PROVE  /\ active'[m] = Cardinality(Holders(m)')
           /\ streams'[m] = Cardinality(Holders(m)' \cap Streaming)
<1> DEFINE k == KeyOf[r]
<1>1. /\ Moved(r) /\ k \in Keys /\ r \notin Readers
      /\ req[r] = "idle" /\ req'[r] = "held"
  BY KeyOfRequest DEF Enter, To, Moved, SlotsInv, TypeOK
<1>2. /\ active[m] = Cardinality(Holders(m))
      /\ streams[m] = Cardinality(Holders(m) \cap Streaming)
      /\ active \in [Keys -> Nat] /\ streams \in [Keys -> Nat]
  BY DEF SlotsInv, TypeOK, UserSlotsBalance
<1>3. IsFiniteSet(Holders(m)) /\ IsFiniteSet(Holders(m) \cap Streaming)
  BY HoldersFinite
<1>4. CASE m = k
  <2>1. Holders(m)' = Holders(m) \cup {r} /\ r \notin Holders(m)
    BY <1>1, <1>4 DEF Holders, Moved
  <2>2. active'[m] = Cardinality(Holders(m)')
    BY <1>2, <1>3, <1>4, <2>1, Joined DEF Enter
  <2>3. CASE r \in Streaming
    <3>1. Holders(m)' \cap Streaming = (Holders(m) \cap Streaming) \cup {r}
      BY <2>1, <2>3
    <3>2. streams' = More(streams, m)
      BY <1>4, <2>3 DEF Enter
    <3>3. More(streams, m)[m] = Cardinality((Holders(m) \cap Streaming) \cup {r})
      <4> DEFINE S == Holders(m) \cap Streaming
      <4>1. IsFiniteSet(S) /\ r \notin S /\ streams[m] = Cardinality(S)
        BY <1>2, <1>3, <2>1
      <4> HIDE DEF S
      <4>2. More(streams, m)[m] = Cardinality(S \cup {r})
        BY <1>2, <4>1, Joined
      <4> QED
        BY <4>2 DEF S
    <3> QED
      BY <2>2, <3>1, <3>2, <3>3
  <2>4. CASE r \notin Streaming
    <3>1. Holders(m)' \cap Streaming = Holders(m) \cap Streaming /\ streams' = streams
      BY <2>1, <2>4 DEF Enter
    <3> QED
      BY <1>2, <2>2, <3>1
  <2> QED
    BY <2>3, <2>4
<1>5. CASE m # k
  <2>1. active'[m] = active[m] /\ streams'[m] = streams[m]
    BY <1>2, <1>5 DEF Enter, More
  <2>2. Holders(m)' = Holders(m)
    BY <1>1, <1>5, HoldersKept
  <2> QED
    BY <1>2, <2>1, <2>2
<1> QED
  BY <1>4, <1>5

LEMMA ReleaseSlots ==
    ASSUME SlotsInv, NEW r \in Requests, Release(r), NEW m \in Keys
    PROVE  /\ active'[m] = Cardinality(Holders(m)')
           /\ streams'[m] = Cardinality(Holders(m)' \cap Streaming)
<1> DEFINE k == KeyOf[r]
<1>1. /\ Moved(r) /\ k \in Keys /\ req[r] = "over" /\ req'[r] = "idle"
  BY KeyOfRequest DEF Release, To, Moved, SlotsInv, TypeOK
<1>2. /\ active[m] = Cardinality(Holders(m))
      /\ streams[m] = Cardinality(Holders(m) \cap Streaming)
      /\ active \in [Keys -> Nat] /\ streams \in [Keys -> Nat]
  BY DEF SlotsInv, TypeOK, UserSlotsBalance
<1>3. IsFiniteSet(Holders(m)) /\ IsFiniteSet(Holders(m) \cap Streaming)
  BY HoldersFinite
<1>4. CASE m = k /\ r \notin Readers
  <2>1. Holders(m)' = Holders(m) \ {r} /\ r \in Holders(m)
    BY <1>1, <1>4 DEF Holders, Moved
  <2>2. active'[m] = Cardinality(Holders(m)')
    BY <1>2, <1>3, <1>4, <2>1, Left DEF Release
  <2>3. CASE r \in Streaming
    <3> DEFINE S == Holders(m) \cap Streaming
    <3>1. IsFiniteSet(S) /\ r \in S /\ streams[m] = Cardinality(S)
      BY <1>2, <1>3, <2>1, <2>3
    <3>2. Holders(m)' \cap Streaming = S \ {r}
      BY <2>1, <2>3
    <3>3. streams' = Fewer(streams, m)
      BY <1>4, <2>3 DEF Release
    <3> HIDE DEF S
    <3>4. Fewer(streams, m)[m] = Cardinality(S \ {r})
      BY <1>2, <3>1, Left
    <3> QED
      BY <2>2, <3>2, <3>3, <3>4
  <2>4. CASE r \notin Streaming
    <3>1. Holders(m)' \cap Streaming = Holders(m) \cap Streaming /\ streams' = streams
      BY <2>1, <2>4 DEF Release
    <3> QED
      BY <1>2, <2>2, <3>1
  <2> QED
    BY <2>3, <2>4
<1>5. CASE ~(m = k /\ r \notin Readers)
  <2>1. active'[m] = active[m] /\ streams'[m] = streams[m]
    BY <1>2, <1>5, AdmissionAssumption DEF Release, Fewer
  <2>2. Holders(m)' = Holders(m)
    BY <1>1, <1>5, HoldersKept
  <2> QED
    BY <1>2, <2>1, <2>2
<1> QED
  BY <1>4, <1>5

LEMMA SlotsNext == SlotsInv /\ [Next]_vars => SlotsInv'
<1> SUFFICES ASSUME SlotsInv, [Next]_vars, NEW m \in Keys
             PROVE  /\ active'[m] = Cardinality(Holders(m)')
                    /\ streams'[m] = Cardinality(Holders(m)' \cap Streaming)
  BY TypeNext DEF SlotsInv, UserSlotsBalance
<1>0. /\ active[m] = Cardinality(Holders(m))
      /\ streams[m] = Cardinality(Holders(m) \cap Streaming)
  BY DEF SlotsInv, UserSlotsBalance
<1>1. ASSUME NEW r \in Requests, Enter(r) \/ Release(r)
      PROVE  /\ active'[m] = Cardinality(Holders(m)')
             /\ streams'[m] = Cardinality(Holders(m)' \cap Streaming)
  BY <1>1, EnterSlots, ReleaseSlots
<1>2. ASSUME NEW r \in Requests, Gate(r) \/ Reject(r) \/ Finish(r)
      PROVE  /\ active'[m] = Cardinality(Holders(m)')
             /\ streams'[m] = Cardinality(Holders(m)' \cap Streaming)
  <2>1. /\ Moved(r) /\ active' = active /\ streams' = streams
        /\ r \in Readers \/ (req[r] # "idle" /\ req'[r] # "idle")
    BY <1>2 DEF Gate, Reject, Finish, To, Moved, SlotsInv, TypeOK
  <2>2. Holders(m)' = Holders(m)
    BY <2>1, HoldersKept
  <2> QED
    BY <1>0, <2>1, <2>2
<1>3. CASE \/ \E b \in Buckets : Refill(b)
           \/ \E k \in Keys : Slide(k)
           \/ Reload \/ UNCHANGED vars
  <2>1. req' = req /\ active' = active /\ streams' = streams
    BY <1>3 DEF Refill, Slide, Reload, vars
  <2> QED
    BY <1>0, <2>1 DEF Holders
<1> QED
  BY <1>1, <1>2, <1>3 DEF Next

LEMMA UserSlotsInit == Init => SlotsInv
<1> SUFFICES ASSUME Init, NEW k \in Keys
             PROVE  /\ active[k] = Cardinality(Holders(k))
                    /\ streams[k] = Cardinality(Holders(k) \cap Streaming)
  BY TypeInit DEF SlotsInv, UserSlotsBalance
<1>1. Holders(k) = {} /\ Holders(k) \cap Streaming = {} /\ active[k] = 0 /\ streams[k] = 0
  BY DEF Init, Holders
<1> QED
  BY <1>1, FS_EmptySet

\* Every slot taken is held by a request under way, and every request under way holds
\* one: refusals at the gate, failures, abandoned requests and reloads leak none.
THEOREM UserSlotsReturned == Spec => []UserSlotsBalance
<1>1. SlotsInv => UserSlotsBalance
  BY DEF SlotsInv
<1> QED
  BY <1>1, UserSlotsInit, SlotsNext, PTL DEF Spec

-----------------------------------------------------------------------------
(* The daily quota: what a key has used, and what its running generations   *)
(* may still cost                                                           *)

Running(k) == {r \in Holders(k) : req[r] = "running"}
Bounded(k) ==
    /\ active[k] <= Ceiling(k)
    /\ Budget[k] > 0 =>
          used[k] + Cost * Cardinality(Running(k)) < Budget[k] + Cost * Ceiling(k)
QuotaInv == SlotsInv /\ \A k \in Keys : Bounded(k)

LEMMA CeilingType ==
    ASSUME TypeOK, NEW k \in Keys
    PROVE  Ceiling(k) \in Nat \ {0} /\ Limit(k) <= Ceiling(k)
BY AdmissionAssumption DEF TypeOK, Ceiling, Limit, AtLeastOne

LEMMA Costs ==
    ASSUME NEW i \in Nat, NEW j \in Nat
    PROVE  /\ Cost * i \in Nat /\ Cost * (i + 1) = Cost * i + Cost
           /\ i <= j => Cost * i <= Cost * j
<1>1. Cost \in Nat
  BY AdmissionAssumption
<1>2. Cost * i \in Nat /\ Cost * (i + 1) = Cost * i + Cost
  BY <1>1
<1>3. ASSUME i <= j PROVE Cost * i <= Cost * j
  <2>1. PICK d \in Nat : j = i + d
    <3>1. j - i \in Nat /\ j = i + (j - i)
      BY <1>3
    <3> QED
      BY <3>1
  <2>2. Cost * j = Cost * i + Cost * d /\ Cost * d \in Nat
    BY <1>1, <2>1
  <2> QED
    BY <1>2, <2>2
<1> QED
  BY <1>2, <1>3

LEMMA RunningFinite ==
    ASSUME NEW k \in Keys
    PROVE  /\ IsFiniteSet(Running(k)) /\ Cardinality(Running(k)) \in Nat
           /\ Cardinality(Running(k)) <= Cardinality(Holders(k))
BY HoldersFinite DEF Running

LEMMA RunningFiniteNext ==
    ASSUME NEW k \in Keys
    PROVE  /\ IsFiniteSet(Running(k)') /\ Cardinality(Running(k)') \in Nat
           /\ Cardinality(Running(k)') <= Cardinality(Holders(k)')
<1>1. IsFiniteSet(Holders(k)') /\ Running(k)' \subseteq Holders(k)'
  BY AdmissionAssumption, FS_Subset DEF Holders, Running
<1> QED
  BY <1>1, FS_Subset, FS_CardinalityType

\* A step after which a key has used no more and has no more running.
LEMMA BoundKept ==
    ASSUME QuotaInv, TypeOK', NEW k \in Keys, active'[k] <= active[k],
           used'[k] <= used[k], Running(k)' \subseteq Running(k)
    PROVE  Bounded(k)'
<1> DEFINE n == Cardinality(Running(k))
           m == Cardinality(Running(k)')
           bound == Budget[k] + Cost * Ceiling(k)
<1>1. m \in Nat /\ n \in Nat /\ m <= n
  BY RunningFinite, RunningFiniteNext, FS_Subset
<1>2. Cost * m \in Nat /\ Cost * n \in Nat /\ Cost * m <= Cost * n
  BY <1>1, Costs
<1>3. /\ Ceiling(k) \in Nat /\ Budget[k] \in Nat /\ used[k] \in Nat /\ used'[k] \in Nat
      /\ active[k] \in Nat /\ active'[k] \in Nat
  BY CeilingType, AdmissionAssumption DEF QuotaInv, SlotsInv, TypeOK
<1>4. bound \in Nat
  BY <1>3, Costs
<1>5. active[k] <= Ceiling(k) /\ (Budget[k] > 0 => used[k] + Cost * n < bound)
  BY DEF QuotaInv, Bounded
<1> HIDE DEF n, m, bound
<1>6. active'[k] <= Ceiling(k)
  BY <1>3, <1>5
<1>7. Budget[k] > 0 => used'[k] + Cost * m < bound
  BY <1>2, <1>3, <1>4, <1>5
<1> QED
  BY <1>6, <1>7 DEF Bounded, Ceiling, n, m, bound

\* A request that is not running after its step joins no one's running ones.
LEMMA NotRunning ==
    ASSUME NEW r \in Requests, Moved(r), NEW k \in Keys,
           req'[r] # "running" \/ r \notin Holders(k)'
    PROVE  Running(k)' \subseteq Running(k)
BY DEF Moved, Running, Holders

LEMMA EnterBound ==
    ASSUME QuotaInv, NEW r \in Requests, Enter(r), NEW k \in Keys
    PROVE  Bounded(k)'
<1>1. /\ TypeOK' /\ Moved(r) /\ req'[r] = "held" /\ used' = used
      /\ active \in [Keys -> Nat] /\ used[k] \in Nat
  BY SlotType DEF QuotaInv, SlotsInv, Enter, To, Moved, TypeOK
<1>2. Running(k)' \subseteq Running(k)
  BY <1>1, NotRunning
<1>3. CASE k # KeyOf[r]
  <2>1. active'[k] = active[k]
    BY <1>1, <1>3 DEF Enter, More
  <2> QED
    BY <1>1, <1>2, <2>1, BoundKept
<1>4. CASE k = KeyOf[r]
  <2>1. active'[k] = active[k] + 1 /\ active[k] < Limit(k)
    BY <1>1, <1>4 DEF Enter, More
  <2>2. Limit(k) \in Nat /\ Ceiling(k) \in Nat /\ Limit(k) <= Ceiling(k)
    BY CeilingType, AdmissionAssumption
       DEF QuotaInv, SlotsInv, TypeOK, Limit, AtLeastOne
  <2>3. active'[k] <= Ceiling(k)
    BY <1>1, <2>1, <2>2
  <2>4. Running(k)' = Running(k)
    BY <1>1 DEF Running, Holders, Moved, Enter
  <2>5. Budget[k] > 0 =>
           used[k] + Cost * Cardinality(Running(k)) < Budget[k] + Cost * Ceiling(k)
    BY DEF QuotaInv, Bounded
  <2> QED
    BY <1>1, <2>3, <2>4, <2>5 DEF Bounded, Ceiling
<1> QED
  BY <1>3, <1>4

\* The one step that may add to a key's running generations has looked at its quota.
LEMMA GateBound ==
    ASSUME QuotaInv, NEW r \in Requests, Gate(r), NEW k \in Keys
    PROVE  Bounded(k)'
<1>1. /\ TypeOK' /\ Moved(r) /\ used' = used /\ active' = active
      /\ active[k] \in Nat /\ used[k] \in Nat
  BY GateType DEF QuotaInv, SlotsInv, Gate, To, Moved, TypeOK
<1>2. CASE req'[r] # "running" \/ r \notin Holders(k)'
  BY <1>1, <1>2, NotRunning, BoundKept
<1>3. CASE req'[r] = "running" /\ r \in Holders(k)'
  <2>1. KeyOf[r] = k /\ QuotaLeft(k)
    BY <1>3 DEF Gate, Holders, To, QuotaInv, SlotsInv, TypeOK
  <2>2. Cardinality(Running(k)') <= Ceiling(k)
    <3>1. SlotsInv'
      BY SlotsNext DEF QuotaInv, Next
    <3>2. Cardinality(Running(k)') <= active'[k] /\ Cardinality(Running(k)') \in Nat
      BY <3>1, RunningFiniteNext DEF SlotsInv, UserSlotsBalance
    <3> QED
      BY <1>1, <3>2, CeilingType DEF QuotaInv, SlotsInv, Bounded
  <2>3. Cost * Cardinality(Running(k)') <= Cost * Ceiling(k)
    BY <2>2, RunningFiniteNext, CeilingType, Costs DEF QuotaInv, SlotsInv
  <2>4. /\ Cost * Cardinality(Running(k)') \in Nat /\ Cost * Ceiling(k) \in Nat
        /\ Budget[k] \in Nat
    BY RunningFiniteNext, CeilingType, Costs, AdmissionAssumption DEF QuotaInv, SlotsInv
  <2>5. Budget[k] > 0 => used[k] < Budget[k]
    BY <2>1 DEF QuotaLeft
  <2>6. Budget[k] > 0 =>
           used[k] + Cost * Cardinality(Running(k)') < Budget[k] + Cost * Ceiling(k)
    BY <1>1, <2>3, <2>4, <2>5
  <2>7. active[k] <= Ceiling(k)
    BY DEF QuotaInv, Bounded
  <2> QED
    BY <1>1, <2>6, <2>7 DEF Bounded, Ceiling
<1> QED
  BY <1>2, <1>3

\* A generation that ends costs what its place among the running ones stood for.
LEMMA FinishBound ==
    ASSUME QuotaInv, NEW r \in Requests, Finish(r), NEW k \in Keys
    PROVE  Bounded(k)'
<1>1. /\ TypeOK' /\ Moved(r) /\ req[r] = "running" /\ req'[r] = "over"
      /\ active' = active /\ active[k] \in Nat
      /\ used \in [Keys -> Nat] /\ used'[k] \in Nat
  BY FinishType DEF QuotaInv, SlotsInv, Finish, To, Moved, TypeOK
<1>2. Running(k)' \subseteq Running(k) /\ active'[k] <= active[k]
  BY <1>1, NotRunning
<1>3. CASE used'[k] <= used[k]
  BY <1>1, <1>2, <1>3, BoundKept
<1>4. CASE ~(used'[k] <= used[k])
  <2>1. /\ KeyOf[r] = k /\ r \notin Readers
        /\ used'[k] <= used[k] + Cost
    BY <1>1, <1>4, AdmissionAssumption DEF Finish
  <2>2. Running(k)' = Running(k) \ {r} /\ r \in Running(k)
    BY <1>1, <2>1 DEF Running, Holders, Moved
  <2> DEFINE n == Cardinality(Running(k)')
             bound == Budget[k] + Cost * Ceiling(k)
  <2>3. n \in Nat /\ Cardinality(Running(k)) = n + 1
    <3>1. Cardinality(Running(k) \ {r}) = Cardinality(Running(k)) - 1
      BY <2>2, RunningFinite, FS_RemoveElement
    <3>2. n = Cardinality(Running(k) \ {r})
      BY <2>2
    <3> QED
      BY <3>1, <3>2, RunningFinite, RunningFiniteNext
  <2>4. Cost * n \in Nat /\ Cost * Cardinality(Running(k)) = Cost * n + Cost
    BY <2>3, Costs
  <2>5. bound \in Nat
    BY CeilingType, Costs, AdmissionAssumption DEF QuotaInv, SlotsInv
  <2>6. /\ Budget[k] > 0 => used[k] + (Cost * n + Cost) < bound
        /\ active[k] <= Ceiling(k)
    BY <2>4 DEF QuotaInv, Bounded
  <2>7. used[k] \in Nat /\ Cost \in Nat
    BY <1>1, AdmissionAssumption
  <2> HIDE DEF n, bound
  <2>8. Budget[k] > 0 => used'[k] + Cost * n < bound
    BY <1>1, <2>1, <2>4, <2>5, <2>6, <2>7
  <2> QED
    BY <1>1, <2>6, <2>8 DEF Bounded, Ceiling, n, bound
<1> QED
  BY <1>3, <1>4

LEMMA ReleaseBound ==
    ASSUME QuotaInv, NEW r \in Requests, Release(r), NEW k \in Keys
    PROVE  Bounded(k)'
<1>1. /\ TypeOK' /\ Moved(r) /\ req'[r] = "idle"
      /\ used' = used /\ used[k] \in Nat /\ active \in [Keys -> Nat]
  BY SlotType DEF QuotaInv, SlotsInv, Release, To, Moved, TypeOK
<1>2. Running(k)' \subseteq Running(k)
  BY <1>1, NotRunning
<1>3. active' = active \/ active' = Fewer(active, KeyOf[r])
  BY DEF Release
<1>4. active'[k] <= active[k] /\ used'[k] <= used[k]
  BY <1>1, <1>3, KeyOfRequest DEF Fewer
<1> QED
  BY <1>1, <1>2, <1>4, BoundKept

LEMMA QuotaNext == QuotaInv /\ [Next]_vars => QuotaInv'
<1> SUFFICES ASSUME QuotaInv, [Next]_vars, NEW k \in Keys PROVE Bounded(k)'
  BY SlotsNext DEF QuotaInv
<1>0. TypeOK' /\ used[k] \in Nat /\ active[k] \in Nat
  BY TypeNext DEF QuotaInv, SlotsInv, TypeOK
<1>1. ASSUME NEW r \in Requests, Enter(r) \/ Gate(r) \/ Finish(r) \/ Release(r)
      PROVE  Bounded(k)'
  BY <1>1, EnterBound, GateBound, FinishBound, ReleaseBound
<1>2. ASSUME NEW r \in Requests, Reject(r) PROVE Bounded(k)'
  <2>1. Moved(r) /\ req'[r] = "over" /\ active' = active /\ used' = used
    BY <1>2 DEF Reject, To, Moved, QuotaInv, SlotsInv, TypeOK
  <2>2. Running(k)' \subseteq Running(k)
    BY <2>1, NotRunning
  <2> QED
    BY <1>0, <2>1, <2>2, BoundKept
<1>3. CASE \/ \E b \in Buckets : Refill(b)
           \/ \E m \in Keys : Slide(m)
           \/ Reload \/ UNCHANGED vars
  <2>1. req' = req /\ active'[k] <= active[k] /\ used'[k] <= used[k]
    BY <1>0, <1>3 DEF Refill, Slide, Reload, vars, QuotaInv, SlotsInv, TypeOK
  <2>2. Running(k)' \subseteq Running(k)
    BY <2>1 DEF Running, Holders
  <2> QED
    BY <1>0, <2>1, <2>2, BoundKept
<1> QED
  BY <1>1, <1>2, <1>3 DEF Next

\* The daily quota of a key is overshot by less than what its concurrent generations
\* cost, however they are interleaved and whatever is reloaded meanwhile.
THEOREM QuotaOvershootBounded == Spec => []QuotaOvershoot
<1>1. Init => QuotaInv
  <2> SUFFICES ASSUME Init, NEW k \in Keys PROVE SlotsInv /\ Bounded(k)
    BY UserSlotsInit DEF QuotaInv
  <2>1. TypeOK /\ SlotsInv /\ used[k] = 0 /\ active[k] = 0
    BY TypeInit, UserSlotsInit DEF Init
  <2>2. Running(k) = {}
    BY DEF Init, Running, Holders
  <2>3. Cardinality(Running(k)) = 0 /\ Cost * Cardinality(Running(k)) = 0
    BY <2>2, FS_EmptySet, AdmissionAssumption
  <2>4. Ceiling(k) \in Nat /\ Cost * Ceiling(k) \in Nat /\ Budget[k] \in Nat
    BY <2>1, CeilingType, Costs, AdmissionAssumption
  <2> QED
    BY <2>1, <2>3, <2>4 DEF Bounded
<1>2. QuotaInv => QuotaOvershoot
  <2> SUFFICES ASSUME QuotaInv, NEW k \in Keys, Budget[k] > 0
               PROVE  used[k] < Budget[k] + Cost * Ceiling(k)
    BY DEF QuotaOvershoot
  <2>1. /\ used[k] + Cost * Cardinality(Running(k)) < Budget[k] + Cost * Ceiling(k)
        /\ used[k] \in Nat /\ Budget[k] \in Nat
    BY AdmissionAssumption DEF QuotaInv, Bounded, SlotsInv, TypeOK
  <2>2. Cost * Cardinality(Running(k)) \in Nat /\ Cost * Ceiling(k) \in Nat
    BY RunningFinite, CeilingType, Costs DEF QuotaInv, SlotsInv
  <2> QED
    BY <2>1, <2>2
<1> QED
  BY <1>1, <1>2, QuotaNext, PTL DEF Spec

=============================================================================

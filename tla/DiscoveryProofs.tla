-------------------------- MODULE DiscoveryProofs --------------------------
(***************************************************************************)
(* Proofs about Discovery, for any sources, scopes, addresses and cyclers: *)
(* how often a source is asked, and what cycles that overlap leave of a    *)
(* candidate's review and enrollment.                                      *)
(***************************************************************************)
EXTENDS Discovery, FiniteSetTheorems, TLAPS

\* The cyclers that wait for a source's answer.
Waiting(s) == {w \in Cyclers : cycle[w].at = "asking" /\ cycle[w].source = s}
\* While a source has no cached answer, every call made to it is still out.
CallsOut ==
    \A s \in Active : asked[s] <= IF cache[s].life = 0 THEN Cardinality(Waiting(s)) ELSE Cardinality(Cyclers)

\* A row that a cycle has loaded, against the row as it is now: an id that is reused is a
\* larger one, and a status that is no longer candidate has not become it again.
LoadedRow(w, a) ==
    LET r == cycle[w].row IN
    /\ r.id <= cand[a].id
    /\ r.present /\ cand[a].present /\ r.id = cand[a].id /\ r.status # "candidate" =>
          cand[a].status # "candidate"
LoadedRows == \A w \in Cyclers, a \in Addrs : cycle[w].at = a => LoadedRow(w, a)

DiscoveryInv == DiscoveryTypeOK /\ CallsOut /\ LoadedRows /\ HighRiskReviewed

-----------------------------------------------------------------------------
(* Rows                                                                     *)

LEMMA StageNames == "idle" \notin Addrs /\ "collecting" \notin Addrs /\ "asking" \notin Addrs
BY DiscoveryAssumption

LEMMA SourceNames == Sources \in Seq(Active) /\ \A i \in 1 .. Len(Sources) : Sources[i] \in Active
BY DiscoveryAssumption

CycleState ==
    [at : {"idle", "collecting", "asking"} \cup Addrs, next : Nat \ {0}, source : Active \cup {NoSource},
     found : Findings, row : CandidateRow]

LEMMA IdleType == Idle.at = "idle" /\ Idle \in
    [at : {"idle", "collecting", "asking"} \cup Addrs, next : Nat \ {0}, source : Active \cup {NoSource},
     found : Findings, row : CandidateRow]
BY DiscoveryAssumption DEF Idle, Findings, CandidateRow, NoCandidate, Statuses

LEMMA HighestType == ASSUME NEW w, NEW a, NEW least PROVE Highest(w, a, least) \in 0 .. MaxRisk
<1> DEFINE levels == {level \in 1 .. MaxRisk :
                          level <= least \/ \E s \in Reports(w, a) : level <= cycle[w].found[s]}
<1>1. MaxRisk \in Nat /\ IsFiniteSet(1 .. MaxRisk) /\ Cardinality(1 .. MaxRisk) = MaxRisk
  BY FS_Interval, DiscoveryAssumption
<1>2. levels \in SUBSET (1 .. MaxRisk)
  OBVIOUS
<1>3. Highest(w, a, least) = Cardinality(levels)
  BY DEF Highest
<1> HIDE DEF levels
<1>4. IsFiniteSet(levels) /\ Cardinality(levels) <= MaxRisk /\ Cardinality(levels) \in Nat
  BY <1>1, <1>2, FS_Subset, FS_CardinalityType
<1> QED
  BY <1>1, <1>3, <1>4

LEMMA NewCandidateRow ==
    ASSUME DiscoveryTypeOK, NEW w \in Cyclers, NEW a \in Addrs
    PROVE  LET new == NewCandidate(w, a) IN
           /\ new \in CandidateRow /\ new.id = cand[a].id + 1
           /\ new.risk >= Threshold => new.status # "candidate"
<1>1. Highest(w, a, 0) \in 0 .. MaxRisk /\ cand[a].id \in Nat /\ Reports(w, a) \subseteq Active
  BY HighestType DEF DiscoveryTypeOK, CandidateRow, Reports
<1> QED
  BY <1>1 DEF NewCandidate, ReviewStatus, NoCandidate, CandidateRow, Statuses

LEMMA MergedCandidateRow ==
    ASSUME DiscoveryTypeOK, NEW w \in Cyclers, NEW a \in Addrs, LoadedRow(w, a), HighRiskReviewed,
           cycle[w].row.present, cand[a].present, cand[a].id = cycle[w].row.id
    PROVE  LET merged == MergedCandidate(w, a) IN
           /\ merged \in CandidateRow /\ merged.id = cand[a].id /\ merged.present
           /\ merged.risk >= Threshold => merged.status # "candidate"
           /\ cand[a].status # "candidate" => merged.status # "candidate"
           /\ merged.status # cand[a].status => cycle[w].row.status = "candidate"
<1> DEFINE loaded == cycle[w].row
           risk   == Highest(w, a, loaded.risk)
           names  == loaded.sources \cup Reports(w, a)
<1>1. /\ loaded \in CandidateRow /\ cand[a] \in CandidateRow
      /\ risk \in 0 .. MaxRisk /\ names \subseteq Active
  BY HighestType DEF DiscoveryTypeOK, CandidateRow, Reports
<1>2. MergedCandidate(w, a) =
          [cand[a] EXCEPT !.risk = IF risk = loaded.risk THEN @ ELSE risk,
                          !.sources = IF names = loaded.sources THEN @ ELSE names,
                          !.status = ReviewStatus(loaded, risk, @)]
  BY DEF MergedCandidate
<1>3. loaded.status # "candidate" => cand[a].status # "candidate"
  BY DEF LoadedRow
<1>4. cand[a].risk >= Threshold => cand[a].status # "candidate"
  BY DEF HighRiskReviewed
<1>5. cand[a].present /\ cand[a].id = loaded.id
  OBVIOUS
<1> HIDE DEF loaded, risk, names
<1> DEFINE merged == MergedCandidate(w, a)
<1>6. /\ merged.id = cand[a].id /\ merged.present
      /\ merged.risk = (IF risk = loaded.risk THEN cand[a].risk ELSE risk)
      /\ merged.sources = (IF names = loaded.sources THEN cand[a].sources ELSE names)
      /\ merged.status = ReviewStatus(loaded, risk, cand[a].status)
      /\ merged = [id |-> merged.id, present |-> merged.present, risk |-> merged.risk,
                   sources |-> merged.sources, status |-> merged.status]
  BY <1>1, <1>2, <1>5 DEF CandidateRow
<1> HIDE DEF merged
<1>7. ReviewStatus(loaded, risk, cand[a].status) \in Statuses
  BY <1>1 DEF ReviewStatus, CandidateRow, Statuses
<1>8. merged \in CandidateRow
  BY <1>1, <1>6, <1>7 DEF CandidateRow
<1>9. merged.risk >= Threshold => merged.status # "candidate"
  BY <1>1, <1>3, <1>4, <1>6 DEF ReviewStatus
<1> QED
  BY <1>6, <1>8, <1>9 DEF ReviewStatus, loaded, merged

LEMMA GoneRow == ASSUME NEW r \in CandidateRow PROVE Gone(r) \in CandidateRow /\ Gone(r).id = r.id /\ ~Gone(r).present
<1>1. NoCandidate \in CandidateRow /\ ~NoCandidate.present
  BY DiscoveryAssumption DEF NoCandidate, CandidateRow, Statuses
<1> QED
  BY <1>1 DEF Gone, CandidateRow

LEMMA PurgedRows ==
    ASSUME NEW table \in [Addrs -> CandidateRow], NEW t \in Purged(table)
    PROVE  /\ t \in [Addrs -> CandidateRow]
           /\ \A a \in Addrs : t[a].id = table[a].id /\ (t[a] = table[a] \/ ~t[a].present)
<1>1. PICK old \in SUBSET {a \in Addrs : table[a].present} :
          t = [a \in Addrs |-> IF a \in old THEN Gone(table[a]) ELSE table[a]]
  BY DEF Purged
<1> QED
  BY <1>1, GoneRow

-----------------------------------------------------------------------------
(* The table: what every step leaves of it                                  *)

\* What all writers of the table keep to, and what that gives.
Grows(a) ==
    /\ cand'[a].id >= cand[a].id
    /\ cand'[a].present /\ cand'[a].risk >= Threshold => cand'[a].status # "candidate"
    /\ cand[a].present /\ cand'[a].present /\ cand'[a].id = cand[a].id /\ cand[a].status # "candidate" =>
          cand'[a].status # "candidate"
    /\ ~cand[a].present /\ cand'[a].present => cand'[a].id # cand[a].id

LEMMA TableInv ==
    ASSUME DiscoveryInv, DiscoveryTypeOK', \A a \in Addrs : Grows(a),
           \A w \in Cyclers, a \in Addrs : cycle'[w].at = a =>
               (cycle[w].at = a \/ cycle'[w].row = cand[a]) /\ (cycle[w].at = a => cycle'[w].row = cycle[w].row)
    PROVE  HighRiskReviewed' /\ LoadedRows'
<1>1. HighRiskReviewed'
  BY DEF HighRiskReviewed, Grows
<1>2. ASSUME NEW w \in Cyclers, NEW a \in Addrs, cycle'[w].at = a PROVE LoadedRow(w, a)'
  <2>1. /\ cand[a].id \in Nat /\ cand'[a].id \in Nat /\ cycle'[w].row.id \in Nat
        /\ cand[a].present \in BOOLEAN
    BY DEF DiscoveryInv, DiscoveryTypeOK, CandidateRow
  <2>2. CASE cycle[w].at = a
    <3>1. cycle'[w].row = cycle[w].row /\ LoadedRow(w, a) /\ Grows(a)
      BY <1>2, <2>2 DEF DiscoveryInv, LoadedRows
    <3> QED
      BY <2>1, <3>1 DEF LoadedRow, Grows
  <2>3. CASE cycle[w].at # a
    <3>1. cycle'[w].row = cand[a] /\ Grows(a)
      BY <1>2, <2>3
    <3> QED
      BY <2>1, <3>1 DEF LoadedRow, Grows
  <2> QED
    BY <2>2, <2>3
<1> QED
  BY <1>1, <1>2 DEF LoadedRows

LEMMA SameGrows ==
    ASSUME DiscoveryInv, NEW a \in Addrs, cand'[a].id = cand[a].id,
           cand'[a] = cand[a] \/ ~cand'[a].present
    PROVE  Grows(a)
<1>1. cand[a].id \in Nat
  BY DEF DiscoveryInv, DiscoveryTypeOK, CandidateRow
<1> QED
  BY <1>1 DEF DiscoveryInv, HighRiskReviewed, Grows

-----------------------------------------------------------------------------
(* The calls                                                                *)

LEMMA WaitingFinite ==
    ASSUME NEW s
    PROVE  /\ IsFiniteSet(Waiting(s)) /\ Cardinality(Waiting(s)) \in Nat
           /\ Cardinality(Cyclers) \in Nat /\ Cardinality(Waiting(s)) <= Cardinality(Cyclers)
<1>1. Waiting(s) \in SUBSET Cyclers /\ IsFiniteSet(Cyclers)
  BY DiscoveryAssumption DEF Waiting
<1> QED
  BY <1>1, FS_Subset, FS_CardinalityType

LEMMA CallsBounded == DiscoveryInv => AskedOncePerCycler
<1> SUFFICES ASSUME DiscoveryInv, NEW s \in Active PROVE asked[s] <= Cardinality(Cyclers)
  BY DEF AskedOncePerCycler
<1>1. asked[s] \in Nat /\ asked[s] <= IF cache[s].life = 0 THEN Cardinality(Waiting(s)) ELSE Cardinality(Cyclers)
  BY DEF DiscoveryInv, CallsOut, DiscoveryTypeOK
<1> QED
  BY <1>1, WaitingFinite

\* A step of one cycler that asks nobody and gets no answer.
LEMMA SameCalls ==
    ASSUME DiscoveryInv, UNCHANGED <<cache, asked>>,
           \A w \in Cyclers : cycle'[w].at = "asking" <=> cycle[w].at = "asking",
           \A w \in Cyclers : cycle[w].at = "asking" => cycle'[w].source = cycle[w].source
    PROVE  CallsOut'
<1>1. \A s \in Active : Waiting(s)' = Waiting(s)
  BY DEF Waiting
<1> QED
  BY <1>1 DEF DiscoveryInv, CallsOut

-----------------------------------------------------------------------------
(* The steps                                                                *)

LEMMA DiscoveryInitInv == DiscoveryInit => DiscoveryInv
<1> SUFFICES ASSUME DiscoveryInit PROVE DiscoveryInv
  OBVIOUS
<1>1. NoCandidate \in CandidateRow /\ ~NoCandidate.present
  BY DiscoveryAssumption DEF NoCandidate, CandidateRow, Statuses
<1>2. DiscoveryTypeOK
  BY <1>1, IdleType, DiscoveryAssumption DEF DiscoveryInit, DiscoveryTypeOK
<1>3. CallsOut
  BY WaitingFinite DEF DiscoveryInit, CallsOut
<1>4. \A w \in Cyclers : cycle[w].at = "idle"
  BY IdleType DEF DiscoveryInit
<1>5. LoadedRows
  BY <1>4, StageNames DEF LoadedRows
<1>6. HighRiskReviewed
  BY <1>1 DEF HighRiskReviewed, DiscoveryInit
<1> QED
  BY <1>2, <1>3, <1>5, <1>6 DEF DiscoveryInv

\* The steps of a cycler that leave the table alone.
LEMMA QuietStep ==
    ASSUME DiscoveryInv, cand' = cand, DiscoveryTypeOK', CallsOut',
           \A w \in Cyclers, a \in Addrs : cycle'[w].at = a =>
               (cycle[w].at = a \/ cycle'[w].row = cand[a]) /\ (cycle[w].at = a => cycle'[w].row = cycle[w].row)
    PROVE  DiscoveryInv'
<1>1. \A a \in Addrs : Grows(a)
  BY SameGrows
<1> QED
  BY <1>1, TableInv DEF DiscoveryInv

LEMMA CycleType ==
    ASSUME DiscoveryTypeOK, NEW w \in Cyclers
    PROVE  /\ cycle[w].at \in {"idle", "collecting", "asking"} \cup Addrs
           /\ cycle[w].next \in Nat \ {0} /\ cycle[w].source \in Active \cup {NoSource}
           /\ cycle[w].found \in Findings /\ cycle[w].row \in CandidateRow
BY DEF DiscoveryTypeOK

LEMMA StartCycleInv == ASSUME DiscoveryInv, NEW w \in Cyclers, StartCycle(w) PROVE DiscoveryInv'
<1>1. cycle' = [cycle EXCEPT ![w] = [Idle EXCEPT !.at = "collecting"]] /\ UNCHANGED <<cand, cache, calls, asked>>
      /\ cycle[w].at = "idle"
  BY DEF StartCycle
<1>2. DiscoveryTypeOK'
  BY <1>1, IdleType DEF DiscoveryInv, DiscoveryTypeOK
<1>3. \A v \in Cyclers : v # w => cycle'[v] = cycle[v]
  BY <1>1 DEF DiscoveryInv, DiscoveryTypeOK
<1>4. cycle'[w].at = "collecting"
  BY <1>1, IdleType DEF DiscoveryInv, DiscoveryTypeOK, Idle
<1>5. CallsOut'
  BY <1>1, <1>3, <1>4, SameCalls
<1> QED
  BY <1>1, <1>2, <1>3, <1>4, <1>5, StageNames, QuietStep

\* The cycler goes on to its next source with what it found.
LEMMA NextSourceInv ==
    ASSUME DiscoveryInv, NEW w \in Cyclers, NEW found \in Findings, cycle[w].at = "collecting",
           cycle' = [cycle EXCEPT ![w].next = @ + 1, ![w].found = found],
           UNCHANGED <<cand, cache, calls, asked>>
    PROVE  DiscoveryInv'
<1>1. cycle'[w].at = "collecting" /\ \A v \in Cyclers : v # w => cycle'[v] = cycle[v]
  BY DEF DiscoveryInv, DiscoveryTypeOK
<1> DEFINE after == [cycle[w] EXCEPT !.next = @ + 1, !.found = found]
<1>2. cycle' = [cycle EXCEPT ![w] = after]
  BY DEF DiscoveryInv, DiscoveryTypeOK
<1>3. after \in CycleState
  <2>1. cycle[w] \in CycleState
    BY DEF DiscoveryInv, DiscoveryTypeOK, CycleState
  <2>2. cycle[w].next + 1 \in Nat \ {0}
    BY <2>1 DEF CycleState
  <2> QED
    BY <2>1, <2>2 DEF CycleState
<1> HIDE DEF after
<1>4. DiscoveryTypeOK'
  BY <1>2, <1>3 DEF DiscoveryInv, DiscoveryTypeOK, CycleState
<1>5. CallsOut'
  BY <1>1, SameCalls
<1> QED
  BY <1>1, <1>4, <1>5, StageNames, QuietStep

LEMMA UseCacheInv ==
    ASSUME DiscoveryInv, NEW w \in Cyclers, NEW s \in Active, UseCache(w, s) PROVE DiscoveryInv'
<1>1. cache[s].kept \in 0 .. MaxRisk /\ cycle[w].found \in Findings
  BY CycleType DEF DiscoveryInv, DiscoveryTypeOK
<1> DEFINE found == [cycle[w].found EXCEPT ![s] = cache[s].kept]
<1>2. found \in Findings
  BY <1>1 DEF Findings
<1>3. cycle' = [cycle EXCEPT ![w].next = @ + 1, ![w].found = found]
  BY DEF UseCache
<1> HIDE DEF found
<1> QED
  BY <1>2, <1>3, NextSourceInv DEF UseCache, Considers

LEMMA LimitedInv ==
    ASSUME DiscoveryInv, NEW w \in Cyclers, NEW s \in Active, Limited(w, s) PROVE DiscoveryInv'
<1>1. cycle[w].found \in Findings
  BY CycleType DEF DiscoveryInv
<1>2. cycle' = [cycle EXCEPT ![w].next = @ + 1, ![w].found = cycle[w].found]
  BY DEF Limited, DiscoveryInv, DiscoveryTypeOK
<1> QED
  BY <1>1, <1>2, NextSourceInv DEF Limited, Considers

LEMMA AskInv == ASSUME DiscoveryInv, NEW w \in Cyclers, NEW s \in Active, Ask(w, s) PROVE DiscoveryInv'
<1>1. /\ cycle[w].at = "collecting" /\ cache[s].life = 0
      /\ calls' = [calls EXCEPT ![s] = @ + 1] /\ asked' = [asked EXCEPT ![s] = @ + 1]
      /\ cycle' = [cycle EXCEPT ![w].next = @ + 1, ![w].at = "asking", ![w].source = s]
      /\ cand' = cand /\ cache' = cache
  BY DEF Ask, Considers, Cached, DiscoveryInv, DiscoveryTypeOK
<1>2. cycle'[w].at = "asking" /\ cycle'[w].source = s /\ \A v \in Cyclers : v # w => cycle'[v] = cycle[v]
  BY <1>1 DEF DiscoveryInv, DiscoveryTypeOK
<1>3. DiscoveryTypeOK'
  BY <1>1, CycleType DEF DiscoveryInv, DiscoveryTypeOK
<1>4. Waiting(s)' = Waiting(s) \cup {w} /\ w \notin Waiting(s)
  BY <1>1, <1>2 DEF Waiting
<1>5. Cardinality(Waiting(s)') = Cardinality(Waiting(s)) + 1
  BY <1>4, WaitingFinite, FS_AddElement
<1>6. \A r \in Active \ {s} : Waiting(r)' = Waiting(r)
  BY <1>1, <1>2 DEF Waiting
<1>7. CallsOut'
  <2> SUFFICES ASSUME NEW r \in Active
      PROVE  asked'[r] <= IF cache[r].life = 0 THEN Cardinality(Waiting(r)') ELSE Cardinality(Cyclers)
    BY <1>1 DEF CallsOut
  <2>1. asked[r] \in Nat /\ asked \in [Active -> Nat]
        /\ asked[r] <= IF cache[r].life = 0 THEN Cardinality(Waiting(r)) ELSE Cardinality(Cyclers)
    BY DEF DiscoveryInv, DiscoveryTypeOK, CallsOut
  <2>2. CASE r = s
    <3>1. asked'[r] = asked[r] + 1 /\ Cardinality(Waiting(s)) \in Nat
      BY <1>1, <2>1, <2>2, WaitingFinite
    <3> QED
      BY <1>1, <1>5, <2>1, <2>2, <3>1
  <2>3. CASE r # s
    BY <1>1, <1>6, <2>1, <2>3
  <2> QED
    BY <2>2, <2>3
<1> QED
  BY <1>1, <1>2, <1>3, <1>7, StageNames, QuietStep

LEMMA AnswerInv == ASSUME DiscoveryInv, NEW w \in Cyclers, Answer(w) PROVE DiscoveryInv'
<1> DEFINE s == cycle[w].source
<1>1. PICK risk \in Fetched :
          /\ cache' = [cache EXCEPT ![s] = [kept |-> risk, life |-> CacheLife]]
          /\ cycle' = [cycle EXCEPT ![w].at = "collecting", ![w].source = NoSource, ![w].found[s] = risk]
  BY DEF Answer
<1>2. cycle[w].at = "asking" /\ UNCHANGED <<cand, calls, asked>>
  BY DEF Answer
<1>3. cycle'[w].at = "collecting" /\ \A v \in Cyclers : v # w => cycle'[v] = cycle[v]
  BY <1>1 DEF DiscoveryInv, DiscoveryTypeOK
<1>4. CacheLife \in Nat \ {0} /\ risk \in 0 .. MaxRisk
  BY DiscoveryAssumption DEF Fetched
<1>5. DiscoveryTypeOK'
  <2> DEFINE found == [cycle[w].found EXCEPT ![s] = risk]
             after == [cycle[w] EXCEPT !.at = "collecting", !.source = NoSource, !.found = found]
  <2>1. found \in Findings
    BY <1>4, CycleType DEF DiscoveryInv, Findings
  <2>2. cycle' = [cycle EXCEPT ![w] = after]
    BY <1>1 DEF DiscoveryInv, DiscoveryTypeOK
  <2> HIDE DEF found
  <2>3. after \in CycleState
    BY <2>1, CycleType DEF DiscoveryInv, DiscoveryTypeOK, CycleState
  <2> HIDE DEF after
  <2>4. cycle' \in [Cyclers -> CycleState]
    BY <2>2, <2>3 DEF DiscoveryInv, DiscoveryTypeOK, CycleState
  <2>5. cache' \in [Active -> [kept : 0 .. MaxRisk, life : Nat]]
    BY <1>1, <1>4 DEF DiscoveryInv, DiscoveryTypeOK
  <2> QED
    BY <1>2, <2>4, <2>5 DEF DiscoveryInv, DiscoveryTypeOK, CycleState
<1>6. CallsOut'
  <2> SUFFICES ASSUME NEW r \in Active
      PROVE  asked[r] <= IF cache'[r].life = 0 THEN Cardinality(Waiting(r)') ELSE Cardinality(Cyclers)
    BY <1>2 DEF CallsOut
  <2>1. asked[r] \in Nat /\ cache \in [Active -> [kept : 0 .. MaxRisk, life : Nat]]
        /\ asked[r] <= IF cache[r].life = 0 THEN Cardinality(Waiting(r)) ELSE Cardinality(Cyclers)
    BY DEF DiscoveryInv, DiscoveryTypeOK, CallsOut
  <2>2. CASE r = s
    <3>1. cache'[r].life # 0
      BY <1>1, <1>4, <2>1, <2>2
    <3> QED
      BY <2>1, <3>1, WaitingFinite
  <2>3. CASE r # s
    <3>1. Waiting(r)' = Waiting(r) /\ cache'[r] = cache[r]
      BY <1>1, <1>3, <2>1, <2>3 DEF Waiting
    <3> QED
      BY <2>1, <3>1
  <2> QED
    BY <2>2, <2>3
<1> QED
  BY <1>2, <1>3, <1>5, <1>6, StageNames, QuietStep

LEMMA LoadCandidateInv ==
    ASSUME DiscoveryInv, NEW w \in Cyclers, NEW a \in Addrs, LoadCandidate(w, a) PROVE DiscoveryInv'
<1>1. /\ cycle[w].at = "collecting" /\ UNCHANGED <<cand, cache, calls, asked>>
      /\ cycle' = [cycle EXCEPT ![w].at = a, ![w].row = cand[a]]
  BY DEF LoadCandidate
<1>2. cycle'[w].at = a /\ cycle'[w].row = cand[a] /\ \A v \in Cyclers : v # w => cycle'[v] = cycle[v]
  BY <1>1 DEF DiscoveryInv, DiscoveryTypeOK
<1>3. DiscoveryTypeOK'
  BY <1>1, CycleType DEF DiscoveryInv, DiscoveryTypeOK
<1>4. CallsOut'
  BY <1>1, <1>2, StageNames, SameCalls
<1> QED
  BY <1>1, <1>2, <1>3, <1>4, StageNames, QuietStep

\* A cycle ends; what it does to the table grows it.
LEMMA EndCycleInv ==
    ASSUME DiscoveryInv, NEW w \in Cyclers, cycle[w].at # "asking",
           cycle' = [cycle EXCEPT ![w] = Idle], UNCHANGED <<cache, calls, asked>>,
           cand' \in [Addrs -> CandidateRow], \A a \in Addrs : Grows(a)
    PROVE  DiscoveryInv'
<1>1. cycle'[w].at = "idle" /\ \A v \in Cyclers : v # w => cycle'[v] = cycle[v]
  BY IdleType DEF DiscoveryInv, DiscoveryTypeOK
<1>2. DiscoveryTypeOK'
  BY IdleType DEF DiscoveryInv, DiscoveryTypeOK
<1>3. CallsOut'
  BY <1>1, SameCalls
<1>4. HighRiskReviewed' /\ LoadedRows'
  BY <1>1, <1>2, StageNames, TableInv
<1> QED
  BY <1>2, <1>3, <1>4 DEF DiscoveryInv

\* The row a cycle stores, before the purge.
LEMMA StoredRow ==
    ASSUME DiscoveryInv, NEW w \in Cyclers, NEW a \in Addrs, NEW r \in CandidateRow,
           cand' \in Purged([cand EXCEPT ![a] = r])
    PROVE  /\ cand' \in [Addrs -> CandidateRow]
           /\ cand'[a].id = r.id /\ (cand'[a] = r \/ ~cand'[a].present)
           /\ \A b \in Addrs \ {a} : cand'[b].id = cand[b].id /\ (cand'[b] = cand[b] \/ ~cand'[b].present)
<1> DEFINE table == [cand EXCEPT ![a] = r]
<1>1. table \in [Addrs -> CandidateRow] /\ table[a] = r /\ \A b \in Addrs \ {a} : table[b] = cand[b]
  BY DEF DiscoveryInv, DiscoveryTypeOK
<1> HIDE DEF table
<1>2. /\ cand' \in [Addrs -> CandidateRow]
      /\ \A b \in Addrs : cand'[b].id = table[b].id /\ (cand'[b] = table[b] \/ ~cand'[b].present)
  BY <1>1, PurgedRows DEF table
<1> QED
  BY <1>1, <1>2

LEMMA StoreCandidateInv ==
    ASSUME DiscoveryInv, NEW w \in Cyclers, NEW a \in Addrs, StoreCandidate(w, a) PROVE DiscoveryInv'
<1>1. cycle[w].at = a /\ cycle' = [cycle EXCEPT ![w] = Idle] /\ UNCHANGED <<cache, calls, asked>>
  BY DEF StoreCandidate
<1>2. LoadedRow(w, a) /\ HighRiskReviewed /\ DiscoveryTypeOK /\ cand[a].id \in Nat /\ cand[a].present \in BOOLEAN
  BY <1>1 DEF DiscoveryInv, LoadedRows, DiscoveryTypeOK, CandidateRow
<1>3. cand' \in [Addrs -> CandidateRow] /\ \A b \in Addrs : Grows(b)
  <2>1. CASE ~cycle[w].row.present /\ ~cand[a].present /\ cand' \in Purged([cand EXCEPT ![a] = NewCandidate(w, a)])
    <3> DEFINE r == NewCandidate(w, a)
    <3>1. r \in CandidateRow /\ r.id = cand[a].id + 1 /\ (r.risk >= Threshold => r.status # "candidate")
      BY <1>2, NewCandidateRow
    <3>2. /\ cand' \in [Addrs -> CandidateRow]
          /\ cand'[a].id = r.id /\ (cand'[a] = r \/ ~cand'[a].present)
          /\ \A b \in Addrs \ {a} : cand'[b].id = cand[b].id /\ (cand'[b] = cand[b] \/ ~cand'[b].present)
      BY <2>1, <3>1, StoredRow
    <3> HIDE DEF r
    <3>3. Grows(a)
      BY <1>2, <2>1, <3>1, <3>2 DEF Grows
    <3> QED
      BY <3>2, <3>3, SameGrows
  <2>2. CASE /\ cycle[w].row.present /\ cand[a].present /\ cand[a].id = cycle[w].row.id
             /\ cand' \in Purged([cand EXCEPT ![a] = MergedCandidate(w, a)])
    <3> DEFINE r == MergedCandidate(w, a)
    <3>1. /\ r \in CandidateRow /\ r.id = cand[a].id /\ (r.risk >= Threshold => r.status # "candidate")
          /\ cand[a].status # "candidate" => r.status # "candidate"
      BY <1>2, <2>2, MergedCandidateRow
    <3>2. /\ cand' \in [Addrs -> CandidateRow]
          /\ cand'[a].id = r.id /\ (cand'[a] = r \/ ~cand'[a].present)
          /\ \A b \in Addrs \ {a} : cand'[b].id = cand[b].id /\ (cand'[b] = cand[b] \/ ~cand'[b].present)
      BY <2>2, <3>1, StoredRow
    <3> HIDE DEF r
    <3>3. Grows(a)
      BY <1>2, <2>2, <3>1, <3>2 DEF Grows
    <3> QED
      BY <3>2, <3>3, SameGrows
  <2> QED
    BY <2>1, <2>2 DEF StoreCandidate
<1> QED
  BY <1>1, <1>3, StageNames, EndCycleInv

LEMMA FailCycleInv ==
    ASSUME DiscoveryInv, NEW w \in Cyclers, NEW a \in Addrs, FailCycle(w, a) PROVE DiscoveryInv'
<1>1. cand' \in [Addrs -> CandidateRow] /\ \A b \in Addrs : Grows(b)
  BY SameGrows DEF FailCycle, DiscoveryInv, DiscoveryTypeOK
<1> QED
  BY <1>1, StageNames, EndCycleInv DEF FailCycle

LEMMA PurgeInv == ASSUME DiscoveryInv, NEW w \in Cyclers, Purge(w) PROVE DiscoveryInv'
<1>1. cand' \in [Addrs -> CandidateRow]
      /\ \A b \in Addrs : cand'[b].id = cand[b].id /\ (cand'[b] = cand[b] \/ ~cand'[b].present)
  BY PurgedRows DEF Purge, DiscoveryInv, DiscoveryTypeOK
<1> QED
  BY <1>1, SameGrows, EndCycleInv DEF Purge

\* An administrator writes one row.
LEMMA OneRowInv ==
    ASSUME DiscoveryInv, NEW a \in Addrs, NEW r \in CandidateRow, cand' = [cand EXCEPT ![a] = r],
           r.id = cand[a].id, ~r.present \/ (cand[a].present /\ r.status # "candidate"),
           UNCHANGED <<cache, calls, asked, cycle>>
    PROVE  DiscoveryInv'
<1>1. DiscoveryTypeOK' /\ cand'[a] = r /\ \A b \in Addrs \ {a} : cand'[b] = cand[b]
  BY DEF DiscoveryInv, DiscoveryTypeOK
<1>2. Grows(a)
  <2>1. cand[a].id \in Nat /\ cand[a].present \in BOOLEAN
    BY DEF DiscoveryInv, DiscoveryTypeOK, CandidateRow
  <2> QED
    BY <1>1, <2>1 DEF Grows
<1>3. \A b \in Addrs : Grows(b)
  BY <1>1, <1>2, SameGrows
<1>4. CallsOut'
  BY SameCalls
<1>5. HighRiskReviewed' /\ LoadedRows'
  BY <1>1, <1>3, TableInv
<1> QED
  BY <1>1, <1>4, <1>5 DEF DiscoveryInv

LEMMA EnrollCandidateInv == ASSUME DiscoveryInv, NEW a \in Addrs, EnrollCandidate(a) PROVE DiscoveryInv'
<1> DEFINE r == [cand[a] EXCEPT !.status = "enrolled"]
<1>1. r \in CandidateRow /\ r.id = cand[a].id /\ r.status # "candidate"
  BY DEF DiscoveryInv, DiscoveryTypeOK, CandidateRow, Statuses
<1>2. cand' = [cand EXCEPT ![a] = r] /\ cand[a].present /\ UNCHANGED <<cache, calls, asked, cycle>>
  BY DEF EnrollCandidate
<1> HIDE DEF r
<1> QED
  BY <1>1, <1>2, OneRowInv

LEMMA DeleteCandidateInv == ASSUME DiscoveryInv, NEW a \in Addrs, DeleteCandidate(a) PROVE DiscoveryInv'
<1>1. Gone(cand[a]) \in CandidateRow /\ Gone(cand[a]).id = cand[a].id /\ ~Gone(cand[a]).present
  BY GoneRow DEF DiscoveryInv, DiscoveryTypeOK
<1>2. cand' = [cand EXCEPT ![a] = Gone(cand[a])] /\ UNCHANGED <<cache, calls, asked, cycle>>
  BY DEF DeleteCandidate
<1> QED
  BY <1>1, <1>2, OneRowInv

\* When the answer ends the count starts again: before, it was below the bound, and
\* nobody's call is out that the count would miss.
LEMMA MinuteInv == ASSUME DiscoveryInv, Minute PROVE DiscoveryInv'
<1>1. UNCHANGED <<cand, cycle>>
  BY DEF Minute
<1>2. DiscoveryTypeOK'
  BY DiscoveryAssumption DEF Minute, DiscoveryInv, DiscoveryTypeOK
<1>3. CallsOut'
  <2> SUFFICES ASSUME NEW s \in Active
      PROVE  asked'[s] <= IF cache'[s].life = 0 THEN Cardinality(Waiting(s)') ELSE Cardinality(Cyclers)
    BY DEF CallsOut
  <2>1. Waiting(s)' = Waiting(s)
    BY <1>1 DEF Waiting
  <2>2. /\ asked[s] \in Nat /\ cache[s].life \in Nat
        /\ asked[s] <= IF cache[s].life = 0 THEN Cardinality(Waiting(s)) ELSE Cardinality(Cyclers)
    BY DEF DiscoveryInv, DiscoveryTypeOK, CallsOut
  <2>3. /\ cache'[s].life = IF cache[s].life > 0 THEN cache[s].life - 1 ELSE 0
        /\ asked'[s] = IF cache[s].life = 1 THEN 0 ELSE asked[s]
    BY DEF Minute
  <2> QED
    BY <2>1, <2>2, <2>3, WaitingFinite
<1> QED
  BY <1>1, <1>2, <1>3, QuietStep

LEMMA DiscoveryNextInv == DiscoveryInv /\ [DiscoveryNext]_discoveryVars => DiscoveryInv'
<1>1. DiscoveryInv /\ UNCHANGED discoveryVars => DiscoveryInv'
  BY DEF discoveryVars, DiscoveryInv, DiscoveryTypeOK, CallsOut, LoadedRows, LoadedRow, HighRiskReviewed, Waiting
<1> QED
  BY <1>1, StartCycleInv, AnswerInv, PurgeInv, UseCacheInv, LimitedInv, AskInv, LoadCandidateInv,
     StoreCandidateInv, FailCycleInv, EnrollCandidateInv, DeleteCandidateInv, MinuteInv DEF DiscoveryNext

-----------------------------------------------------------------------------
(* The theorems                                                             *)

\* The candidates, caches and cycles are well-formed, and what makes the theorems below
\* inductive holds.
THEOREM DiscoveryIsSound == DiscoverySpec => []DiscoveryInv
BY DiscoveryInitInv, DiscoveryNextInv, PTL DEF DiscoverySpec

\* However cycles overlap, a source without a cached answer is asked at most once by each
\* of them (collect, ResponseCache).
THEOREM SourcesAskedOnce == DiscoverySpec => []AskedOncePerCycler
<1>1. DiscoveryInv => AskedOncePerCycler
  BY CallsBounded DEF DiscoveryInv
<1> QED
  BY <1>1, DiscoveryIsSound, PTL

\* And a row at or above the threshold is not left a plain candidate (ingest).
THEOREM RisksReviewed == DiscoverySpec => []HighRiskReviewed
BY DiscoveryIsSound, PTL DEF DiscoveryInv

\* What a step must have been to take an enrollment back.
ReopenedByEarlierCycle ==
    \A a \in Addrs : Reopened(a) =>
        \E w \in Cyclers : cycle[w].at = a /\ cycle'[w].at = "idle" /\ cycle[w].row.status = "candidate"

LEMMA StepKeepsEnrollment == DiscoveryInv /\ [DiscoveryNext]_discoveryVars => ReopenedByEarlierCycle
<1> SUFFICES ASSUME DiscoveryInv, [DiscoveryNext]_discoveryVars, NEW a \in Addrs, Reopened(a)
    PROVE  \E w \in Cyclers : cycle[w].at = a /\ cycle'[w].at = "idle" /\ cycle[w].row.status = "candidate"
  BY DEF ReopenedByEarlierCycle
<1>1. /\ cand[a].status = "enrolled" /\ cand'[a].present /\ cand'[a].id = cand[a].id
      /\ cand'[a].status # "enrolled" /\ cand[a].id \in Nat /\ cand \in [Addrs -> CandidateRow]
  BY DEF Reopened, DiscoveryInv, DiscoveryTypeOK, CandidateRow
<1>2. ASSUME NEW w \in Cyclers, NEW b \in Addrs, StoreCandidate(w, b)
      PROVE  cycle[w].at = a /\ cycle'[w].at = "idle" /\ cycle[w].row.status = "candidate"
  <2>1. cycle[w].at = b /\ cycle'[w].at = "idle" /\ LoadedRow(w, b) /\ HighRiskReviewed /\ DiscoveryTypeOK
    BY <1>2, IdleType DEF StoreCandidate, DiscoveryInv, DiscoveryTypeOK, LoadedRows
  <2>2. CASE ~cand[b].present /\ cand' \in Purged([cand EXCEPT ![b] = NewCandidate(w, b)])
    <3>1. NewCandidate(w, b) \in CandidateRow /\ NewCandidate(w, b).id = cand[b].id + 1
      BY <2>1, NewCandidateRow
    <3>2. cand'[b].id = cand[b].id + 1
          /\ \A c \in Addrs \ {b} : cand'[c] = cand[c] \/ ~cand'[c].present
      BY <2>2, <3>1, StoredRow
    <3> QED
      BY <1>1, <3>2
  <2>3. CASE /\ cycle[w].row.present /\ cand[b].present /\ cand[b].id = cycle[w].row.id
             /\ cand' \in Purged([cand EXCEPT ![b] = MergedCandidate(w, b)])
    <3>1. /\ MergedCandidate(w, b) \in CandidateRow
          /\ MergedCandidate(w, b).status # cand[b].status => cycle[w].row.status = "candidate"
      BY <2>1, <2>3, MergedCandidateRow
    <3>2. /\ cand'[b] = MergedCandidate(w, b) \/ ~cand'[b].present
          /\ \A c \in Addrs \ {b} : cand'[c] = cand[c] \/ ~cand'[c].present
      BY <2>3, <3>1, StoredRow
    <3> QED
      BY <1>1, <2>1, <3>1, <3>2
  <2> QED
    BY <1>2, <2>2, <2>3 DEF StoreCandidate
<1>3. ASSUME NEW w \in Cyclers, Purge(w) PROVE FALSE
  <2>1. cand'[a] = cand[a] \/ ~cand'[a].present
    BY <1>1, <1>3, PurgedRows DEF Purge
  <2> QED
    BY <1>1, <2>1
<1>4. ASSUME NEW b \in Addrs, EnrollCandidate(b) \/ DeleteCandidate(b) PROVE FALSE
  <2>1. CASE EnrollCandidate(b)
    <3>1. cand'[b].status = "enrolled" /\ (a # b => cand'[a] = cand[a])
      BY <1>1, <2>1 DEF EnrollCandidate, CandidateRow
    <3> QED
      BY <1>1, <3>1
  <2>2. CASE DeleteCandidate(b)
    <3>1. ~cand'[b].present /\ (a # b => cand'[a] = cand[a])
      BY <1>1, <2>2, GoneRow DEF DeleteCandidate
    <3> QED
      BY <1>1, <3>1
  <2> QED
    BY <1>4, <2>1, <2>2
<1>5. cand' # cand
  BY <1>1
<1> QED
  BY <1>2, <1>3, <1>4, <1>5 DEF DiscoveryNext, discoveryVars, StartCycle, Answer, UseCache, Limited, Ask,
     LoadCandidate, FailCycle, Minute

\* An enrolled candidate goes back under review only by a cycle that read the row before
\* it was enrolled (ingest, enroll_candidate).
THEOREM EnrollmentsStand == DiscoverySpec => EnrollmentStands
<1>1. DiscoverySpec => []DiscoveryInv
  BY DiscoveryInitInv, DiscoveryNextInv, PTL DEF DiscoverySpec
<1>2. DiscoverySpec => [][ReopenedByEarlierCycle]_discoveryVars
  BY <1>1, StepKeepsEnrollment, PTL DEF DiscoverySpec
<1> QED
  BY <1>2, PTL DEF EnrollmentStands, ReopenedByEarlierCycle

=============================================================================

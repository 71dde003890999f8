----------------------------- MODULE Discovery -----------------------------
(***************************************************************************)
(* Candidates: addresses that public catalogues report.  A cycle asks each *)
(* active source, through a cache and a rate limit, merges what is in the  *)
(* source's scope into the table and purges old rows, in one transaction.  *)
(* The background loop and an administrator's request may run cycles at    *)
(* the same time, next to enrollments and deletions.                       *)
(*                                                                         *)
(* A cycle's transaction is its read of the row and, later, its writes,    *)
(* which are one step with the commit: the row is locked in between.  An   *)
(* answer is the risk of the one address a cycle reports, or 0.  When a    *)
(* row is old is left open: observed_at is the source's own timestamp.     *)
(***************************************************************************)
EXTENDS Naturals, FiniteSets, Sequences

CONSTANTS
    Mode,          \* discovery.mode
    Addrs,         \* (ip, port, protocol)
    Sources,       \* active_sources(), in its order: enabled, and scoped if the mode asks for it
    Allowed,       \* per source: the addresses its allowed_scopes contain
    Cyclers,       \* the discovery loop, and administrators asking for a cycle
    MaxRisk,       \* bound on assess_risk
    Threshold,     \* risk_manual_review_threshold
    PerMinute,     \* max_requests_per_minute of a source
    CacheLife,     \* cache_ttl_seconds, in ticks of a minute
    MaxRows,       \* bound on the rows ever created for an address
    NoSource

Active == {Sources[i] : i \in DOMAIN Sources}

ASSUME DiscoveryAssumption ==
    /\ Sources \in Seq(Active)
    /\ Mode = "disabled" => Active = {}
    /\ NoSource \notin Active /\ Allowed \in [Active -> SUBSET Addrs]
    /\ IsFiniteSet(Cyclers) /\ Addrs \cap {"idle", "collecting", "asking"} = {}
    /\ MaxRisk \in Nat /\ Threshold \in 1 .. MaxRisk
    /\ PerMinute \in Nat /\ CacheLife \in Nat \ {0} /\ MaxRows \in Nat

VARIABLES
    cand,     \* per address: the committed row
    cache,    \* per source: the answer kept, and how long it still lives
    calls,    \* per source: calls made in this minute
    asked,    \* history: calls made to a source since it last had no cached answer
    cycle     \* per cycler: how far its cycle is

discoveryVars == <<cand, cache, calls, asked, cycle>>

Statuses == {"candidate", "review", "enrolled"}
CandidateRow == [id : Nat, present : BOOLEAN, risk : 0 .. MaxRisk, sources : SUBSET Active,
                 status : Statuses]
NoCandidate == [id |-> 0, present |-> FALSE, risk |-> 0, sources |-> {}, status |-> "candidate"]
\* What a cycle found: per source the address it reported and its risk.
Findings == [Active -> 0 .. MaxRisk]
Idle == [at |-> "idle", next |-> 1, source |-> NoSource, found |-> [s \in Active |-> 0], row |-> NoCandidate]

DiscoveryTypeOK ==
    /\ cand \in [Addrs -> CandidateRow]
    /\ cache \in [Active -> [kept : 0 .. MaxRisk, life : Nat]]
    /\ calls \in [Active -> Nat] /\ asked \in [Active -> Nat]
    /\ cycle \in [Cyclers -> [at : {"idle", "collecting", "asking"} \cup Addrs,
                              next : Nat \ {0}, source : Active \cup {NoSource},
                              found : Findings, row : CandidateRow]]

DiscoveryInit ==
    /\ cand = [a \in Addrs |-> NoCandidate]
    /\ cache = [s \in Active |-> [kept |-> 0, life |-> 0]]
    /\ calls = [s \in Active |-> 0]
    /\ asked = [s \in Active |-> 0]
    /\ cycle = [w \in Cyclers |-> Idle]

-----------------------------------------------------------------------------
(* collect                                                                  *)

StartCycle(w) ==
    /\ cycle[w].at = "idle" /\ Active # {}
    /\ cycle' = [cycle EXCEPT ![w] = [Idle EXCEPT !.at = "collecting"]]
    /\ UNCHANGED <<cand, cache, calls, asked>>

\* The loop of collect has come to this source.
Considers(w, s) ==
    /\ cycle[w].at = "collecting" /\ cycle[w].next <= Len(Sources)
    /\ s = Sources[cycle[w].next]

Cached(s) == cache[s].life > 0

\* The cached answer, an empty one included, is used as if it had just been given.
UseCache(w, s) ==
    /\ Considers(w, s) /\ Cached(s)
    /\ cycle' = [cycle EXCEPT ![w].next = @ + 1, ![w].found[s] = cache[s].kept]
    /\ UNCHANGED <<cand, cache, calls, asked>>

\* MinuteRateLimiter.allow says no: the source is left out of this cycle.
Limited(w, s) ==
    /\ Considers(w, s) /\ ~Cached(s)
    /\ calls[s] >= PerMinute
    /\ cycle' = [cycle EXCEPT ![w].next = @ + 1]
    /\ UNCHANGED <<cand, cache, calls, asked>>

\* Mutant: the cache is not looked at.
AskAlways(w, s) ==
    /\ Considers(w, s)
    /\ calls[s] < PerMinute
    /\ calls' = [calls EXCEPT ![s] = @ + 1]
    /\ asked' = [asked EXCEPT ![s] = @ + 1]
    /\ cycle' = [cycle EXCEPT ![w].next = @ + 1, ![w].at = "asking", ![w].source = s]
    /\ UNCHANGED <<cand, cache>>

\* The call; other cycles run while it waits, and find the cache as empty.
Ask(w, s) ==
    /\ Considers(w, s) /\ ~Cached(s)
    /\ calls[s] < PerMinute
    /\ calls' = [calls EXCEPT ![s] = @ + 1]
    /\ asked' = [asked EXCEPT ![s] = @ + 1]
    /\ cycle' = [cycle EXCEPT ![w].next = @ + 1, ![w].at = "asking", ![w].source = s]
    /\ UNCHANGED <<cand, cache>>

\* fetch: nothing, when it lacks a key or a scope or the service fails; or a record of
\* its scope, with the risk assess_risk gives it.
Fetched == 0 .. MaxRisk

\* Its answer is cached.  A call that fails counts as an empty answer, kept as long.
Answer(w) ==
    /\ cycle[w].at = "asking"
    /\ LET s == cycle[w].source IN \E risk \in Fetched :
          /\ cache' = [cache EXCEPT ![s] = [kept |-> risk, life |-> CacheLife]]
          /\ cycle' = [cycle EXCEPT ![w].at = "collecting", ![w].source = NoSource, ![w].found[s] = risk]
    /\ UNCHANGED <<cand, calls, asked>>

-----------------------------------------------------------------------------
(* ingest, purge_expired                                                    *)

\* The sources whose report passes ScopeSet.allows.
Reports(w, a) == {s \in Active : cycle[w].found[s] > 0 /\ a \in Allowed[s]}
Gone(row) == [NoCandidate EXCEPT !.id = row.id]

\* purge_expired: the rows it finds too old.
Purged(table) ==
    {[a \in Addrs |-> IF a \in old THEN Gone(table[a]) ELSE table[a]] :
        old \in SUBSET {a \in Addrs : table[a].present}}

\* upsert reads the row.
LoadCandidate(w, a) ==
    /\ cycle[w].at = "collecting" /\ cycle[w].next > Len(Sources) /\ Reports(w, a) # {}
    /\ cycle' = [cycle EXCEPT ![w].at = a, ![w].row = cand[a]]
    /\ UNCHANGED <<cand, cache, calls, asked>>

\* What a merge of all reports of assess_risk into a row's risk leaves: the highest,
\* written as the number of levels of risk it reaches.  Risk never falls.
Highest(w, a, least) ==
    Cardinality({level \in 1 .. MaxRisk :
        level <= least \/ \E s \in Reports(w, a) : level <= cycle[w].found[s]})

\* Mutant: whatever the status of the row.
ReviewStatusAnyway(loaded, risk, now) == IF risk >= Threshold THEN "review" ELSE now

\* Mutant: at the threshold is not above it.
ReviewAbove(loaded, risk, now) ==
    IF risk > Threshold /\ loaded.status = "candidate" THEN "review" ELSE now

\* ingest: the status is written only if the row it loaded read candidate.
ReviewStatus(loaded, risk, now) ==
    IF risk >= Threshold /\ loaded.status = "candidate" THEN "review" ELSE now

\* The insert of a row that was not there.
NewCandidate(w, a) ==
    [id |-> cand[a].id + 1, present |-> TRUE, risk |-> Highest(w, a, 0), sources |-> Reports(w, a),
     status |-> ReviewStatus(NoCandidate, Highest(w, a, 0), "candidate")]

\* The merge into the row: the ORM writes the columns that differ from what it loaded,
\* the status in a statement of its own.
MergedCandidate(w, a) ==
    LET loaded == cycle[w].row
        risk   == Highest(w, a, loaded.risk)
        names  == loaded.sources \cup Reports(w, a)
    IN  [cand[a] EXCEPT !.risk = IF risk = loaded.risk THEN @ ELSE risk,
                        !.sources = IF names = loaded.sources THEN @ ELSE names,
                        !.status = ReviewStatus(loaded, risk, @)]

\* The writes, the purge and the commit of a cycle.  An insert that meets another's
\* row, or an update of a row that is gone, fails the cycle and rolls it back.
StoreCandidate(w, a) ==
    /\ cycle[w].at = a
    /\ \/ /\ ~cycle[w].row.present /\ ~cand[a].present /\ cand[a].id < MaxRows
          /\ cand' \in Purged([cand EXCEPT ![a] = NewCandidate(w, a)])
       \/ /\ cycle[w].row.present /\ cand[a].present /\ cand[a].id = cycle[w].row.id
          /\ cand' \in Purged([cand EXCEPT ![a] = MergedCandidate(w, a)])
    /\ cycle' = [cycle EXCEPT ![w] = Idle]
    /\ UNCHANGED <<cache, calls, asked>>

FailCycle(w, a) ==
    /\ cycle[w].at = a
    /\ cand[a].present # cycle[w].row.present \/ cand[a].id # cycle[w].row.id
    /\ cycle' = [cycle EXCEPT ![w] = Idle]
    /\ UNCHANGED <<cand, cache, calls, asked>>

\* A cycle that has nothing to store.
Purge(w) ==
    /\ cycle[w].at = "collecting" /\ cycle[w].next > Len(Sources) /\ \A a \in Addrs : Reports(w, a) = {}
    /\ cand' \in Purged(cand)
    /\ cycle' = [cycle EXCEPT ![w] = Idle]
    /\ UNCHANGED <<cache, calls, asked>>

-----------------------------------------------------------------------------
(* Administrators, time                                                     *)

\* enroll_candidate: the row is there and register succeeded; the UPDATE goes by its id.
EnrollCandidate(a) ==
    /\ Mode # "disabled" /\ cand[a].present
    /\ cand' = [cand EXCEPT ![a].status = "enrolled"]
    /\ UNCHANGED <<cache, calls, asked, cycle>>

DeleteCandidate(a) ==
    /\ cand[a].present
    /\ cand' = [cand EXCEPT ![a] = Gone(@)]
    /\ UNCHANGED <<cache, calls, asked, cycle>>

\* A minute: the window of the limiter empties, a cached answer may end.
Minute ==
    /\ calls' = [s \in Active |-> 0]
    /\ cache' = [s \in Active |-> [kept |-> IF cache[s].life > 1 THEN cache[s].kept ELSE 0,
                                   life |-> IF cache[s].life > 0 THEN cache[s].life - 1 ELSE 0]]
    /\ asked' = [s \in Active |-> IF cache[s].life = 1 THEN 0 ELSE asked[s]]
    /\ UNCHANGED <<cand, cycle>>

DiscoveryNext ==
    \/ \E w \in Cyclers :
          \/ StartCycle(w) \/ Answer(w) \/ Purge(w)
          \/ \E s \in Active : UseCache(w, s) \/ Limited(w, s) \/ Ask(w, s)
          \/ \E a \in Addrs : LoadCandidate(w, a) \/ StoreCandidate(w, a) \/ FailCycle(w, a)
    \/ \E a \in Addrs : EnrollCandidate(a) \/ DeleteCandidate(a)
    \/ Minute

DiscoverySpec == DiscoveryInit /\ [][DiscoveryNext]_discoveryVars

-----------------------------------------------------------------------------
(* Properties                                                               *)

\* Cycles that run at once may each ask a source whose answer is not there yet, and no
\* more than that: an answer, an error's empty one included, spares the later ones
\* (collect, ResponseCache).
AskedOncePerCycler == \A s \in Active : asked[s] <= Cardinality(Cyclers)

\* A row at or above the threshold is not left a plain candidate, in whatever order
\* cycles that loaded it earlier write it (ingest).
HighRiskReviewed ==
    \A a \in Addrs : cand[a].present /\ cand[a].risk >= Threshold => cand[a].status # "candidate"

\* An enrolled candidate goes back under review only by a cycle that had read the row
\* before it was enrolled; one that reads it enrolled leaves its status alone.
Reopened(a) ==
    cand[a].status = "enrolled" /\ cand'[a].present /\ cand'[a].id = cand[a].id /\ cand'[a].status # "enrolled"
EnrollmentStands ==
    [][\A a \in Addrs : Reopened(a) =>
          \E w \in Cyclers : cycle[w].at = a /\ cycle'[w].at = "idle" /\ cycle[w].row.status = "candidate"]_discoveryVars

=============================================================================

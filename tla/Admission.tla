----------------------------- MODULE Admission -----------------------------
(***************************************************************************)
(* What stands between a user and the nodes: the slots of an API key       *)
(* (generation_slot, embedding_slot), the gate with its token buckets and  *)
(* the daily token quota (_gate), and the tokens charged to the key once a *)
(* generation is over (record_tokens).  All of it lives in the memory of   *)
(* one process.  The gate awaits, but nothing in it suspends while the     *)
(* limits are kept in process, so it is one step; so are the acquisition   *)
(* and the release of a slot, which are done under a lock.                 *)
(***************************************************************************)
EXTENDS Naturals, FiniteSets

CONSTANTS
    Keys,        \* key ids
    Requests,
    Readers,     \* requests of the routes that hold no slot (tags, show, ps, ...)
    Streaming,   \* requests that ask for a stream
    KeyOf,       \* the key a request comes with
    Buckets,     \* "global", one per key, one per model
    Charged,     \* the buckets a request is charged to
    Capacity,    \* requests_per_minute of a bucket
    OwnLimit,    \* concurrent_requests of a key; 0: the policy's
    Budget,      \* tokens_per_day of a key; 0: none
    Policies,    \* the slot limits a configuration may set
    MaxLimit,    \* the largest of them
    Cost         \* bound: the tokens a node reports for one generation

ASSUME AdmissionAssumption ==
    /\ IsFiniteSet(Requests)
    /\ Readers \subseteq Requests /\ Streaming \subseteq Requests \ Readers
    /\ KeyOf \in [Requests -> Keys] /\ Charged \in [Requests -> SUBSET Buckets]
    /\ Capacity \in [Buckets -> Nat \ {0}]
    /\ OwnLimit \in [Keys -> Nat] /\ Budget \in [Keys -> Nat]
    /\ Policies # {} /\ Policies \subseteq [requests : 0 .. MaxLimit, streams : Nat]
    /\ MaxLimit \in Nat \ {0} /\ Cost \in Nat

VARIABLES
    policy,    \* the slot limits in force
    active,    \* per key: slots taken
    streams,   \* per key: slots taken for streams
    tokens,    \* per bucket: whole tokens in it
    used,      \* per key: tokens in its daily window
    req        \* per request: how far it is

vars == <<policy, active, streams, tokens, used, req>>

\* "held": it has a slot; "running": the gate let it through; "over": answered,
\* refused or abandoned, with its slot still to be returned.
Phases == {"idle", "held", "running", "over"}

\* Every variable holds values of its kind, and a bucket is never overfull.
TypeOK ==
    /\ policy \in Policies
    /\ active \in [Keys -> Nat]
    /\ streams \in [Keys -> Nat]
    /\ tokens \in [Buckets -> Nat] /\ \A b \in Buckets : tokens[b] <= Capacity[b]
    /\ used \in [Keys -> Nat]
    /\ req \in [Requests -> Phases]

Init ==
    /\ policy \in Policies
    /\ active = [k \in Keys |-> 0]
    /\ streams = [k \in Keys |-> 0]
    /\ tokens = Capacity
    /\ used = [k \in Keys |-> 0]
    /\ req = [r \in Requests |-> "idle"]

To(r, phase) == req' = [req EXCEPT ![r] = phase]

-----------------------------------------------------------------------------
(* Slots                                                                    *)

AtLeastOne(limit) == IF limit = 0 THEN 1 ELSE limit
\* Mutant: a limit of zero is taken as it is.
LimitAsGiven(k) == IF OwnLimit[k] = 0 THEN policy.requests ELSE OwnLimit[k]

\* effective_limit of the key's own limit or the policy's
Limit(k) == AtLeastOne(IF OwnLimit[k] = 0 THEN policy.requests ELSE OwnLimit[k])
StreamFree(k) == policy.streams = 0 \/ streams[k] < policy.streams

More(count, k) == [count EXCEPT ![k] = @ + 1]
Fewer(count, k) == [count EXCEPT ![k] = IF @ = 0 THEN 0 ELSE @ - 1]

\* user_slot, ConcurrencyLimiter.acquire.  A request it refuses leaves no trace.
Enter(r) ==
    LET k == KeyOf[r] IN
    /\ req[r] = "idle" /\ r \notin Readers
    /\ active[k] < Limit(k)
    /\ r \in Streaming => StreamFree(k)
    /\ active' = More(active, k)
    /\ streams' = IF r \in Streaming THEN More(streams, k) ELSE streams
    /\ To(r, "held")
    /\ UNCHANGED <<policy, tokens, used>>

\* Mutant: the slot of a stream is returned to the count of requests alone.
ReleaseRequestOnly(r) ==
    /\ req[r] = "over"
    /\ IF r \in Readers THEN UNCHANGED active ELSE active' = Fewer(active, KeyOf[r])
    /\ UNCHANGED streams
    /\ To(r, "idle")
    /\ UNCHANGED <<policy, tokens, used>>

\* The end of user_slot: ConcurrencyLimiter.release.
Release(r) ==
    LET k == KeyOf[r] IN
    /\ req[r] = "over"
    /\ active' = IF r \in Readers THEN active ELSE Fewer(active, k)
    /\ streams' = IF r \in Streaming THEN Fewer(streams, k) ELSE streams
    /\ To(r, "idle")
    /\ UNCHANGED <<policy, tokens, used>>

-----------------------------------------------------------------------------
(* The gate and the handler                                                 *)

\* Mutant: off by one.
QuotaNotPassed(k) == Budget[k] = 0 \/ used[k] <= Budget[k]

\* check_daily_tokens
QuotaLeft(k) == Budget[k] = 0 \/ used[k] < Budget[k]

\* _gate: every bucket is charged before the first decision is looked at, so a
\* request that one of them refuses has paid the others.
Gate(r) ==
    /\ req[r] = IF r \in Readers THEN "idle" ELSE "held"
    /\ tokens' = [b \in Buckets |-> IF b \in Charged[r] /\ tokens[b] > 0
                                    THEN tokens[b] - 1 ELSE tokens[b]]
    /\ To(r, IF QuotaLeft(KeyOf[r]) /\ \A b \in Charged[r] : tokens[b] > 0
             THEN "running" ELSE "over")
    /\ UNCHANGED <<policy, active, streams, used>>

\* The body cannot be read or does not validate, the prompt is over its budget, or
\* the client is gone: the handler ends before it comes to the gate.
Reject(r) ==
    /\ req[r] = "held"
    /\ To(r, "over")
    /\ UNCHANGED <<policy, active, streams, tokens, used>>

\* The generation is over; its tokens are charged before the slot is returned.  One
\* that failed, that was abandoned before its last line, or that was no generation
\* at all charges nothing.  The window of a key without a quota is never read.
Finish(r) ==
    /\ req[r] = "running"
    /\ \E cost \in IF r \in Readers THEN {0} ELSE 0 .. Cost :
          used' = IF Budget[KeyOf[r]] = 0 THEN used
                  ELSE [used EXCEPT ![KeyOf[r]] = @ + cost]
    /\ To(r, "over")
    /\ UNCHANGED <<policy, active, streams, tokens>>

-----------------------------------------------------------------------------
(* Time and configuration                                                   *)

\* Mutant: no upper bound.
RefillUncapped(b) ==
    /\ tokens[b] <= Capacity[b]
    /\ tokens' = [tokens EXCEPT ![b] = @ + 1]
    /\ UNCHANGED <<policy, active, streams, used, req>>

\* A bucket refills.  A capacity changed by a reload starts a full bucket, which
\* is the same as time enough.
Refill(b) ==
    /\ tokens[b] < Capacity[b]
    /\ tokens' = [tokens EXCEPT ![b] = @ + 1]
    /\ UNCHANGED <<policy, active, streams, used, req>>

\* The oldest entries leave the daily window.
Slide(k) ==
    /\ \E rest \in 0 .. used[k] : rest < used[k] /\ used' = [used EXCEPT ![k] = rest]
    /\ UNCHANGED <<policy, active, streams, tokens, req>>

\* RateLimiter.refresh: the slots taken are those of the old limits.
Reload ==
    /\ policy' \in Policies \ {policy}
    /\ UNCHANGED <<active, streams, tokens, used, req>>

Next ==
    \/ \E r \in Requests : Enter(r) \/ Release(r) \/ Gate(r) \/ Reject(r) \/ Finish(r)
    \/ \E b \in Buckets : Refill(b)
    \/ \E k \in Keys : Slide(k)
    \/ Reload

Spec == Init /\ [][Next]_vars

\* A handler that can run is run, and a generation ends (every call to a node has a
\* timeout).
Holder(r) == r \notin Readers /\ (Gate(r) \/ Reject(r) \/ Finish(r) \/ Release(r))
FairSpec == Spec /\ \A r \in Requests : WF_vars(Holder(r))

-----------------------------------------------------------------------------
(* Properties                                                               *)

Holders(k) == {r \in Requests \ Readers : KeyOf[r] = k /\ req[r] # "idle"}

\* The slots taken for a key are those of its requests under way, streams counted
\* apart as well (tests/test_load.py: none is left over).
UserSlotsBalance ==
    \A k \in Keys : /\ active[k] = Cardinality(Holders(k))
                    /\ streams[k] = Cardinality(Holders(k) \cap Streaming)

Ceiling(k) == IF OwnLimit[k] = 0 THEN MaxLimit ELSE OwnLimit[k]
\* The daily quota, checked before a generation and charged after it, is overshot by
\* less than what the key's concurrent generations cost (_gate, record_tokens).
QuotaOvershoot ==
    \A k \in Keys : Budget[k] > 0 => used[k] < Budget[k] + Cost * Ceiling(k)

\* A key whose slots are all taken gets one back, even if a reload lowered its limit
\* below what it has taken.
KeyServedAgain == \A k \in Keys : active[k] >= Limit(k) ~> active[k] < Limit(k)

=============================================================================

------------------------------ MODULE Dispatch ------------------------------
(***************************************************************************)
(* How a request gets a node and what its outcome does to the node: pick,  *)
(* the slot taken some awaits later, the answer, the release, and observe  *)
(* with the circuit breaker.  Whether a node is routable and its row still *)
(* serves is NodeRegistry's business; here a sync pass may change the one, *)
(* and the check of the other may fail, at any time.  The balancing        *)
(* algorithm is abstracted to a choice among the nodes it is given.        *)
(***************************************************************************)
EXTENDS CircuitBreaker, FiniteSets

CONSTANTS
    Nodes,
    NoNode,
    Requests,
    Pollers,       \* requests that are one branch of a fanout
    Serves,        \* per request: the nodes that have its model
    Degraded,      \* nodes in state degraded
    Slots,         \* max_concurrency of a node
    HourlyLimit,   \* max_requests_per_hour; 0: none
    Cancels,       \* TRUE: a client may go away while its stream is being opened
    Bans,          \* TRUE: an administrator may blacklist nodes
    MaxEvents      \* bound: results in the window of a breaker

ASSUME DispatchAssumption ==
    /\ NoNode \notin Nodes /\ IsFiniteSet(Requests) /\ Pollers \subseteq Requests
    /\ Serves \in [Requests -> SUBSET Nodes] /\ Degraded \subseteq Nodes
    /\ Slots \in Nat \ {0} /\ HourlyLimit \in Nat /\ MaxEvents \in Nat
    /\ Cancels \in BOOLEAN /\ Bans \in BOOLEAN

VARIABLES
    br,         \* per node: its breaker
    routable,   \* nodes the pool offers
    active,     \* per node: slots taken
    spent,      \* per node: requests_this_hour
    denied,     \* nodes with a 401/403 in their passive window
    req,        \* per request: where it is
    probing     \* history: per node, the requests admitted as probes and under way

vars == <<br, routable, active, spent, denied, req, probing>>

Request == [pc : {"idle", "waiting", "picked", "sent", "polling"},
            node : Nodes \cup {NoNode}, exclude : SUBSET Nodes]
IdleRequest == [pc |-> "idle", node |-> NoNode, exclude |-> {}]

\* Every variable holds values of its kind.
TypeOK ==
    /\ br \in [Nodes -> Breaker]
    /\ routable \subseteq Nodes
    /\ active \in [Nodes -> 0 .. Slots]
    /\ spent \in [Nodes -> Nat]
    /\ denied \subseteq Nodes
    /\ req \in [Requests -> Request]
    /\ probing \in [Nodes -> SUBSET Requests]

Init ==
    /\ br = [n \in Nodes |-> NewBreaker]
    /\ routable = Nodes
    /\ active = [n \in Nodes |-> 0]
    /\ spent = [n \in Nodes |-> 0]
    /\ denied = {}
    /\ req = [r \in Requests |-> IdleRequest]
    /\ probing = [n \in Nodes |-> {}]

To(r, pc, n) == req' = [req EXCEPT ![r].pc = pc, ![r].node = n]
End(r) == req' = [req EXCEPT ![r] = IdleRequest]
\* The next round of the loop, without the node of this one.
TryAnother(r) ==
    req' = [req EXCEPT ![r] = [pc |-> "waiting", node |-> NoNode,
                               exclude |-> req[r].exclude \cup {req[r].node}]]

-----------------------------------------------------------------------------
(* Choosing a node                                                          *)

\* Mutants: off by one.
WithinBudgetOrAtIt(n) == HourlyLimit = 0 \/ spent[n] <= HourlyLimit
HasCapacityForOneMore(n) == active[n] <= Slots

\* limits_allow
WithinBudget(n) == HourlyLimit = 0 \/ spent[n] < HourlyLimit
HasCapacity(n) == active[n] < Slots

Or(preferred, otherwise) == IF preferred # {} THEN preferred ELSE otherwise

\* eligible asks the breaker of every node it looks at; those that admit are then
\* filtered by model and budget, and the lists chosen from in their order.
Asked(r) == routable \ req[r].exclude
Fit(r) == {n \in Asked(r) : /\ Admits(Cooled(br[n]))
                            /\ n \in Serves[r]
                            /\ WithinBudget(n)}
Eligible(r) ==
    LET ranked == Or(Fit(r) \ Degraded, Fit(r))
    IN  Or({n \in ranked : HasCapacity(n)}, ranked)

\* NodePool.pick.  Without an eligible node it raises, and the breakers that were
\* asked stay as asking left them.
Pick(r) ==
    /\ r \notin Pollers
    /\ req[r].pc \in {"idle", "waiting"}
    /\ routable \cap Serves[r] # {}
    /\ br' = [n \in Nodes |-> IF n \in Asked(r) THEN Allow(br[n]) ELSE br[n]]
    /\ \/ /\ Eligible(r) = {}
          /\ End(r)
          /\ UNCHANGED probing
       \/ \E n \in Eligible(r) :
             /\ To(r, "picked", n)
             /\ probing' = IF br'[n].st = "half_open"
                           THEN [probing EXCEPT ![n] = @ \cup {r}] ELSE probing
    /\ UNCHANGED <<routable, active, spent, denied>>

NoLongerProbing(r) == probing' = [n \in Nodes |-> probing[n] \ {r}]

\* The row and the consent, read since, still serve: acquire, note_request.  All
\* slots taken: the request waits and picks again.
Acquire(r) ==
    LET n == req[r].node IN
    /\ req[r].pc = "picked"
    /\ IF HasCapacity(n)
       THEN /\ To(r, "sent", n)
            /\ active' = [active EXCEPT ![n] = @ + 1]
            /\ spent' = IF HourlyLimit = 0 THEN spent ELSE [spent EXCEPT ![n] = @ + 1]
            /\ UNCHANGED probing
       ELSE /\ To(r, "waiting", NoNode)
            /\ NoLongerProbing(r)
            /\ UNCHANGED <<active, spent>>
    /\ UNCHANGED <<br, routable, denied>>

\* The row or the consent no longer serves.
Refuse(r) ==
    /\ req[r].pc = "picked"
    /\ TryAnother(r)
    /\ NoLongerProbing(r)
    /\ UNCHANGED <<br, routable, active, spent, denied>>

\* pick raises for want of a node that has the model, or queue_wait_timeout is over.
GiveUp(r) ==
    /\ req[r].pc = "waiting"
    /\ End(r)
    /\ UNCHANGED <<br, routable, active, spent, denied, probing>>

\* fanout sends to every routable node, past the breaker and the slots.
Poll(r) ==
    /\ r \in Pollers
    /\ req[r].pc = "idle"
    /\ \E n \in routable : To(r, "polling", n)
    /\ UNCHANGED <<br, routable, active, spent, denied, probing>>

-----------------------------------------------------------------------------
(* The outcome                                                              *)

\* NodeRuntime.release
Release(n) == active' = [active EXCEPT ![n] = IF @ = 0 THEN 0 ELSE @ - 1]

\* NodeService.observe: the breaker, then the reaction to a 401/403 that is in the
\* window, be it this result's or an earlier one's.
Observe(n, outcome) ==
    LET b == Record(br[n], outcome = "ok")
        refused == denied \cup (IF outcome = "denied" THEN {n} ELSE {})
        banned == n \in refused /\ n \in routable
        after == IF banned THEN Trip(b) ELSE b
    IN  /\ Total(br[n]) < MaxEvents
        /\ br' = [br EXCEPT ![n] = after]
        /\ denied' = refused
        /\ routable' = IF banned THEN routable \ {n} ELSE routable
        /\ probing' = [probing EXCEPT ![n] = IF after.st = "half_open" THEN @ ELSE {}]

\* Mutant: a branch of a fanout releases a slot it never took.
DoneReleasingPolls(r) ==
    /\ req[r].pc \in {"sent", "polling"}
    /\ Observe(req[r].node, "failed")
    /\ End(r)
    /\ Release(req[r].node)
    /\ UNCHANGED spent

\* The answer, the error or the end of the stream.  A failure the node cannot have
\* acted on is tried again elsewhere, while attempts last.
Done(r) ==
    /\ req[r].pc \in {"sent", "polling"}
    /\ \E outcome \in {"ok", "failed", "denied"} :
          /\ Observe(req[r].node, outcome)
          /\ \/ End(r)
             \/ req[r].pc = "sent" /\ outcome = "failed" /\ TryAnother(r)
    /\ IF req[r].pc = "sent" THEN Release(req[r].node) ELSE UNCHANGED active
    /\ UNCHANGED spent

\* The client goes away while _open_stream waits for the node: the cancellation is
\* not one of the exceptions that release the slot and record the result.
Cancel(r) ==
    /\ Cancels
    /\ req[r].pc \in {"picked", "waiting", "sent"}
    /\ End(r)
    /\ NoLongerProbing(r)
    /\ UNCHANGED <<br, routable, active, spent, denied>>

-----------------------------------------------------------------------------
(* The registry and the clock                                               *)

\* A sync pass keeps the runtime and changes its routable flag.
Sync(n) ==
    /\ routable' = IF n \in routable THEN routable \ {n} ELSE routable \cup {n}
    /\ UNCHANGED <<br, active, spent, denied, req, probing>>

\* NodeService.blacklist, on the runtime; the sync pass it ends with has nothing
\* to change.
Ban(n) ==
    /\ Bans
    /\ routable' = routable \ {n}
    /\ br' = [br EXCEPT ![n] = Trip(@)]
    /\ probing' = [probing EXCEPT ![n] = {}]
    /\ UNCHANGED <<active, spent, denied, req>>

Tick ==
    /\ br' = [n \in Nodes |-> Older(br[n])]
    /\ UNCHANGED <<routable, active, spent, denied, req, probing>>

\* The passive window outlives the breaker's: a 401/403 leaves it some time later.
Forget(n) ==
    /\ n \in denied
    /\ denied' = denied \ {n}
    /\ UNCHANGED <<br, routable, active, spent, req, probing>>

\* _roll_hour
NewHour(n) ==
    /\ spent[n] > 0
    /\ spent' = [spent EXCEPT ![n] = 0]
    /\ UNCHANGED <<br, routable, active, denied, req, probing>>

Next ==
    \/ \E r \in Requests : \/ Pick(r) \/ Acquire(r) \/ Refuse(r) \/ GiveUp(r)
                           \/ Poll(r) \/ Done(r) \/ Cancel(r)
    \/ \E n \in Nodes : Sync(n) \/ Ban(n) \/ Forget(n) \/ NewHour(n)
    \/ Tick

Spec == Init /\ [][Next]_vars

\* Some user keeps asking for a node; a request under way goes on, and its answer
\* has a timeout; time passes.
FairSpec ==
    /\ Spec
    /\ WF_vars(Tick)
    /\ SF_vars(\E r \in Requests : Pick(r))
    /\ \A r \in Requests : WF_vars(Acquire(r) \/ Refuse(r)) /\ SF_vars(Done(r))

-----------------------------------------------------------------------------
(* Properties                                                               *)

InFlight(n) == {r \in Requests : req[r].pc = "sent" /\ req[r].node = n}
PickedFor(n) == {r \in Requests : req[r].pc = "picked" /\ req[r].node = n}

\* A half-open node is probed by at most half_open_probes requests at a time, and
\* only a half-open node is (CircuitBreaker.allow, record).
ProbeBudget ==
    \A n \in Nodes :
        /\ Cardinality(probing[n]) <= br[n].probes
        /\ br[n].probes <= Probes
        /\ br[n].st # "half_open" => br[n].probes = 0

\* The slots taken on a node are those of the requests it is serving
\* (tests/test_load.py: no slot is left over).
SlotsReturned == \A n \in Nodes : active[n] = Cardinality(InFlight(n))

\* The hourly budget, checked by pick and charged by note_request after two awaits,
\* is overshot by less than the number of requests at work.
BudgetSlack ==
    HourlyLimit > 0 =>
        \A n \in Nodes :
            spent[n] + Cardinality(PickedFor(n))
                < HourlyLimit + Cardinality(Requests \ Pollers)

\* A breaker that opened is tried again: it does not stay open for ever while its
\* node is routable and requests for its models come.
OpenEnds == \A n \in Nodes : br[n].st = "open" ~> (br[n].st # "open" \/ n \notin routable)

-----------------------------------------------------------------------------
(* What the documents promise and the code does not keep                    *)

\* An open circuit closes the node temporarily: its trial ends, one way or the other.
HalfOpenEnds ==
    \A n \in Nodes : br[n].st = "half_open" ~> (br[n].st # "half_open" \/ n \notin routable)

=============================================================================

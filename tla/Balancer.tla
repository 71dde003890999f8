------------------------------ MODULE Balancer ------------------------------
(***************************************************************************)
(* The balancing algorithms of NodePool._select and what they remember     *)
(* from one choice to the next: the round-robin cursor and the currents of *)
(* the smooth weighted round robin, one of each for all models, and the    *)
(* hash ring, which is computed afresh.  Which nodes may serve is          *)
(* Dispatch's subject: here the fit ones change at will.  least_latency    *)
(* and the hybrid score compare measurements and may choose any node.      *)
(***************************************************************************)
EXTENDS Integers, FiniteSets, FiniteSetsExt, SequencesExt

CONSTANTS
    Order,         \* the nodes, in the order of their identifiers
    Base,          \* per node: the weight of its row
    Slots,         \* per node: max_concurrency
    Keys,          \* hash keys: an API key and a model
    Ring,          \* per key: the points of the nodes, <<node, replica>>, in ring order
                   \* from the key's own point on
    Algorithms,
    MaxChoices     \* bound on the choices counted since the nodes last changed

Nodes == ToSet(Order)

ASSUME BalancerAssumption ==
    /\ Order \in Seq(Nodes) /\ IsInjective(Order) /\ IsFiniteSet(Keys) /\ MaxChoices \in Nat
    /\ Base \in [Nodes -> Nat \ {0}] /\ Slots \in [Nodes -> Nat \ {0}]
    /\ \A k \in Keys : /\ Ring[k] \in Seq(Nodes \X Nat) /\ IsInjective(Ring[k])
                       /\ ToSet(Ring[k]) = UNION {{n} \X (1 .. Base[n]) : n \in Nodes}
    /\ Algorithms \subseteq {"round_robin", "weighted_round_robin", "least_connections", "consistent_hash", "other"}

VARIABLES
    algorithm,
    fit,        \* nodes that are routable, admitted, have the model and a budget
    weight,     \* per node: effective_weight
    active,     \* per node: slots taken
    cursor,     \* _rr_cursor["rr"]
    currents,   \* _wrr_state["currents"]
    turns       \* history: per node, how often it was chosen since the eligible nodes,
                \* or their weights, last changed

balancerVars == <<algorithm, fit, weight, active, cursor, currents, turns>>

BalancerTypeOK ==
    /\ algorithm \in Algorithms /\ fit \subseteq Nodes
    /\ weight \in [Nodes -> Nat \ {0}]
    /\ active \in [Nodes -> Nat] /\ \A n \in Nodes : active[n] <= Slots[n]
    /\ cursor \in {0} \cup 0 .. Cardinality(Nodes) - 1
    /\ DOMAIN currents \subseteq Nodes /\ \A n \in DOMAIN currents : currents[n] \in Int
    /\ DOMAIN turns \subseteq Nodes /\ \A n \in DOMAIN turns : turns[n] \in Nat

BalancerInit ==
    /\ algorithm \in Algorithms
    /\ fit = Nodes /\ weight = Base
    /\ active = [n \in Nodes |-> 0]
    /\ cursor = 0 /\ currents = <<>> /\ turns = <<>>

-----------------------------------------------------------------------------
(* The algorithms, each as the nodes it may choose                          *)

\* _with_capacity: nodes with a free slot, or all of them if there is none.
Free(E) == {n \in E : active[n] < Slots[n]}
Eligible == IF Free(fit) # {} THEN Free(fit) ELSE fit

\* The place of a node among the nodes E, sorted by their identifiers.
Place(n) == CHOOSE i \in DOMAIN Order : Order[i] = n
Rank(E, n) == Cardinality({m \in E : Place(m) < Place(n)})

RoundRobin(E) == {n \in E : Rank(E, n) = cursor % Cardinality(E)}

\* Mutant: the cursor is kept on the last node, not moved behind it.
CursorKept(E) == (cursor % Cardinality(E)) % Cardinality(E)
NextCursor(E) == ((cursor % Cardinality(E)) + 1) % Cardinality(E)

SumOver(f, E) == MapThenSumSet(LAMBDA n : f[n], E)
Total(E) == SumOver(weight, E)

\* The currents of other nodes than these are forgotten; each grows by its weight.
Grown(E) == [n \in E |-> (IF DOMAIN currents = E THEN currents[n] ELSE 0) + weight[n]]

\* The largest current, then the fewest slots taken, then the largest identifier.
Before(n, m) ==
    LET g == Grown(Eligible)
    IN  \/ g[n] > g[m]
        \/ g[n] = g[m] /\ active[n] < active[m]
        \/ g[n] = g[m] /\ active[n] = active[m] /\ Place(n) > Place(m)
WeightedRoundRobin(E) == {n \in E : \A m \in E \ {n} : Before(n, m)}

\* Mutant: the chosen node is not charged what the choice gave to all.
ChargedNothing(E, n) == Grown(E)
Charged(E, n) == [Grown(E) EXCEPT ![n] = @ - Total(E)]

LeastConnections(E) == {n \in E : \A m \in E : active[n] * weight[m] <= active[m] * weight[n]}

\* Mutant: the key picks by number, not by place on the ring.
HomeByNumber(E, k) == {n \in E : Rank(E, n) = Len(Ring[k]) % Cardinality(E)}

\* From the key's point on, the points of nodes with a free slot; a node has as many
\* points as its weight gives it.  The key is at home at the first of them.
FreePoints(E, k) ==
    {i \in DOMAIN Ring[k] : Ring[k][i][1] \in Free(E) /\ Ring[k][i][2] <= weight[Ring[k][i][1]]}
Home(E, k) ==
    IF FreePoints(E, k) # {} THEN {Ring[k][Min(FreePoints(E, k))][1]}
    ELSE {n \in E : \A m \in E : active[n] * Slots[m] <= active[m] * Slots[n]}

Selected(E, k) ==
    CASE algorithm = "round_robin" -> RoundRobin(E)
      [] algorithm = "weighted_round_robin" -> WeightedRoundRobin(E)
      [] algorithm = "least_connections" -> LeastConnections(E)
      [] algorithm = "consistent_hash" -> Home(E, k)
      [] OTHER -> E

-----------------------------------------------------------------------------
(* Steps                                                                    *)

Counted(E) == IF DOMAIN turns = E THEN turns ELSE [n \in E |-> 0]

\* pick and acquire: the chosen node gives a slot, if it has one.
Choose(k) ==
    LET E == Eligible IN
    /\ E # {}
    /\ SumOver(Counted(E), E) < MaxChoices
    /\ \E n \in Selected(E, k) :
          /\ active' = IF active[n] < Slots[n] THEN [active EXCEPT ![n] = @ + 1] ELSE active
          /\ currents' = IF algorithm = "weighted_round_robin" THEN Charged(E, n) ELSE currents
          /\ turns' = [Counted(E) EXCEPT ![n] = @ + 1]
    /\ cursor' = IF algorithm = "round_robin" THEN NextCursor(E) ELSE cursor
    /\ UNCHANGED <<algorithm, fit, weight>>

Release(n) ==
    /\ active[n] > 0
    /\ active' = [active EXCEPT ![n] = @ - 1]
    /\ UNCHANGED <<algorithm, fit, weight, cursor, currents, turns>>

\* A node comes or goes: a sync pass, a breaker, a budget, another model asked for.
FitChanges(n) ==
    /\ fit' = IF n \in fit THEN fit \ {n} ELSE fit \cup {n}
    /\ UNCHANGED <<algorithm, weight, active, cursor, currents, turns>>

\* observe halves the weight of a node with many errors; a sync pass gives it back.
Reweigh(n) ==
    /\ weight' = [weight EXCEPT ![n] = IF @ = Base[n] THEN Max({1, Base[n] \div 2}) ELSE Base[n]]
    /\ turns' = <<>>
    /\ UNCHANGED <<algorithm, fit, active, cursor, currents>>

BalancerNext ==
    \/ \E k \in Keys : Choose(k)
    \/ \E n \in Nodes : Release(n) \/ FitChanges(n) \/ Reweigh(n)

BalancerSpec == BalancerInit /\ [][BalancerNext]_balancerVars

-----------------------------------------------------------------------------
(* Properties                                                               *)

\* As long as the same nodes are eligible, round robin gives each as many calls as the
\* others, give or take one, wherever other sets of nodes left the cursor (_round_robin).
SpreadEvenly ==
    algorithm = "round_robin" => \A n, m \in DOMAIN turns : turns[n] <= turns[m] + 1

\* The weighted round robin gives each its share of weight: after any number of choices a
\* node is off by less than a round for each node, counted with the weights of the rows,
\* with whatever currents it began (_weighted_round_robin).
SharesKept ==
    LET E == DOMAIN turns
        off(n) == turns[n] * Total(E) - SumOver(turns, E) * weight[n]
        slack == Cardinality(E) * SumOver(Base, E)
    IN  algorithm = "weighted_round_robin" => \A n \in E : -slack < off(n) /\ off(n) < slack

\* With consistent_hash a key moves only when it has to: its node left or is full, or a
\* node that came, or has a slot again, is before it on the ring (_consistent_hash).
HashSticks ==
    [][ algorithm = "consistent_hash" /\ weight' = weight =>
        \A k \in Keys :
            /\ Free(fit) # {} /\ Free(fit)' # {}
            /\ Home(Eligible, k)' # Home(Eligible, k)
            => \/ Home(Eligible, k) \cap Free(fit)' = {}
               \/ Home(Eligible, k)' \cap Free(fit) = {} ]_balancerVars

=============================================================================

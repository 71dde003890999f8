--------------------------- MODULE DispatchProofs ---------------------------
(***************************************************************************)
(* Proofs about Dispatch, for any nodes, requests, slots, limits and       *)
(* breaker settings: types, the probe budget, the overshoot of the hourly  *)
(* budget and, as long as no client goes away, the return of the slots.    *)
(***************************************************************************)
EXTENDS Dispatch, FiniteSetTheorems, TLAPS

States == {"closed", "open", "half_open"}

\* What the operations of a breaker keep: its probes are those of a half-open one.
Sound(b) == b \in Breaker /\ (b.st # "half_open" => b.probes = 0)

LEMMA BreakerParameters ==
    /\ Window \in Nat /\ OpenFor \in Nat /\ Probes \in Nat /\ Probes > 0
    /\ 0 \in Ages /\ 0 \in 0 .. OpenFor /\ 0 \in 0 .. Probes
BY BreakerAssumption DEF Ages

LEMMA NewBreakerSound == Sound(NewBreaker) /\ NewBreaker.probes = 0
BY BreakerParameters DEF Sound, Breaker, NewBreaker, NoEvents

LEMMA TripSound ==
    ASSUME NEW b \in Breaker
    PROVE  Sound(Trip(b)) /\ Trip(b).st = "open" /\ Trip(b).probes = 0
<1>1. Trip(b).st = "open" /\ Trip(b).opened = 0 /\ Trip(b).probes = 0
  BY DEF Trip, Breaker
<1>2. Trip(b) \in Breaker
  BY BreakerParameters DEF Trip, Breaker
<1> QED
  BY <1>1, <1>2 DEF Sound

LEMMA CooledSound ==
    ASSUME NEW b, Sound(b)
    PROVE  /\ Sound(Cooled(b)) /\ Cooled(b).probes = b.probes
           /\ b.st # "open" => Cooled(b) = b
<1>1. CASE b.st = "open" /\ b.opened = OpenFor
  <2>1. Cooled(b) = [b EXCEPT !.st = "half_open", !.opened = 0, !.probes = 0]
    BY <1>1 DEF Cooled
  <2>2. Cooled(b) \in Breaker /\ Cooled(b).probes = 0 /\ Cooled(b).st = "half_open"
    BY <2>1, BreakerParameters DEF Sound, Breaker
  <2> QED
    BY <1>1, <2>2 DEF Sound
<1>2. CASE ~(b.st = "open" /\ b.opened = OpenFor)
  BY <1>2 DEF Cooled
<1> QED
  BY <1>1, <1>2

\* Asking a breaker costs at most one probe, and a half-open one that admits is paid.
LEMMA AllowSound ==
    ASSUME NEW b, Sound(b)
    PROVE  /\ Sound(Allow(b))
           /\ Allow(b).probes \in {b.probes, b.probes + 1}
           /\ Admits(Cooled(b)) /\ Allow(b).st = "half_open"
                => Allow(b).probes = b.probes + 1
<1> DEFINE c == Cooled(b)
<1>1. Sound(c) /\ c.probes = b.probes /\ c.probes \in 0 .. Probes
  BY CooledSound DEF Sound, Breaker
<1>2. CASE c.st = "half_open" /\ Admits(c)
  <2>1. Allow(b) = [c EXCEPT !.probes = @ + 1]
    BY <1>2 DEF Allow
  <2>2. c.probes + 1 \in 0 .. Probes
    BY <1>1, <1>2, BreakerParameters DEF Admits
  <2> HIDE DEF c
  <2>3. Allow(b) \in Breaker /\ Allow(b).probes = c.probes + 1 /\ Allow(b).st = "half_open"
    BY <1>1, <1>2, <2>1, <2>2 DEF Sound, Breaker
  <2> QED
    BY <1>1, <2>3 DEF Sound
<1>3. CASE ~(c.st = "half_open" /\ Admits(c))
  <2>1. Allow(b) = c
    BY <1>3 DEF Allow
  <2> QED
    BY <1>1, <1>3, <2>1
<1> QED
  BY <1>2, <1>3

LEMMA LoggedType ==
    ASSUME NEW b \in Breaker, NEW ok \in BOOLEAN
    PROVE  /\ Logged(b, ok) \in Breaker
           /\ Logged(b, ok).st = b.st /\ Logged(b, ok).probes = b.probes
<1>1. /\ b.good \in [Ages -> Nat] /\ b.bad \in [Ages -> Nat] /\ 0 \in Ages
  BY BreakerParameters DEF Breaker
<1>2. CASE ok
  <2>1. [b.good EXCEPT ![0] = @ + 1] \in [Ages -> Nat]
    BY <1>1
  <2>2. Logged(b, ok) = [b EXCEPT !.good = [b.good EXCEPT ![0] = @ + 1]]
    BY <1>2 DEF Logged, Breaker
  <2> QED
    BY <2>1, <2>2 DEF Breaker
<1>3. CASE ~ok
  <2>1. [b.bad EXCEPT ![0] = @ + 1] \in [Ages -> Nat]
    BY <1>1
  <2>2. Logged(b, ok) = [b EXCEPT !.bad = [b.bad EXCEPT ![0] = @ + 1]]
    BY <1>3 DEF Logged, Breaker
  <2> QED
    BY <2>1, <2>2 DEF Breaker
<1> QED
  BY <1>2, <1>3

\* No result leaves a breaker half open.
LEMMA RecordSound ==
    ASSUME NEW b, Sound(b), NEW ok \in BOOLEAN
    PROVE  Sound(Record(b, ok)) /\ Record(b, ok).st # "half_open"
<1> DEFINE l == Logged(b, ok)
           c == Probed(l, ok)
<1>1. Sound(l)
  BY LoggedType DEF Sound
<1> HIDE DEF l
<1>2. Sound(c) /\ c.st # "half_open"
  <2>1. CASE l.st = "half_open" /\ ok
    <3>1. c = [l EXCEPT !.st = "closed", !.probes = 0]
      BY <2>1 DEF Probed
    <3>2. c \in Breaker /\ c.st = "closed" /\ c.probes = 0
      BY <1>1, <3>1, BreakerParameters DEF Sound, Breaker
    <3> QED
      BY <3>2 DEF Sound
  <2>2. CASE l.st = "half_open" /\ ~ok
    BY <1>1, <2>2, TripSound DEF Probed, Sound
  <2>3. CASE l.st # "half_open"
    BY <1>1, <2>3 DEF Probed
  <2> QED
    BY <2>1, <2>2, <2>3
<1>3. Record(b, ok) \in {c, Trip(c)}
  BY DEF Record, l
<1> QED
  BY <1>2, <1>3, TripSound DEF Sound

LEMMA OlderSound ==
    ASSUME NEW b, Sound(b)
    PROVE  Sound(Older(b)) /\ Older(b).st = b.st /\ Older(b).probes = b.probes
<1> DEFINE g == Shifted(b.good)
           f == Shifted(b.bad)
           o == IF b.st = "open" /\ b.opened < OpenFor THEN b.opened + 1 ELSE b.opened
<1>1. g \in [Ages -> Nat] /\ f \in [Ages -> Nat]
  BY BreakerParameters DEF Shifted, Sound, Breaker, Ages
<1>2. o \in 0 .. OpenFor
  BY BreakerParameters DEF Sound, Breaker
<1>3. Older(b) = [b EXCEPT !.good = g, !.bad = f, !.opened = o]
  BY DEF Older, Sound, Breaker
<1> HIDE DEF g, f, o
<1> QED
  BY <1>1, <1>2, <1>3 DEF Sound, Breaker

-----------------------------------------------------------------------------
(* Types, and where a request may be                                        *)

Attached == {"picked", "sent", "polling"}
Placed(r, q) ==
    /\ q \in Request
    /\ q.pc \in Attached => q.node \in Nodes
    /\ q.pc \in {"waiting", "picked", "sent"} => r \notin Pollers
    /\ q.pc \in {"idle", "waiting"} => q.node = NoNode

TypeInv ==
    /\ br \in [Nodes -> Breaker] /\ \A n \in Nodes : Sound(br[n])
    /\ routable \subseteq Nodes /\ denied \subseteq Nodes
    /\ active \in [Nodes -> 0 .. Slots] /\ spent \in [Nodes -> Nat]
    /\ probing \in [Nodes -> SUBSET Requests]
    /\ req \in [Requests -> Request] /\ \A r \in Requests : Placed(r, req[r])

LEMMA Parameters ==
    /\ NoNode \notin Nodes /\ IsFiniteSet(Requests) /\ Pollers \subseteq Requests
    /\ Slots \in Nat /\ Slots > 0 /\ HourlyLimit \in Nat
BY DispatchAssumption

\* The requests after r has moved.
Moved(r) ==
    /\ req' \in [Requests -> Request] /\ Placed(r, req'[r])
    /\ \A x \in Requests \ {r} : req'[x] = req[x]

LEMMA MovedPlaced ==
    ASSUME TypeInv, NEW r \in Requests, Moved(r)
    PROVE  \A x \in Requests : Placed(x, req'[x])
BY DEF TypeInv, Moved

LEMMA ToMoves ==
    ASSUME TypeInv, NEW r \in Requests, NEW pc, NEW n \in Nodes \cup {NoNode}, To(r, pc, n),
           \/ pc \in {"picked", "sent"} /\ n \in Nodes /\ r \notin Pollers
           \/ pc = "polling" /\ n \in Nodes
           \/ pc = "waiting" /\ n = NoNode /\ r \notin Pollers
    PROVE  Moved(r) /\ req'[r].pc = pc /\ req'[r].node = n
<1> DEFINE q == [req[r] EXCEPT !.pc = pc, !.node = n]
<1>1. req[r] \in Request
  BY DEF TypeInv
<1>2. req' = [req EXCEPT ![r] = q]
  BY DEF To, TypeInv
<1>3. q \in Request /\ q.pc = pc /\ q.node = n
  BY <1>1 DEF Request
<1> HIDE DEF q
<1> QED
  BY <1>2, <1>3 DEF Moved, Placed, Attached, TypeInv

LEMMA EndMoves ==
    ASSUME TypeInv, NEW r \in Requests, End(r)
    PROVE  Moved(r) /\ req'[r].pc = "idle"
<1>1. IdleRequest \in Request /\ IdleRequest.pc = "idle" /\ IdleRequest.node = NoNode
  BY DEF IdleRequest, Request
<1> QED
  BY <1>1 DEF End, Moved, Placed, Attached, TypeInv

LEMMA AnotherMoves ==
    ASSUME TypeInv, NEW r \in Requests, TryAnother(r), req[r].pc \in {"picked", "sent"}
    PROVE  Moved(r) /\ req'[r].pc = "waiting"
<1> DEFINE q == [pc |-> "waiting", node |-> NoNode,
                 exclude |-> req[r].exclude \cup {req[r].node}]
<1>1. req[r] \in Request /\ req[r].node \in Nodes /\ r \notin Pollers
  BY DEF TypeInv, Placed, Attached
<1>2. q \in Request /\ q.pc = "waiting" /\ q.node = NoNode
  BY <1>1 DEF Request
<1>3. req' = [req EXCEPT ![r] = q]
  BY DEF TryAnother
<1> HIDE DEF q
<1> QED
  BY <1>1, <1>2, <1>3 DEF Moved, Placed, Attached, TypeInv

LEMMA TypeInit == Init => TypeInv
<1> SUFFICES ASSUME Init PROVE TypeInv
  OBVIOUS
<1>1. IdleRequest \in Request /\ IdleRequest.pc = "idle" /\ IdleRequest.node = NoNode
  BY DEF IdleRequest, Request
<1> QED
  BY <1>1, NewBreakerSound, Parameters DEF Init, TypeInv, Sound, Placed, Attached

LEMMA PickType ==
    ASSUME TypeInv, NEW r \in Requests, Pick(r)
    PROVE  /\ TypeInv' /\ Moved(r)
           /\ \/ req'[r].pc = "idle"
              \/ req'[r].pc = "picked" /\ req'[r].node \in Eligible(r)
<1>1. br' \in [Nodes -> Breaker] /\ \A n \in Nodes : Sound(br'[n])
  BY AllowSound DEF Pick, TypeInv, Sound
<1>2. /\ Moved(r) /\ probing' \in [Nodes -> SUBSET Requests]
      /\ \/ req'[r].pc = "idle"
         \/ req'[r].pc = "picked" /\ req'[r].node \in Eligible(r)
  <2>1. CASE End(r) /\ UNCHANGED probing
    BY <2>1, EndMoves DEF TypeInv
  <2>2. ASSUME NEW n \in Eligible(r), To(r, "picked", n),
               probing' = IF br'[n].st = "half_open"
                          THEN [probing EXCEPT ![n] = @ \cup {r}] ELSE probing
        PROVE  /\ Moved(r) /\ probing' \in [Nodes -> SUBSET Requests]
               /\ req'[r].pc = "picked" /\ req'[r].node \in Eligible(r)
    <3>1. n \in Nodes
      BY DEF TypeInv, Eligible, Or, Fit, Asked
    <3> QED
      BY <2>2, <3>1, ToMoves DEF TypeInv, Pick
  <2> QED
    BY <2>1, <2>2 DEF Pick
<1> QED
  BY <1>1, <1>2, MovedPlaced DEF Pick, TypeInv, Moved

LEMMA AcquireType ==
    ASSUME TypeInv, NEW r \in Requests, Acquire(r)
    PROVE  /\ TypeInv' /\ Moved(r)
           /\ IF HasCapacity(req[r].node)
              THEN req'[r].pc = "sent" /\ req'[r].node = req[r].node
              ELSE req'[r].pc = "waiting"
<1> DEFINE n == req[r].node
<1>1. n \in Nodes /\ r \notin Pollers
  BY DEF Acquire, TypeInv, Placed, Attached
<1>2. CASE HasCapacity(n)
  <2>1. Moved(r) /\ req'[r].pc = "sent" /\ req'[r].node = n
    BY <1>1, <1>2, ToMoves DEF Acquire
  <2>2. active' \in [Nodes -> 0 .. Slots] /\ spent' \in [Nodes -> Nat]
    BY <1>1, <1>2, Parameters DEF Acquire, TypeInv, HasCapacity
  <2> QED
    BY <1>2, <2>1, <2>2, MovedPlaced DEF Acquire, TypeInv, Moved
<1>3. CASE ~HasCapacity(n)
  <2>1. Moved(r) /\ req'[r].pc = "waiting"
    BY <1>1, <1>3, ToMoves DEF Acquire
  <2>2. probing' \in [Nodes -> SUBSET Requests]
    BY <1>3 DEF Acquire, NoLongerProbing, TypeInv
  <2> QED
    BY <1>3, <2>1, <2>2, MovedPlaced DEF Acquire, TypeInv, Moved
<1> QED
  BY <1>2, <1>3

\* The steps that end a request's round and touch nothing but its probes.
LEMMA QuietType ==
    ASSUME TypeInv, NEW r \in Requests, Refuse(r) \/ GiveUp(r) \/ Cancel(r)
    PROVE  TypeInv' /\ Moved(r) /\ req'[r].pc \in {"idle", "waiting"}
<1>1. Moved(r) /\ req'[r].pc \in {"idle", "waiting"}
  BY EndMoves, AnotherMoves DEF Refuse, GiveUp, Cancel
<1>2. probing' \in [Nodes -> SUBSET Requests]
  BY DEF Refuse, GiveUp, Cancel, NoLongerProbing, TypeInv
<1> QED
  BY <1>1, <1>2, MovedPlaced DEF Refuse, GiveUp, Cancel, TypeInv, Moved

LEMMA PollType ==
    ASSUME TypeInv, NEW r \in Requests, Poll(r)
    PROVE  TypeInv' /\ Moved(r) /\ req'[r].pc = "polling"
<1>1. Moved(r) /\ req'[r].pc = "polling"
  BY ToMoves DEF Poll, TypeInv
<1> QED
  BY <1>1, MovedPlaced DEF Poll, TypeInv, Moved

LEMMA ObserveType ==
    ASSUME TypeInv, NEW n \in Nodes, NEW outcome, Observe(n, outcome)
    PROVE  /\ br' \in [Nodes -> Breaker] /\ \A m \in Nodes : Sound(br'[m])
           /\ br'[n].st # "half_open" /\ \A m \in Nodes \ {n} : br'[m] = br[m]
           /\ routable' \subseteq Nodes /\ denied' \subseteq Nodes
           /\ probing' = [probing EXCEPT ![n] = {}]
<1> DEFINE b == Record(br[n], outcome = "ok")
           refused == denied \cup (IF outcome = "denied" THEN {n} ELSE {})
           banned == n \in refused /\ n \in routable
           after == IF banned THEN Trip(b) ELSE b
<1>1. Sound(b) /\ b.st # "half_open"
  BY RecordSound DEF TypeInv
<1>2. Sound(after) /\ after.st # "half_open"
  <2> HIDE DEF b, banned
  <2> QED
    BY <1>1, TripSound DEF Sound
<1>3. /\ br' = [br EXCEPT ![n] = after]
      /\ denied' = refused
      /\ routable' = IF banned THEN routable \ {n} ELSE routable
      /\ probing' = [probing EXCEPT ![n] = IF after.st = "half_open" THEN @ ELSE {}]
  BY DEF Observe
<1> HIDE DEF after
<1> QED
  BY <1>2, <1>3 DEF TypeInv, Sound

LEMMA DoneType ==
    ASSUME TypeInv, NEW r \in Requests, Done(r)
    PROVE  TypeInv' /\ Moved(r) /\ req'[r].pc \in {"idle", "waiting"}
<1> DEFINE n == req[r].node
<1>1. n \in Nodes
  BY DEF Done, TypeInv, Placed, Attached
<1>2. PICK outcome \in {"ok", "failed", "denied"} :
          /\ Observe(n, outcome)
          /\ \/ End(r)
             \/ req[r].pc = "sent" /\ outcome = "failed" /\ TryAnother(r)
  BY DEF Done
<1>3. Moved(r) /\ req'[r].pc \in {"idle", "waiting"}
  BY <1>2, EndMoves, AnotherMoves
<1>4. active' \in [Nodes -> 0 .. Slots]
  BY <1>1, Parameters DEF Done, Release, TypeInv
<1>5. probing' \in [Nodes -> SUBSET Requests]
  BY <1>1, <1>2, ObserveType DEF TypeInv
<1>6. /\ br' \in [Nodes -> Breaker] /\ \A m \in Nodes : Sound(br'[m])
      /\ routable' \subseteq Nodes /\ denied' \subseteq Nodes
  BY <1>1, <1>2, ObserveType
<1> QED
  BY <1>3, <1>4, <1>5, <1>6, MovedPlaced DEF Done, TypeInv, Moved

LEMMA NodeStepType ==
    ASSUME TypeInv, NEW n \in Nodes, Sync(n) \/ Ban(n) \/ Forget(n) \/ NewHour(n)
    PROVE  TypeInv'
<1>1. CASE Sync(n)
  BY <1>1 DEF Sync, TypeInv
<1>2. CASE Ban(n)
  BY <1>2, TripSound DEF Ban, TypeInv, Sound
<1>3. CASE Forget(n)
  BY <1>3 DEF Forget, TypeInv
<1>4. CASE NewHour(n)
  BY <1>4 DEF NewHour, TypeInv
<1> QED
  BY <1>1, <1>2, <1>3, <1>4

LEMMA TickType == ASSUME TypeInv, Tick PROVE TypeInv'
BY OlderSound DEF Tick, TypeInv, Sound

LEMMA TypeNext == TypeInv /\ [Next]_vars => TypeInv'
<1> SUFFICES ASSUME TypeInv, [Next]_vars PROVE TypeInv'
  OBVIOUS
<1>1. CASE \E r \in Requests : \/ Pick(r) \/ Acquire(r) \/ Refuse(r) \/ GiveUp(r)
                               \/ Poll(r) \/ Done(r) \/ Cancel(r)
  BY <1>1, PickType, AcquireType, QuietType, PollType, DoneType
<1>2. CASE \E n \in Nodes : Sync(n) \/ Ban(n) \/ Forget(n) \/ NewHour(n)
  BY <1>2, NodeStepType
<1>3. CASE Tick
  BY <1>3, TickType
<1>4. CASE UNCHANGED vars
  BY <1>4 DEF vars, TypeInv
<1> QED
  BY <1>1, <1>2, <1>3, <1>4 DEF Next

\* The invariant the theorems of this module rest on.
THEOREM Typing == Spec => []TypeInv
BY TypeInit, TypeNext, PTL DEF Spec

\* Every variable holds values of its kind; a node never has more slots taken than
\* it has.
THEOREM DispatchTypeCorrect == Spec => []TypeOK
<1>1. TypeInv => TypeOK
  BY DEF TypeInv, TypeOK
<1> QED
  BY <1>1, Typing, PTL

-----------------------------------------------------------------------------
(* The probe budget: every probe under way was paid for                     *)

Paid(n) == Cardinality(probing[n]) <= br[n].probes
ProbeInv == TypeInv /\ \A n \in Nodes : Paid(n)

\* Fewer probes under way, no fewer paid for.
LEMMA PaidKept ==
    ASSUME ProbeInv, TypeInv', NEW n \in Nodes,
           probing'[n] \subseteq probing[n], br'[n].probes >= br[n].probes
    PROVE  Paid(n)'
<1>1. /\ probing[n] \subseteq Requests /\ IsFiniteSet(Requests)
      /\ br[n].probes \in Nat /\ br'[n].probes \in Nat
  BY Parameters, BreakerParameters DEF ProbeInv, TypeInv, Breaker
<1>2. IsFiniteSet(probing[n])
  BY <1>1, FS_Subset
<1>3. IsFiniteSet(probing'[n]) /\ Cardinality(probing'[n]) <= Cardinality(probing[n])
  BY <1>2, FS_Subset
<1>4. Cardinality(probing[n]) \in Nat /\ Cardinality(probing'[n]) \in Nat
  BY <1>2, <1>3, FS_CardinalityType
<1>5. Cardinality(probing[n]) <= br[n].probes
  BY DEF ProbeInv, Paid
<1> QED
  BY <1>1, <1>3, <1>4, <1>5 DEF Paid

\* A node nobody probes owes nothing.
LEMMA NothingOwed ==
    ASSUME TypeInv', NEW n \in Nodes, probing'[n] = {}
    PROVE  Paid(n)'
<1>1. br'[n].probes \in Nat
  BY BreakerParameters DEF TypeInv, Breaker
<1> QED
  BY <1>1, FS_EmptySet DEF Paid

LEMMA PickPaid ==
    ASSUME ProbeInv, TypeInv', NEW r \in Requests, Pick(r), NEW m \in Nodes
    PROVE  Paid(m)'
<1>1. br[m].probes \in Nat /\ Sound(br[m])
  BY BreakerParameters DEF ProbeInv, TypeInv, Breaker
<1>2. br'[m].probes >= br[m].probes
  BY <1>1, AllowSound DEF Pick
<1>3. CASE probing'[m] = probing[m]
  BY <1>2, <1>3, PaidKept
<1>4. CASE probing'[m] # probing[m]
  <2>1. /\ m \in Eligible(r) /\ br'[m].st = "half_open"
        /\ probing'[m] = probing[m] \cup {r}
    BY <1>4 DEF Pick, ProbeInv, TypeInv
  <2>2. m \in Asked(r) /\ Admits(Cooled(br[m]))
    BY <2>1 DEF Eligible, Or, Fit
  <2>3. br'[m].probes = br[m].probes + 1
    BY <1>1, <2>1, <2>2, AllowSound DEF Pick
  <2>4. IsFiniteSet(probing[m])
    BY Parameters, FS_Subset DEF ProbeInv, TypeInv
  <2>5. Cardinality(probing[m]) \in Nat /\ Cardinality(probing[m]) <= br[m].probes
    BY <2>4, FS_CardinalityType DEF ProbeInv, Paid
  <2>6. Cardinality(probing'[m]) = IF r \in probing[m] THEN Cardinality(probing[m])
                                   ELSE Cardinality(probing[m]) + 1
    BY <2>1, <2>4, FS_AddElement, Zenon
  <2>7. IsFiniteSet(probing'[m])
    BY <2>1, <2>4, FS_AddElement
  <2>8. Cardinality(probing'[m]) \in Nat
    BY <2>7, FS_CardinalityType
  <2> QED
    BY <1>1, <2>3, <2>5, <2>6, <2>8 DEF Paid
<1> QED
  BY <1>3, <1>4

LEMMA ProbeNext == ProbeInv /\ [Next]_vars => ProbeInv'
<1> SUFFICES ASSUME ProbeInv, [Next]_vars, NEW m \in Nodes PROVE Paid(m)'
  BY TypeNext DEF ProbeInv
<1>0. TypeInv' /\ br[m].probes \in Nat
  BY TypeNext, BreakerParameters DEF ProbeInv, TypeInv, Breaker
<1>1. ASSUME NEW r \in Requests, Pick(r) PROVE Paid(m)'
  BY <1>0, <1>1, PickPaid
<1>2. ASSUME NEW r \in Requests, Acquire(r) \/ Refuse(r) \/ GiveUp(r) \/ Poll(r) \/ Cancel(r)
      PROVE  Paid(m)'
  <2>1. br' = br /\ probing'[m] \subseteq probing[m]
    BY <1>2 DEF Acquire, Refuse, GiveUp, Poll, Cancel, NoLongerProbing
  <2> QED
    BY <1>0, <2>1, PaidKept
<1>3. ASSUME NEW r \in Requests, Done(r) PROVE Paid(m)'
  <2>1. PICK outcome : Observe(req[r].node, outcome) /\ req[r].node \in Nodes
    BY <1>3 DEF Done, ProbeInv, TypeInv, Placed, Attached
  <2>2. /\ \A x \in Nodes \ {req[r].node} : br'[x] = br[x]
        /\ probing' = [probing EXCEPT ![req[r].node] = {}]
    BY <2>1, ObserveType DEF ProbeInv
  <2>3. CASE m = req[r].node
    BY <1>0, <2>2, <2>3, NothingOwed DEF ProbeInv, TypeInv
  <2>4. CASE m # req[r].node
    BY <1>0, <2>2, <2>4, PaidKept DEF ProbeInv, TypeInv
  <2> QED
    BY <2>3, <2>4
<1>4. ASSUME NEW n \in Nodes, Ban(n) PROVE Paid(m)'
  <2>1. CASE m = n
    BY <1>0, <1>4, <2>1, NothingOwed DEF Ban, ProbeInv, TypeInv
  <2>2. CASE m # n
    BY <1>0, <1>4, <2>2, PaidKept DEF Ban, ProbeInv, TypeInv
  <2> QED
    BY <2>1, <2>2
<1>5. CASE Tick
  <2>1. br'[m].probes = br[m].probes /\ probing' = probing
    BY <1>5, OlderSound DEF Tick, ProbeInv, TypeInv
  <2> QED
    BY <1>0, <2>1, PaidKept
<1>6. CASE \/ \E n \in Nodes : Sync(n) \/ Forget(n) \/ NewHour(n)
           \/ UNCHANGED vars
  BY <1>0, <1>6, PaidKept DEF Sync, Forget, NewHour, vars
<1> QED
  BY <1>1, <1>2, <1>3, <1>4, <1>5, <1>6 DEF Next

\* A half-open node never has more probes under way than half_open_probes, and only
\* a half-open node has any, whoever else is asking its breaker.
THEOREM ProbesBounded == Spec => []ProbeBudget
<1>1. Init => ProbeInv
  BY TypeInit, NewBreakerSound, FS_EmptySet DEF Init, ProbeInv, Paid
<1>2. ProbeInv => ProbeBudget
  BY BreakerParameters DEF ProbeInv, ProbeBudget, Paid, TypeInv, Sound, Breaker
<1> QED
  BY <1>1, <1>2, ProbeNext, PTL DEF Spec

-----------------------------------------------------------------------------
(* The hourly budget: how far the check made before two awaits is overshot  *)

Users == Requests \ Pollers
SlackOf(n) == spent[n] + Cardinality(PickedFor(n)) < HourlyLimit + Cardinality(Users)
BudgetInv == TypeInv /\ \A n \in Nodes : SlackOf(n)

LEMMA UsersFinite == IsFiniteSet(Users) /\ Cardinality(Users) \in Nat
BY Parameters, FS_Difference, FS_CardinalityType DEF Users

LEMMA PickedBounded ==
    ASSUME TypeInv, NEW n \in Nodes
    PROVE  /\ IsFiniteSet(PickedFor(n)) /\ Cardinality(PickedFor(n)) \in Nat
           /\ Cardinality(PickedFor(n)) <= Cardinality(Users)
<1>1. PickedFor(n) \subseteq Users
  BY DEF PickedFor, Users, TypeInv, Placed
<1> QED
  BY <1>1, UsersFinite, FS_Subset, FS_CardinalityType

LEMMA PickedBoundedNext ==
    ASSUME TypeInv', NEW n \in Nodes
    PROVE  /\ IsFiniteSet(PickedFor(n)') /\ Cardinality(PickedFor(n)') \in Nat
           /\ Cardinality(PickedFor(n)') <= Cardinality(Users)
<1>1. PickedFor(n)' \subseteq Users
  BY DEF PickedFor, Users, TypeInv, Placed
<1> QED
  BY <1>1, UsersFinite, FS_Subset, FS_CardinalityType

\* No more spent, no more requests about to spend.
LEMMA SlackKept ==
    ASSUME BudgetInv, TypeInv', NEW n \in Nodes,
           spent'[n] <= spent[n], PickedFor(n)' \subseteq PickedFor(n)
    PROVE  SlackOf(n)'
<1>1. Cardinality(PickedFor(n)') <= Cardinality(PickedFor(n))
  BY PickedBounded, FS_Subset DEF BudgetInv
<1>2. spent[n] \in Nat /\ spent'[n] \in Nat
  BY DEF BudgetInv, TypeInv
<1>3. Cardinality(PickedFor(n)) \in Nat /\ Cardinality(PickedFor(n)') \in Nat
  BY PickedBounded, PickedBoundedNext DEF BudgetInv
<1>4. spent[n] + Cardinality(PickedFor(n)) < HourlyLimit + Cardinality(Users)
  BY DEF BudgetInv, SlackOf
<1>5. spent'[n] + Cardinality(PickedFor(n)') < HourlyLimit + Cardinality(Users)
  BY <1>1, <1>2, <1>3, <1>4, UsersFinite, Parameters
<1> QED
  BY <1>5 DEF SlackOf, Users

\* A request that moves and is not picked afterwards adds to no node's picked ones.
LEMMA NotPicked ==
    ASSUME NEW r \in Requests, Moved(r), NEW n \in Nodes,
           ~(req'[r].pc = "picked" /\ req'[r].node = n)
    PROVE  PickedFor(n)' \subseteq PickedFor(n)
BY DEF Moved, PickedFor

LEMMA PickSlack ==
    ASSUME HourlyLimit > 0, BudgetInv, NEW r \in Requests, Pick(r), NEW m \in Nodes
    PROVE  SlackOf(m)'
<1>1. /\ TypeInv' /\ Moved(r) /\ spent'[m] = spent[m] /\ spent[m] \in Nat
      /\ \/ req'[r].pc = "idle"
         \/ req'[r].pc = "picked" /\ req'[r].node \in Eligible(r)
  BY PickType DEF Pick, BudgetInv, TypeInv
<1>2. CASE req'[r].pc = "picked" /\ req'[r].node = m
  <2>1. spent[m] < HourlyLimit
    BY <1>1, <1>2, Parameters DEF Eligible, Or, Fit, WithinBudget
  <2> QED
    BY <1>1, <2>1, PickedBoundedNext, UsersFinite, Parameters DEF SlackOf, Users
<1>3. CASE ~(req'[r].pc = "picked" /\ req'[r].node = m)
  BY <1>1, <1>3, NotPicked, SlackKept
<1> QED
  BY <1>2, <1>3

LEMMA AcquireSlack ==
    ASSUME BudgetInv, NEW r \in Requests, Acquire(r), NEW m \in Nodes
    PROVE  SlackOf(m)'
<1> DEFINE n == req[r].node
<1>1. /\ TypeInv' /\ Moved(r) /\ req'[r].pc # "picked" /\ n \in Nodes
      /\ spent[m] \in Nat
  BY AcquireType DEF BudgetInv, Acquire, TypeInv, Placed, Attached
<1>2. PickedFor(m)' \subseteq PickedFor(m)
  BY <1>1, NotPicked
<1>3. CASE spent'[m] = spent[m]
  BY <1>1, <1>2, <1>3, SlackKept
<1>4. CASE spent'[m] # spent[m]
  <2>1. m = n /\ spent'[m] = spent[m] + 1
    BY <1>1, <1>4 DEF Acquire, BudgetInv, TypeInv
  <2>2. PickedFor(m)' = PickedFor(m) \ {r} /\ r \in PickedFor(m)
    BY <1>1, <2>1 DEF PickedFor, Acquire, Moved
  <2>3. Cardinality(PickedFor(m)') = Cardinality(PickedFor(m)) - 1
    BY <2>2, PickedBounded, FS_RemoveElement DEF BudgetInv
  <2>4. /\ Cardinality(PickedFor(m)) \in Nat
        /\ spent[m] + Cardinality(PickedFor(m)) < HourlyLimit + Cardinality(Users)
    BY PickedBounded DEF BudgetInv, SlackOf
  <2>5. spent'[m] + Cardinality(PickedFor(m)') < HourlyLimit + Cardinality(Users)
    BY <1>1, <2>1, <2>3, <2>4, UsersFinite, Parameters
  <2> QED
    BY <2>5 DEF SlackOf, Users
<1> QED
  BY <1>3, <1>4

LEMMA BudgetNext == HourlyLimit > 0 => (BudgetInv /\ [Next]_vars => BudgetInv')
<1> SUFFICES ASSUME HourlyLimit > 0, BudgetInv, [Next]_vars, NEW m \in Nodes
             PROVE  SlackOf(m)'
  BY TypeNext DEF BudgetInv
<1>0. TypeInv' /\ spent[m] \in Nat
  BY TypeNext DEF BudgetInv, TypeInv
<1>1. ASSUME NEW r \in Requests, Pick(r) \/ Acquire(r) PROVE SlackOf(m)'
  BY <1>1, PickSlack, AcquireSlack
<1>2. ASSUME NEW r \in Requests, Refuse(r) \/ GiveUp(r) \/ Cancel(r) \/ Poll(r) \/ Done(r)
      PROVE  SlackOf(m)'
  <2>1. Moved(r) /\ req'[r].pc # "picked" /\ spent' = spent
    BY <1>2, QuietType, PollType, DoneType
       DEF BudgetInv, Refuse, GiveUp, Cancel, Poll, Done
  <2> QED
    BY <1>0, <2>1, NotPicked, SlackKept
<1>3. CASE \/ \E n \in Nodes : Sync(n) \/ Ban(n) \/ Forget(n) \/ NewHour(n)
           \/ Tick \/ UNCHANGED vars
  <2>1. req' = req /\ spent'[m] <= spent[m]
    BY <1>0, <1>3 DEF Sync, Ban, Forget, NewHour, Tick, vars, BudgetInv, TypeInv
  <2>2. PickedFor(m)' = PickedFor(m)
    BY <2>1 DEF PickedFor
  <2> QED
    BY <1>0, <2>1, <2>2, SlackKept
<1> QED
  BY <1>1, <1>2, <1>3 DEF Next

\* A node's hourly budget is overshot by less than the number of requests that may
\* be between pick and note_request at once, whatever the limit and the load.
THEOREM OvershootBounded == Spec => []BudgetSlack
<1>1. HourlyLimit > 0 /\ Init => BudgetInv
  <2> SUFFICES ASSUME HourlyLimit > 0, Init, NEW n \in Nodes PROVE SlackOf(n)
    BY TypeInit DEF BudgetInv
  <2>1. TypeInv /\ spent[n] = 0
    BY TypeInit DEF Init
  <2> QED
    BY <2>1, PickedBounded, UsersFinite, Parameters DEF SlackOf
<1>2. BudgetInv => BudgetSlack
  BY DEF BudgetInv, BudgetSlack, SlackOf, Users
<1>3. ~(HourlyLimit > 0) => BudgetSlack
  BY DEF BudgetSlack
<1>4. CASE HourlyLimit > 0
  BY <1>1, <1>2, <1>4, BudgetNext, PTL DEF Spec
<1>5. CASE ~(HourlyLimit > 0)
  BY <1>3, <1>5, PTL
<1> QED
  BY <1>4, <1>5

-----------------------------------------------------------------------------
(* The slots                                                                *)

SlotsInv == TypeInv /\ SlotsReturned

LEMMA InFlightFinite ==
    ASSUME NEW n \in Nodes
    PROVE  /\ IsFiniteSet(InFlight(n)) /\ Cardinality(InFlight(n)) \in Nat
           /\ IsFiniteSet(InFlight(n)') /\ Cardinality(InFlight(n)') \in Nat
BY Parameters, FS_Subset, FS_CardinalityType DEF InFlight

\* A move that neither takes nor ends a place in flight.
LEMMA InFlightKept ==
    ASSUME NEW r \in Requests, Moved(r), NEW n \in Nodes,
           (req[r].pc = "sent" /\ req[r].node = n)
               <=> (req'[r].pc = "sent" /\ req'[r].node = n)
    PROVE  InFlight(n)' = InFlight(n)
BY DEF Moved, InFlight

LEMMA AcquireSlots ==
    ASSUME SlotsInv, NEW r \in Requests, Acquire(r), NEW m \in Nodes
    PROVE  active'[m] = Cardinality(InFlight(m)')
<1> DEFINE n == req[r].node
<1>1. /\ Moved(r) /\ n \in Nodes /\ req[r].pc = "picked"
      /\ IF HasCapacity(n) THEN req'[r].pc = "sent" /\ req'[r].node = n
                           ELSE req'[r].pc = "waiting"
  BY AcquireType DEF SlotsInv, Acquire, TypeInv, Placed, Attached
<1>2. active[m] = Cardinality(InFlight(m))
  BY DEF SlotsInv, SlotsReturned
<1>3. CASE HasCapacity(n) /\ m = n
  <2>1. active'[m] = active[m] + 1
    BY <1>1, <1>3 DEF Acquire, SlotsInv, TypeInv
  <2>2. InFlight(m)' = InFlight(m) \cup {r} /\ r \notin InFlight(m)
    BY <1>1, <1>3 DEF InFlight, Moved
  <2>3. Cardinality(InFlight(m)') = Cardinality(InFlight(m)) + 1
    BY <2>2, InFlightFinite, FS_AddElement
  <2> QED
    BY <1>2, <2>1, <2>3
<1>4. CASE ~(HasCapacity(n) /\ m = n)
  <2>1. active'[m] = active[m]
    BY <1>1, <1>4 DEF Acquire, SlotsInv, TypeInv
  <2>2. InFlight(m)' = InFlight(m)
    BY <1>1, <1>4, InFlightKept
  <2> QED
    BY <1>2, <2>1, <2>2
<1> QED
  BY <1>3, <1>4

LEMMA DoneSlots ==
    ASSUME SlotsInv, NEW r \in Requests, Done(r), NEW m \in Nodes
    PROVE  active'[m] = Cardinality(InFlight(m)')
<1> DEFINE n == req[r].node
<1>1. Moved(r) /\ n \in Nodes /\ req'[r].pc \in {"idle", "waiting"}
  BY DoneType DEF SlotsInv, Done, TypeInv, Placed, Attached
<1>2. active[m] = Cardinality(InFlight(m))
  BY DEF SlotsInv, SlotsReturned
<1>3. CASE req[r].pc = "sent" /\ m = n
  <2>1. InFlight(m)' = InFlight(m) \ {r} /\ r \in InFlight(m)
    BY <1>1, <1>3 DEF InFlight, Moved
  <2>2. Cardinality(InFlight(m)') = Cardinality(InFlight(m)) - 1
    BY <2>1, InFlightFinite, FS_RemoveElement
  <2>3. active[m] # 0
    BY <1>2, <2>2, InFlightFinite
  <2>4. active'[m] = active[m] - 1
    BY <1>1, <1>3, <2>3 DEF Done, Release, SlotsInv, TypeInv
  <2> QED
    BY <1>2, <2>2, <2>4
<1>4. CASE ~(req[r].pc = "sent" /\ m = n)
  <2>1. active'[m] = active[m]
    BY <1>1, <1>4 DEF Done, Release, SlotsInv, TypeInv
  <2>2. InFlight(m)' = InFlight(m)
    BY <1>1, <1>4, InFlightKept
  <2> QED
    BY <1>2, <2>1, <2>2
<1> QED
  BY <1>3, <1>4

LEMMA SlotsNext == ~Cancels => (SlotsInv /\ [Next]_vars => SlotsInv')
<1> SUFFICES ASSUME ~Cancels, SlotsInv, [Next]_vars, NEW m \in Nodes
             PROVE  active'[m] = Cardinality(InFlight(m)')
  BY TypeNext DEF SlotsInv, SlotsReturned
<1>0. active[m] = Cardinality(InFlight(m))
  BY DEF SlotsInv, SlotsReturned
<1>1. ASSUME NEW r \in Requests, Acquire(r) \/ Done(r)
      PROVE  active'[m] = Cardinality(InFlight(m)')
  BY <1>1, AcquireSlots, DoneSlots
<1>2. ASSUME NEW r \in Requests, Pick(r) \/ Refuse(r) \/ GiveUp(r) \/ Poll(r)
      PROVE  active'[m] = Cardinality(InFlight(m)')
  <2>1. /\ Moved(r) /\ active' = active /\ req[r].pc # "sent" /\ req'[r].pc # "sent"
    BY <1>2, PickType, QuietType, PollType DEF SlotsInv, Pick, Refuse, GiveUp, Poll
  <2> QED
    BY <1>0, <2>1, InFlightKept
<1>3. CASE \/ \E n \in Nodes : Sync(n) \/ Ban(n) \/ Forget(n) \/ NewHour(n)
           \/ Tick \/ UNCHANGED vars
  <2>1. req' = req /\ active' = active
    BY <1>3 DEF Sync, Ban, Forget, NewHour, Tick, vars
  <2> QED
    BY <1>0, <2>1 DEF InFlight
<1> QED
  BY <1>1, <1>2, <1>3 DEF Next, Cancel

\* As long as no client goes away while its stream is being opened, the slots taken
\* on a node are those of the requests it is serving: retries, fan-outs, bans and
\* sync passes leak none.
THEOREM SlotsBalance ==
    ASSUME ~Cancels
    PROVE  Spec => []SlotsReturned
<1>1. Init => SlotsInv
  <2> SUFFICES ASSUME Init, NEW n \in Nodes PROVE active[n] = Cardinality(InFlight(n))
    BY TypeInit DEF SlotsInv, SlotsReturned
  <2>1. InFlight(n) = {} /\ active[n] = 0
    BY DEF Init, InFlight, IdleRequest
  <2> QED
    BY <2>1, FS_EmptySet
<1>2. SlotsInv /\ [Next]_vars => SlotsInv'
  BY SlotsNext
<1>3. SlotsInv => SlotsReturned
  BY DEF SlotsInv
<1> QED
  BY <1>1, <1>2, <1>3, PTL DEF Spec

=============================================================================

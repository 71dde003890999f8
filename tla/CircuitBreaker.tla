--------------------------- MODULE CircuitBreaker ---------------------------
(***************************************************************************)
(* The circuit breaker of one node: its state and the operations on it.    *)
(* Times are ages in ticks.  An event older than Window leaves the window  *)
(* with the tick (the code drops it before each use of the window, which   *)
(* is the same); `opened' counts up to OpenFor while the breaker is open.  *)
(***************************************************************************)
EXTENDS Integers, Functions

CONSTANTS
    Window,             \* window_seconds, in ticks
    MinRequests,        \* minimum_requests
    FailNum, FailDen,   \* error_rate_threshold = FailNum / FailDen
    OpenFor,            \* open_duration_seconds, in ticks
    Probes              \* half_open_probes

ASSUME BreakerAssumption ==
    /\ Window \in Nat /\ OpenFor \in Nat
    /\ {MinRequests, FailNum, FailDen, Probes} \subseteq Nat \ {0}

Ages == 0 .. Window
Breaker == [st : {"closed", "open", "half_open"}, opened : 0 .. OpenFor,
            probes : 0 .. Probes, good : [Ages -> Nat], bad : [Ages -> Nat]]
NoEvents == [a \in Ages |-> 0]
NewBreaker == [st |-> "closed", opened |-> 0, probes |-> 0,
               good |-> NoEvents, bad |-> NoEvents]

Failures(b) == SumFunction(b.bad)
Total(b) == SumFunction(b.good) + Failures(b)
OverThreshold(b) == /\ Total(b) >= MinRequests
                    /\ FailDen * Failures(b) >= FailNum * Total(b)

\* _trip, force_open
Trip(b) == [b EXCEPT !.st = "open", !.opened = 0, !.probes = 0]

\* Mutant: an open breaker must be open longer than it ever gets.
CooledTooLate(b) == IF b.st = "open" /\ b.opened > OpenFor
                    THEN [b EXCEPT !.st = "half_open", !.opened = 0, !.probes = 0] ELSE b

\* The first half of allow: an open breaker whose time is up is half open.
Cooled(b) == IF b.st = "open" /\ b.opened = OpenFor
             THEN [b EXCEPT !.st = "half_open", !.opened = 0, !.probes = 0] ELSE b
\* Mutant: off by one.
AdmitsOneMore(b) == \/ b.st = "closed"
                    \/ b.st = "half_open" /\ b.probes <= Probes
Admits(b) == \/ b.st = "closed"
             \/ b.st = "half_open" /\ b.probes < Probes
\* allow: the answer is Admits(Cooled(b)); a half-open breaker pays for it with
\* one of its probes, whatever the caller does with the answer.
Allow(b) == LET c == Cooled(b) IN
            IF c.st = "half_open" /\ Admits(c) THEN [c EXCEPT !.probes = @ + 1] ELSE c

\* record: the outcome joins the window, which a closing does not clear.
Logged(b, ok) == IF ok THEN [b EXCEPT !.good[0] = @ + 1] ELSE [b EXCEPT !.bad[0] = @ + 1]
Probed(b, ok) == IF b.st # "half_open" THEN b
                 ELSE IF ok THEN [b EXCEPT !.st = "closed", !.probes = 0]
                 ELSE Trip(b)
Record(b, ok) == LET c == Probed(Logged(b, ok), ok) IN
                 IF c.st = "closed" /\ OverThreshold(c) THEN Trip(c) ELSE c

\* One tick of the clock; _trim.
Shifted(count) == [a \in Ages |-> IF a = 0 THEN 0 ELSE count[a - 1]]
Older(b) == [b EXCEPT !.good = Shifted(@), !.bad = Shifted(@),
                      !.opened = IF b.st = "open" /\ @ < OpenFor THEN @ + 1 ELSE @]

=============================================================================

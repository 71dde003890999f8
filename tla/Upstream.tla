------------------------------ MODULE Upstream ------------------------------
(***************************************************************************)
(* One call of the proxy to the nodes, and when it is made again: a plain  *)
(* call (request_json), with side effects or without, or the opening of a  *)
(* stream (_open_stream), over the transport and its classes of errors.    *)
(* When a server really begins to work is hidden from the gateway: Begin   *)
(* is the server's step, and an error may come before or after it.         *)
(* Which servers may serve and the slots are Dispatch's subject.           *)
(***************************************************************************)
EXTENDS Naturals, Sequences, SequencesExt

CONSTANTS
    Servers,
    NoServer,
    Policies       \* load_balancer: max_retries and the two retry flags

ASSUME UpstreamAssumption ==
    /\ NoServer \notin Servers
    /\ Policies \subseteq [retries : Nat, streams : BOOLEAN, started : BOOLEAN]

VARIABLES
    kind,      \* "embed" (no side effects), "generate" (with) or "stream" (with)
    lb,        \* the policy in force
    call,      \* the call's state in the proxy
    closed,    \* the transport is closed
    tried,     \* history: the servers the call was sent to
    began      \* history: the servers that began to work on it

upstreamVars == <<kind, lb, call, closed, tried, began>>

CallState == [pc : {"new", "choosing", "refused", "sent", "begun", "answered", "failed"},
              server : Servers \cup {NoServer}, left : Nat, exclude : SUBSET Servers]

UpstreamTypeOK ==
    /\ kind \in {"embed", "generate", "stream"} /\ lb \in Policies
    /\ call \in CallState /\ closed \in BOOLEAN
    /\ tried \in Seq(Servers) /\ began \in Seq(Servers)

UpstreamInit ==
    /\ kind \in {"embed", "generate", "stream"} /\ lb \in Policies
    /\ call = [pc |-> "new", server |-> NoServer, left |-> 0, exclude |-> {}]
    /\ closed = FALSE /\ tried = <<>> /\ began = <<>>

End(pc) == call' = [call EXCEPT !.pc = pc]
Again == call' = [call EXCEPT !.pc = "choosing", !.exclude = @ \cup {call.server}]

-----------------------------------------------------------------------------
(* What the proxy may try again                                             *)

\* An opening of a stream is tried again only where the policy allows it at all.
Attempts == 1 + (IF kind # "stream" \/ lb.streams THEN lb.retries ELSE 0)

\* An answer with 5xx is one of a server that has begun.
RetryAfterStart == kind = "embed" \/ (kind = "generate" /\ lb.started)

\* Errors of the transport: those that come before a connection is there, and those of a
\* connection.
BeforeConnection == {"ConnectTimeout", "PoolTimeout", "ConnectError"}
OfConnection == {"ReadTimeout", "WriteTimeout", "ReadError", "RemoteProtocolError"}

\* Mutant: every timeout is one of connecting.
MapErrorTimeouts(e) ==
    IF e \in {"ConnectTimeout", "PoolTimeout", "ReadTimeout", "ConnectError"} THEN "connect" ELSE "read"

\* _map_error and _is_connect_error: "connect", if the server cannot have got the request.
MapError(e) ==
    IF e \in {"ConnectTimeout", "PoolTimeout", "ConnectError"} THEN "connect" ELSE "read"

-----------------------------------------------------------------------------
(* The call                                                                 *)

Submit ==
    /\ call.pc = "new"
    /\ call' = [call EXCEPT !.pc = "choosing", !.left = Attempts]
    /\ UNCHANGED <<kind, lb, closed, tried, began>>

\* _acquire leaves out the servers that failed, and those it finds no longer serving.
Send ==
    /\ call.pc = "choosing"
    /\ \E s \in Servers \ call.exclude, unserving \in SUBSET (Servers \ call.exclude) :
          /\ s \notin unserving
          /\ call' = [pc |-> IF closed THEN "refused" ELSE "sent", server |-> s, left |-> call.left - 1,
                      exclude |-> call.exclude \cup unserving]
          /\ tried' = Append(tried, s)
    /\ UNCHANGED <<kind, lb, closed, began>>

\* No server is left, or none had a slot before the queue's timeout.
NoServerLeft ==
    /\ call.pc = "choosing"
    /\ End("failed")
    /\ UNCHANGED <<kind, lb, closed, tried, began>>

\* The server's own step.
Begin ==
    /\ call.pc = "sent"
    /\ End("begun")
    /\ began' = Append(began, call.server)
    /\ UNCHANGED <<kind, lb, closed, tried>>

\* Mutant: the server that answered 5xx is not left out of the next choice.
RespondKeeping ==
    /\ call.pc = "begun"
    /\ IF call.left > 0 /\ RetryAfterStart THEN call' = [call EXCEPT !.pc = "choosing"] ELSE End("failed")
    /\ UNCHANGED <<kind, lb, closed, tried, began>>

\* Below 400 is the answer; 401 and 403 are final, and so is any other 4xx, which a plain
\* call passes on as it is; 5xx may be tried again.
Respond ==
    /\ call.pc = "begun"
    /\ \E status \in {"ok", "4xx", "denied", "5xx"} :
          IF status = "5xx" /\ call.left > 0 /\ RetryAfterStart THEN Again
          ELSE End(IF status = "ok" \/ (status = "4xx" /\ kind # "stream") THEN "answered" ELSE "failed")
    /\ UNCHANGED <<kind, lb, closed, tried, began>>

\* The transport raises: before the server began, or behind its back.
Fault ==
    /\ call.pc \in {"sent", "begun"}
    /\ \E e \in OfConnection \cup (IF call.pc = "sent" THEN BeforeConnection ELSE {}) :
          /\ IF MapError(e) = "connect" /\ call.left > 0 THEN Again ELSE End("failed")
    /\ UNCHANGED <<kind, lb, closed, tried, began>>

\* UpstreamUnavailable: the transport is closed, the name has no address, or the policy
\* forbids it.  That is no error of connecting to _is_connect_error.
Unavailable ==
    /\ call.pc \in {"refused", "sent"}
    /\ End("failed")
    /\ UNCHANGED <<kind, lb, closed, tried, began>>

\* NodeTransport.aclose, when the process stops: calls under way see their connection go.
CloseTransport ==
    /\ ~closed
    /\ closed' = TRUE
    /\ UNCHANGED <<kind, lb, call, tried, began>>

UpstreamNext == Submit \/ Send \/ NoServerLeft \/ Begin \/ Respond \/ Fault \/ Unavailable \/ CloseTransport

UpstreamSpec == UpstreamInit /\ [][UpstreamNext]_upstreamVars

-----------------------------------------------------------------------------
(* Properties                                                               *)

HasSideEffects == kind = "stream" \/ (kind = "generate" /\ ~lb.started)

\* A generation is not begun twice, whatever fails and when, unless the policy says so
\* (request_json, _open_stream: retries only before a server can have begun).
StartedOnce == HasSideEffects => Len(began) <= 1

\* A call goes to no server twice, and to no more than the policy's number of them.
TriedOnce == IsInjective(tried) /\ Len(tried) <= 1 + lb.retries

=============================================================================

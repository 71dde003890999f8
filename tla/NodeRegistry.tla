---------------------------- MODULE NodeRegistry ----------------------------
(***************************************************************************)
(* The node registry of the gateway: the rows of a node and of its consent *)
(* in the database, the NodePool every process keeps in memory, the        *)
(* handlers and background loops that change either, and the requests that *)
(* choose a node from the pool.                                            *)
(*                                                                         *)
(* A worker is one coroutine with a database session of its own: an admin  *)
(* request, or a round of a background loop.  A handler is split where it  *)
(* awaits something another coroutine can overtake: it loads rows (Begin), *)
(* waits for the node's answer (Prove, CheckNode), writes inside its       *)
(* transaction, resynchronises the pool from its own view of the tables    *)
(* (ApplySync), and commits (Commit).  Rows a session has loaded are not   *)
(* refreshed by later SELECTs (expire_on_commit=False), so it goes on      *)
(* using `row' and `cons' as they were.  Two sessions never hold           *)
(* uncommitted writes to the same node: the row lock makes the second one  *)
(* wait.  Two abstractions: a write and the registry read that follows it  *)
(* are one step, and a sync pass reads all rows at one point.              *)
(***************************************************************************)
EXTENDS CheckVerdicts, Naturals, FiniteSets

CONSTANTS
    Nodes,        \* node ids; an id is never given out twice
    NoNode,       \* no node chosen
    EndpointOf,   \* the address each node id is registered with
    TokenNodes,   \* nodes whose consent method is signed_token
    Procs,        \* gateway processes sharing the database
    Workers,      \* coroutines serving the admin API and the loops
    Requests,     \* user requests
    Home,         \* the process a worker or request runs in
    Jobs,         \* the operations each worker performs
    SlotsScarce,  \* TRUE: a node's slots may all be taken when it is picked
    Faults        \* TRUE: handlers may fail half-way, processes restart

\* "lapsed" is a row whose status still reads verified and whose expires_at
\* has passed.
ConsentStatus == {"none", "challenge_sent", "verified", "lapsed", "expired",
                  "revoked", "failed"}
StillVerified == {"verified", "lapsed"}      \* status column reads verified

\* Un-lifted blacklist row of a node; "elapsed": temporary and past its end.
BanState == {"none", "permanent", "temporary", "elapsed"}

OpNames == {"enroll", "verify", "revoke", "blacklist", "lift", "drain",
            "undrain", "delete", "check", "force", "expire", "autoban", "sync"}

ASSUME RegistryAssumption ==
    /\ NoNode \notin Nodes
    /\ TokenNodes \subseteq Nodes
    /\ Home \in [Workers \cup Requests -> Procs]
    /\ Jobs \in [Workers -> SUBSET OpNames]
    /\ SlotsScarce \in BOOLEAN
    /\ Faults \in BOOLEAN

VARIABLES
    status,    \* committed nodes.status, or unregistered / deleted
    consent,   \* committed latest consent of the node
    ban,       \* committed blacklist row of the node
    pool,      \* per process: what its NodePool holds of each node
    ses,       \* per worker: its handler and database session
    req,       \* per request: where _acquire is
    proved,    \* history: nodes whose owner has passed a proof
    seen       \* history: per request, the gates open at some time since it began

dbVars == <<status, consent, ban>>
vars == <<status, consent, ban, pool, ses, req, proved, seen>>

-----------------------------------------------------------------------------
(* Records                                                                  *)

NoRow == {"unregistered", "deleted"}
Present(n) == status[n] \notin NoRow

Entry == [state : NodeState \cup {"absent"}, routable : BOOLEAN]
NoEntry == [state |-> "absent", routable |-> FALSE]
NoSnap == [n \in Nodes |-> NoEntry]

\* The uncommitted writes of a session.  "keep": the column is not written;
\* "renew": expires_at is written and the status column is not, because the
\* session loaded the consent when it already read verified and the ORM writes
\* only what changed.  pub: check_all reports the transition to _publish.
Writes == [st : NodeState \cup {"keep", "deleted"},
           co : (ConsentStatus \ {"lapsed"}) \cup {"keep", "renew"},
           ban : {"none", "permanent", "temporary", "keep"},
           pub : BOOLEAN]
NoWrites == [st |-> "keep", co |-> "keep", ban |-> "keep", pub |-> FALSE]

Session == [pc : {"idle", "begun", "proved", "checking", "hooked", "checked",
                  "syncing", "commit", "publish"},
            op : OpNames \cup {"none"}, node : Nodes \cup {NoNode},
            row : NodeState \cup NoRow, cons : ConsentStatus \cup {"unread"},
            out : Writes, snap : [Nodes -> Entry]]
IdleSession == [pc |-> "idle", op |-> "none", node |-> NoNode,
                row |-> "unregistered", cons |-> "unread", out |-> NoWrites,
                snap |-> NoSnap]

Request == [pc : {"idle", "waiting", "picked", "sent", "fanned"},
            node : Nodes \cup {NoNode}, row : NodeState \cup NoRow,
            cons : ConsentStatus \cup {"unread"}, exclude : SUBSET Nodes]
IdleRequest == [pc |-> "idle", node |-> NoNode, row |-> "unregistered",
                cons |-> "unread", exclude |-> {}]

\* Every variable holds values of its kind.
TypeOK ==
    /\ status \in [Nodes -> NodeState \cup NoRow]
    /\ consent \in [Nodes -> ConsentStatus]
    /\ ban \in [Nodes -> BanState]
    /\ pool \in [Procs -> [Nodes -> Entry]]
    /\ ses \in [Workers -> Session]
    /\ req \in [Requests -> Request]
    /\ proved \subseteq Nodes
    /\ seen \in [Requests -> SUBSET (Nodes \X {"row", "consent"})]

Init ==
    /\ status = [n \in Nodes |-> "unregistered"]
    /\ consent = [n \in Nodes |-> "none"]
    /\ ban = [n \in Nodes |-> "none"]
    /\ pool = [p \in Procs |-> NoSnap]
    /\ ses = [w \in Workers |-> IdleSession]
    /\ req = [r \in Requests |-> IdleRequest]
    /\ proved = {}
    /\ seen = [r \in Requests |-> {}]

-----------------------------------------------------------------------------
(* What a session sees, and the pool a sync pass builds from it             *)

\* Mutant: the state filter without consent_is_active.
EntryOfAnyConsent(st, co) ==
    [state |-> IF st \in NoRow THEN "absent" ELSE st, routable |-> st \in RoutableStates]

\* consent_is_active and the state filter of sync_pool.
EntryOf(st, co) ==
    [state |-> IF st \in NoRow THEN "absent" ELSE st,
     routable |-> st \in RoutableStates /\ co = "verified"]

ConsentSeen(s) ==
    CASE s.out.co = "renew" -> "verified"
      [] s.out.co \notin {"renew", "keep"} -> s.out.co
      [] s.out.co = "keep" /\ s.cons # "unread" -> s.cons
      [] OTHER -> consent[s.node]
RowSeen(s) == IF s.out.st = "keep" THEN s.row ELSE s.out.st

Committed == [n \in Nodes |-> EntryOf(status[n], consent[n])]
View(s) == [n \in Nodes |-> IF n = s.node THEN EntryOf(RowSeen(s), ConsentSeen(s))
                                          ELSE EntryOf(status[n], consent[n])]

\* A session that is about to resynchronise the pool from its own view.
Syncing(s) == [s EXCEPT !.pc = "syncing", !.snap = View(s)]

Holds(w, n) ==
    /\ ses[w].node = n
    /\ \/ ses[w].out # NoWrites
       \/ ses[w].pc \in {"hooked", "checked", "syncing", "commit"}
Lockable(w, n) == \A v \in Workers \ {w} : ~Holds(v, n)

CanStart(w, op) == ses[w].pc = "idle" /\ op \in Jobs[w]
At(w, pc, op) == ses[w].pc = pc /\ ses[w].op = op
Update(w, s) == ses' = [ses EXCEPT ![w] = s]
Finish(w) == Update(w, IdleSession)
NodeOf(w) == ses[w].node
\* The handler is about to write the rows of its node.
Writing(w, op) == At(w, "begun", op) /\ Present(NodeOf(w)) /\ Lockable(w, NodeOf(w))
CloseInPool(w) ==
    pool' = [pool EXCEPT ![Home[w]][NodeOf(w)].routable = FALSE]

-----------------------------------------------------------------------------
(* History variables                                                        *)

\* The gates of _acquire: a routable row, a verified consent.
OpenGates == {<<n, "row">> : n \in {m \in Nodes : status[m] \in RoutableStates}} \cup
             {<<n, "consent">> : n \in {m \in Nodes : consent[m] = "verified"}}
\* A request remembers the gates that were open at some time since it began.
Watch == seen' = [r \in Requests |-> IF req'[r].pc = "idle" THEN {}
                                     ELSE seen[r] \cup OpenGates']
Keep == UNCHANGED proved /\ Watch

-----------------------------------------------------------------------------
(* Handlers of the admin API and rounds of the loops                        *)

\* Mutant: register without is_endpoint_blocked.
EndpointUnused(n) ==
    \A m \in Nodes : EndpointOf[m] = EndpointOf[n] =>
        /\ status[m] \in NoRow
        /\ \A w \in Workers : ses[w].op = "enroll" => ses[w].node # m

\* is_endpoint_blocked, by_endpoint, and the unique constraint on the endpoint,
\* which makes an insert wait for another uncommitted one.
EndpointFree(n) ==
    \A m \in Nodes : EndpointOf[m] = EndpointOf[n] =>
        /\ status[m] \in NoRow
        /\ ban[m] \in {"none", "elapsed"}
        /\ \A w \in Workers : ses[w].op = "enroll" => ses[w].node # m

\* NodeService.register
Enroll(w, n) ==
    /\ CanStart(w, "enroll")
    /\ status[n] = "unregistered"
    /\ EndpointFree(n)
    /\ LET s == [IdleSession EXCEPT
                    !.op = "enroll", !.node = n,
                    !.out = [NoWrites EXCEPT !.st = "consent_challenge_sent",
                                             !.co = "challenge_sent"]]
       IN  Update(w, Syncing(s))
    /\ UNCHANGED <<dbVars, pool, req>> /\ Keep

\* The rows a handler loads before it does anything: the node for a check, the
\* consent for the handlers that write it.
LoadsRow == {"check", "force"}
LoadsConsent == {"verify", "revoke", "expire"}

MayBegin(op, n) ==
    /\ op \notin {"enroll", "sync", "autoban"}
    /\ op = "check" => status[n] \in ActiveHealthCheckStates
    /\ op = "expire" => consent[n] = "lapsed"
    /\ op \in {"drain", "undrain"} => status[n] \notin {"candidate", "pending_consent"}

Begin(w, op, n) ==
    /\ CanStart(w, op)
    /\ Present(n)
    /\ MayBegin(op, n)
    /\ Update(w, [IdleSession EXCEPT
                    !.pc = IF op \in LoadsRow THEN "checking" ELSE "begun",
                    !.op = op, !.node = n,
                    !.row = IF op \in LoadsRow THEN status[n] ELSE @,
                    !.cons = IF op \in LoadsConsent THEN consent[n] ELSE @])
    /\ UNCHANGED <<dbVars, pool, req>> /\ Keep

\* The handlers that go on when the row is gone: the blacklist has no foreign key
\* on the node, and set_status and delete_cascade write whatever rows there are.
Indifferent == {"blacklist", "lift", "drain", "undrain", "delete"}

\* The row was deleted before the handler came to write it: the write or the
\* lookup of the row raises and the session rolls back.
Vanish(w) ==
    /\ ses[w].pc \in {"begun", "checking"}
    /\ ses[w].op \notin Indifferent
    /\ ses[w].out = NoWrites
    /\ status[NodeOf(w)] \in NoRow
    /\ Finish(w)
    /\ UNCHANGED <<dbVars, pool, req>> /\ Keep

\* Write `out' and read the registry for the sync pass.
WriteOut(w, out) == Update(w, Syncing([ses[w] EXCEPT !.out = out]))

\* NodeService.revoke_consent
Revoke(w) ==
    /\ Writing(w, "revoke")
    /\ pool' = [pool EXCEPT ![Home[w]][NodeOf(w)] =
                    IF @ = NoEntry THEN @
                    ELSE [state |-> "revoked", routable |-> FALSE]]
    /\ WriteOut(w, [NoWrites EXCEPT
                        !.st = "revoked",
                        !.co = IF ses[w].cons = "revoked" THEN "keep" ELSE "revoked"])
    /\ UNCHANGED <<dbVars, req>> /\ Keep

\* Mutant: the row is revoked, the consent is not.
ExpireRowOnly(w) ==
    /\ Writing(w, "expire")
    /\ WriteOut(w, [NoWrites EXCEPT !.st = "revoked"])
    /\ UNCHANGED <<dbVars, pool, req>> /\ Keep

\* One consent of a round of _consent_expiry_loop
Expire(w) ==
    /\ Writing(w, "expire")
    /\ WriteOut(w, [NoWrites EXCEPT !.st = "revoked", !.co = "revoked"])
    /\ UNCHANGED <<dbVars, pool, req>> /\ Keep

\* A handler that writes whether or not the row is still there.
MayHaveVanished(w, op) == At(w, "begun", op) /\ Lockable(w, NodeOf(w))
StatusIfPresent(w, st) == IF Present(NodeOf(w)) THEN st ELSE "keep"

\* NodeService.blacklist: the consent is left as it is.
Blacklist(w) ==
    /\ MayHaveVanished(w, "blacklist")
    /\ CloseInPool(w)
    /\ \E b \in {"permanent", "temporary"} :
          WriteOut(w, [NoWrites EXCEPT !.st = StatusIfPresent(w, "blacklisted"),
                                       !.ban = b])
    /\ UNCHANGED <<dbVars, req>> /\ Keep

\* NodeService.lift_blacklist
Lift(w) ==
    /\ MayHaveVanished(w, "lift")
    /\ IF ban[NodeOf(w)] # "none"
       THEN WriteOut(w, [NoWrites EXCEPT !.st = StatusIfPresent(w, "pending_consent"),
                                         !.ban = "none"])
       ELSE Finish(w)
    /\ UNCHANGED <<dbVars, pool, req>> /\ Keep

\* NodeService.set_draining
SetDraining(w) ==
    /\ \/ MayHaveVanished(w, "drain")
          /\ WriteOut(w, [NoWrites EXCEPT !.st = StatusIfPresent(w, "draining")])
       \/ MayHaveVanished(w, "undrain")
          /\ WriteOut(w, [NoWrites EXCEPT !.st = StatusIfPresent(w, "verified")])
    /\ UNCHANGED <<dbVars, pool, req>> /\ Keep

\* Mutant: the pool keeps a runtime of the deleted node.
DeleteLeavingRuntime(w) ==
    /\ MayHaveVanished(w, "delete")
    /\ pool' = [pool EXCEPT ![Home[w]][NodeOf(w)] = [state |-> "deleted", routable |-> FALSE]]
    /\ WriteOut(w, [NoWrites EXCEPT !.st = "deleted", !.co = "none"])
    /\ UNCHANGED <<dbVars, req>> /\ Keep

\* NodeService.delete
Delete(w) ==
    /\ MayHaveVanished(w, "delete")
    /\ pool' = [pool EXCEPT ![Home[w]][NodeOf(w)] = NoEntry]
    /\ WriteOut(w, [NoWrites EXCEPT !.st = "deleted", !.co = "none"])
    /\ UNCHANGED <<dbVars, req>> /\ Keep

\* NodeService.blacklist_auto: the rest of a request its node refused.
AutoBlacklist(w) ==
    /\ MayHaveVanished(w, "autoban")
    /\ WriteOut(w, [NoWrites EXCEPT
                        !.st = StatusIfPresent(w, "blacklisted"), !.ban = "permanent",
                        !.co = IF consent[NodeOf(w)] \in StillVerified
                               THEN "failed" ELSE "keep"])
    /\ UNCHANGED <<dbVars, pool, req>> /\ Keep

-----------------------------------------------------------------------------
(* verify_ownership                                                         *)

\* ConsentService.verify could not reach the node: nothing changes.
ProofInconclusive(w) ==
    /\ At(w, "begun", "verify")
    /\ NodeOf(w) \notin TokenNodes
    /\ Finish(w)
    /\ UNCHANGED <<dbVars, pool, req>> /\ Keep

\* It answered without a valid proof: the quarantine is committed and the
\* handler raises, so neither sync_pool nor the health check runs.
ProofFailed(w) ==
    /\ Writing(w, "verify")
    /\ status' = [status EXCEPT ![NodeOf(w)] = "quarantined"]
    /\ consent' = [consent EXCEPT ![NodeOf(w)] =
                        IF ses[w].cons = "failed" THEN @ ELSE "failed"]
    /\ Finish(w)
    /\ UNCHANGED <<ban, pool, req>> /\ Keep

ProofPassed(w) ==
    /\ Writing(w, "verify")
    /\ LET s == [ses[w] EXCEPT
                    !.out.st = "verified",
                    !.out.co = IF ses[w].cons \in StillVerified THEN "renew"
                               ELSE "verified"]
       IN  Update(w, [Syncing(s) EXCEPT !.pc = "proved"])
    /\ proved' = proved \cup {NodeOf(w)}
    /\ UNCHANGED <<dbVars, pool, req>> /\ Watch

-----------------------------------------------------------------------------
(* check_node, from the loop (check), the admin API (force) and, nested in  *)
(* verify_ownership, right after a verification.                            *)

\* _consent_status reads the consent; one past its end is marked at once.
ReadConsent(w) ==
    /\ ses[w].pc = "checking"
    /\ ses[w].op \in {"check", "force"}
    /\ ses[w].cons = "unread"
    /\ LET co == consent[NodeOf(w)] IN
          /\ co = "lapsed" => Lockable(w, NodeOf(w))
          /\ Update(w, [ses[w] EXCEPT !.cons = co,
                            !.out.co = IF co = "lapsed" THEN "expired" ELSE "keep"])
    /\ UNCHANGED <<dbVars, pool, req>> /\ Keep

\* What the consent re-check may conclude.  A background round skips it until
\* it is due; revalidate has no signed token to present, so that method's
\* nodes always fail it.
Verdicts(s) ==
    IF s.cons = "unread" THEN IF s.op = "check" THEN {"skipped"} ELSE {}
    ELSE IF ConsentSeen(s) # "verified" \/ s.node \in TokenNodes THEN {"broken"}
    ELSE {"active", "inconclusive", "broken"}

\* After check_node has written: a background round commits; the other callers
\* update the runtime they hold and resynchronise.
AfterCheck(op) == IF op = "check" THEN "commit" ELSE "checked"

\* The session once the run has concluded `target': _blacklist or _transition, and
\* the state hook where the status was written.
Checked(s, target) ==
    LET moved == target \notin {"keep", RowSeen(s)}
        banned == target = "blacklisted"
        out == [st |-> IF moved THEN target ELSE s.out.st,
                co |-> IF banned /\ ConsentSeen(s) \in StillVerified
                       THEN "failed" ELSE s.out.co,
                ban |-> IF banned THEN "permanent" ELSE "keep",
                pub |-> s.op = "check" /\ target \notin {"keep", "blacklisted"}]
    IN  [s EXCEPT !.out = out,
                  !.pc = IF moved THEN "hooked" ELSE AfterCheck(s.op),
                  !.snap = IF moved THEN Committed ELSE NoSnap]

\* Mutant: the row is merged back into the session, which inserts it again.
CheckNodeMerging(w) ==
    LET s == ses[w] IN
    /\ s.pc = "checking"
    /\ Lockable(w, s.node)
    /\ \E verdict \in Verdicts(s) :
       \E target \in CheckTargets(RowSeen(s), verdict) : Update(w, Checked(s, target))
    /\ UNCHANGED <<dbVars, pool, req>> /\ Keep

CheckNode(w) ==
    LET s == ses[w] IN
    /\ s.pc = "checking"
    /\ s.op = "verify" \/ status[s.node] \notin NoRow
    /\ Lockable(w, s.node)
    /\ \E verdict \in Verdicts(s) :
       \E target \in CheckTargets(RowSeen(s), verdict) : Update(w, Checked(s, target))
    /\ UNCHANGED <<dbVars, pool, req>> /\ Keep

\* check_node's last lines on the runtime its caller passed, then sync_pool.
Resync(w) ==
    LET st == RowSeen(ses[w]) IN
    /\ ses[w].pc = "checked"
    /\ pool' = [pool EXCEPT ![Home[w]][NodeOf(w)] =
                    IF @ = NoEntry THEN @
                    ELSE [state |-> st,
                          routable |-> st \in RoutableStates /\ @.routable]]
    /\ Update(w, Syncing(ses[w]))
    /\ UNCHANGED <<dbVars, req>> /\ Keep

-----------------------------------------------------------------------------
(* Sync passes and commits                                                  *)

\* Mutant: the pass opens nodes and closes none.
ApplySyncOpening(w) ==
    LET s == ses[w] IN
    /\ s.pc \in {"proved", "hooked", "syncing"}
    /\ pool' = [pool EXCEPT ![Home[w]] =
                    [n \in Nodes |-> IF s.snap[n].routable THEN s.snap[n] ELSE @[n]]]
    /\ LET next == CASE s.pc = "proved" -> "checking"
                     [] s.pc = "hooked" -> AfterCheck(s.op)
                     [] s.pc = "syncing" -> "commit"
       IN  IF s.op = "sync" THEN Finish(w)
           ELSE Update(w, [s EXCEPT !.pc = next, !.snap = NoSnap])
    /\ UNCHANGED <<dbVars, req>> /\ Keep

\* NodePool.sync.  The pass after a verification is followed by the nested
\* check; the one of the state hook returns into check_node; the one of a
\* background reader has nothing to commit.
ApplySync(w) ==
    LET s == ses[w] IN
    /\ s.pc \in {"proved", "hooked", "syncing"}
    /\ pool' = [pool EXCEPT ![Home[w]] = s.snap]
    /\ LET next == CASE s.pc = "proved" -> "checking"
                     [] s.pc = "hooked" -> AfterCheck(s.op)
                     [] s.pc = "syncing" -> "commit"
       IN  IF s.op = "sync" THEN Finish(w)
           ELSE Update(w, [s EXCEPT !.pc = next, !.snap = NoSnap])
    /\ UNCHANGED <<dbVars, req>> /\ Keep

\* Mutant: the renewal writes the status column along with expires_at.
CommitRenewing(w) ==
    LET s == ses[w]
        n == s.node IN
    /\ s.pc = "commit"
    /\ status' = IF s.out.st = "keep" THEN status
                 ELSE [status EXCEPT ![n] = s.out.st]
    /\ consent' = CASE s.out.co = "keep" -> consent
                    [] s.out.co = "renew" -> [consent EXCEPT ![n] = "verified"]
                    [] OTHER -> [consent EXCEPT ![n] = s.out.co]
    /\ ban' = IF s.out.ban = "keep" THEN ban ELSE [ban EXCEPT ![n] = s.out.ban]
    /\ IF s.out.pub THEN Update(w, [IdleSession EXCEPT !.pc = "publish", !.op = "sync"])
                    ELSE Finish(w)
    /\ UNCHANGED <<pool, req>> /\ Keep

\* The end of session_scope.
Commit(w) ==
    LET s == ses[w]
        n == s.node IN
    /\ s.pc = "commit"
    /\ status' = IF s.out.st = "keep" THEN status
                 ELSE [status EXCEPT ![n] = s.out.st]
    /\ consent' = CASE s.out.co = "keep" -> consent
                    [] s.out.co = "renew" ->
                         [consent EXCEPT ![n] = IF @ \in StillVerified
                                                THEN "verified" ELSE @]
                    [] OTHER -> [consent EXCEPT ![n] = s.out.co]
    /\ ban' = IF s.out.ban = "keep" THEN ban ELSE [ban EXCEPT ![n] = s.out.ban]
    /\ IF s.out.pub THEN Update(w, [IdleSession EXCEPT !.pc = "publish", !.op = "sync"])
                    ELSE Finish(w)
    /\ UNCHANGED <<pool, req>> /\ Keep

\* A session that reads the registry and changes nothing: a round of
\* _registry_sync_loop, or the hook _publish calls after a check round.
ReadRegistry(w) ==
    /\ CanStart(w, "sync") \/ ses[w].pc = "publish"
    /\ Update(w, [IdleSession EXCEPT !.pc = "syncing", !.op = "sync",
                                     !.snap = Committed])
    /\ UNCHANGED <<dbVars, pool, req>> /\ Keep

-----------------------------------------------------------------------------
(* Requests: _acquire and fanout                                            *)

Routable(r, n) == pool[Home[r]][n].routable

\* The session returns the objects it still holds, so the row and the consent
\* of the node picked last are the ones read then; a consent that is gone is
\* noticed.
PickNode(r, n) ==
    /\ req[r].pc \in {"idle", "waiting"}
    /\ Routable(r, n)
    /\ n \notin req[r].exclude
    /\ LET q == req[r]
           row == IF q.row # "unregistered" /\ q.node = n THEN q.row ELSE status[n]
           co == IF q.node = n THEN q.cons ELSE "unread"
       IN  req' = [req EXCEPT ![r] = [q EXCEPT !.pc = "picked", !.node = n,
                                               !.row = row, !.cons = co]]
    /\ UNCHANGED <<dbVars, pool, ses>> /\ Keep

\* Mutant: the node is taken as the pool has it.
DecideUnchecked(r) ==
    /\ req[r].pc = "picked"
    /\ req' = [req EXCEPT ![r] = [IdleRequest EXCEPT !.pc = "sent", !.node = req[r].node,
                                                 !.exclude = req[r].exclude]]
    /\ UNCHANGED <<dbVars, pool, ses>> /\ Keep

\* The second check of row and consent, and the slot.
Decide(r) ==
    LET q == req[r]
        co == IF q.cons = "unread" \/ consent[q.node] = "none"
              THEN consent[q.node] ELSE q.cons
        healthy == co = "verified" /\ q.row \in RoutableStates
    IN
    /\ q.pc = "picked"
    /\ \/ /\ healthy
          /\ req' = [req EXCEPT ![r] = [IdleRequest EXCEPT !.pc = "sent", !.node = q.node,
                                                      !.exclude = q.exclude]]
       \/ /\ healthy /\ SlotsScarce
          /\ req' = [req EXCEPT ![r].pc = "waiting", ![r].cons = co]
       \/ /\ ~healthy
          /\ req' = [req EXCEPT ![r] = [IdleRequest EXCEPT !.pc = "waiting",
                                            !.exclude = q.exclude \cup {q.node}]]
    /\ UNCHANGED <<dbVars, pool, ses>> /\ Keep

\* The node could not be connected to: another one is tried.
Retry(r) ==
    /\ req[r].pc = "sent"
    /\ req' = [req EXCEPT ![r] = [IdleRequest EXCEPT !.pc = "waiting",
                                     !.exclude = req[r].exclude \cup {req[r].node}]]
    /\ UNCHANGED <<dbVars, pool, ses>> /\ Keep

\* fanout asks every routable node whose row exists.
Fanout(r, n) ==
    /\ req[r].pc = "idle"
    /\ Routable(r, n)
    /\ Present(n)
    /\ req' = [req EXCEPT ![r] = [IdleRequest EXCEPT !.pc = "fanned", !.node = n]]
    /\ UNCHANGED <<dbVars, pool, ses>> /\ Keep

\* Answered, or given up for want of a node.
EndRequest(r) ==
    /\ req[r].pc \in {"sent", "fanned", "waiting"}
    /\ req' = [req EXCEPT ![r] = IdleRequest]
    /\ UNCHANGED <<dbVars, pool, ses>> /\ Keep

\* NodeService.observe: a node that answers 401/403 leaves the pool before the
\* blacklisting begins.
Refused(r, w) ==
    LET n == req[r].node IN
    /\ req[r].pc \in {"sent", "fanned"}
    /\ Home[w] = Home[r]
    /\ CanStart(w, "autoban")
    /\ Routable(r, n)
    /\ pool' = [pool EXCEPT ![Home[r]][n].routable = FALSE]
    /\ Update(w, [IdleSession EXCEPT !.pc = "begun", !.op = "autoban", !.node = n])
    /\ req' = [req EXCEPT ![r] = IdleRequest]
    /\ UNCHANGED dbVars /\ Keep

-----------------------------------------------------------------------------
(* Time and failures                                                        *)

LapseOf(co) == IF co = "verified" THEN "lapsed" ELSE co

\* expires_at passes, for the row and for every copy of it.
Lapse(n) ==
    /\ consent[n] = "verified"
    /\ consent' = [consent EXCEPT ![n] = LapseOf(@)]
    /\ ses' = [w \in Workers |-> IF ses[w].node = n
                                 THEN [ses[w] EXCEPT !.cons = LapseOf(@)] ELSE ses[w]]
    /\ req' = [r \in Requests |-> IF req[r].node = n
                                  THEN [req[r] EXCEPT !.cons = LapseOf(@)] ELSE req[r]]
    /\ UNCHANGED <<status, ban, pool>> /\ Keep

BanElapses(n) ==
    /\ ban[n] = "temporary"
    /\ ban' = [ban EXCEPT ![n] = "elapsed"]
    /\ UNCHANGED <<status, consent, pool, ses, req>> /\ Keep

\* A handler raises or is cancelled: its session rolls back, what it did to the
\* pool stays.
Fail(w) ==
    /\ Faults
    /\ ses[w].pc # "idle"
    /\ Finish(w)
    /\ UNCHANGED <<dbVars, pool, req>> /\ Keep

\* startup reads the registry before it serves.
Restart(p) ==
    /\ Faults
    /\ pool' = [pool EXCEPT ![p] = Committed]
    /\ ses' = [w \in Workers |-> IF Home[w] = p THEN IdleSession ELSE ses[w]]
    /\ req' = [r \in Requests |-> IF Home[r] = p THEN IdleRequest ELSE req[r]]
    /\ UNCHANGED dbVars /\ Keep

-----------------------------------------------------------------------------
WorkerStep(w) ==
    \/ \E n \in Nodes : Enroll(w, n) \/ \E op \in Jobs[w] : Begin(w, op, n)
    \/ Revoke(w) \/ Expire(w) \/ Blacklist(w) \/ Lift(w) \/ SetDraining(w)
    \/ Delete(w) \/ AutoBlacklist(w)
    \/ ProofInconclusive(w) \/ ProofFailed(w) \/ ProofPassed(w)
    \/ ReadConsent(w) \/ CheckNode(w) \/ Resync(w)
    \/ ApplySync(w) \/ Commit(w) \/ ReadRegistry(w) \/ Vanish(w) \/ Fail(w)

RequestStep(r) ==
    \/ \E n \in Nodes : PickNode(r, n) \/ Fanout(r, n)
    \/ Decide(r) \/ Retry(r) \/ EndRequest(r)
    \/ \E w \in Workers : Refused(r, w)

Environment ==
    \/ \E n \in Nodes : Lapse(n) \/ BanElapses(n)
    \/ \E p \in Procs : Restart(p)

Next == \/ \E w \in Workers : WorkerStep(w)
        \/ \E r \in Requests : RequestStep(r)
        \/ Environment

Spec == Init /\ [][Next]_vars

\* What the scheduler owes: a coroutine that can run is run, the database's lock
\* queue serves every waiter, and the registry loop never stops reading.
Progress(w) == \/ ApplySync(w) \/ Commit(w) \/ Vanish(w) \/ Resync(w)
               \/ ReadRegistry(w) \/ ReadConsent(w)
Answers(w) == CheckNode(w) \/ ProofInconclusive(w) \/ ProofFailed(w)
Performing(ops) == {w \in Workers : Jobs[w] \cap ops # {}}
FairSpec ==
    /\ Spec
    /\ \A w \in Workers : WF_vars(Progress(w))
    /\ \A w \in Performing({"verify", "check", "force"}) : SF_vars(Answers(w))
    /\ \A w \in Performing({"expire"}) :
          SF_vars(Expire(w)) /\ WF_vars(\E n \in Nodes : Begin(w, "expire", n))

-----------------------------------------------------------------------------
(* Properties                                                               *)

\* No process offers, and no request is sent to, a node whose owner has never
\* passed a proof of ownership (require_consent; README, acceptance criterion 1).
NoTrafficBeforeProof ==
    /\ \A p \in Procs, n \in Nodes : pool[p][n].routable => n \in proved
    /\ \A r \in Requests : req[r].pc \in {"sent", "fanned"} => req[r].node \in proved

\* _acquire sends a request to a node only if its row was routable and its consent
\* verified at some moment since the request began, however stale the pool is.
DispatchCleared ==
    \A r \in Requests : req[r].pc = "sent" =>
        \A g \in {"row", "consent"} : <<req[r].node, g>> \in seen[r]

\* A consent that was revoked, expired or failed becomes verified again only through
\* a verification that saw it so: one begun while it still read verified extends it
\* and never restores it (it writes expires_at alone).
ConsentRestoredByProof ==
    [][\A n \in Nodes : consent[n] \notin StillVerified /\ consent'[n] \in StillVerified
           => \E w \in Workers : /\ At(w, "commit", "verify")
                                 /\ NodeOf(w) = n
                                 /\ ses[w].cons \notin StillVerified]_vars

\* A node that was deleted never comes back, and leaves no consent behind, whatever
\* handlers had loaded its rows before the deletion and write after it (delete_cascade:
\* the rows of a node and its consents go together).
DeletedStaysDeleted ==
    [][\A n \in Nodes : status[n] = "deleted" =>
           status'[n] = "deleted" /\ consent'[n] = "none"]_vars

\* The registry offers the node.
Offered(n) == status[n] \in RoutableStates /\ consent[n] = "verified"
Settled == \A w \in Workers : ses[w].pc = "idle"

\* With one handler at a time, between handlers the pool offers what the registry
\* offers.  The exceptions: a consent that lapsed since; a failed verification,
\* which commits the quarantine and returns without sync_pool; and a background
\* check that met a 401/403, whose blacklisting nothing publishes.
SettledPoolAgrees ==
    Settled => \A p \in Procs, n \in Nodes :
        /\ Offered(n) => pool[p][n].routable
        /\ pool[p][n].routable /\ ~Offered(n) =>
              \/ consent[n] = "lapsed" /\ status[n] \in RoutableStates
              \/ consent[n] = "failed" /\ status[n] = "quarantined"
              \/ consent[n] = "failed" /\ status[n] = "blacklisted"

\* Once the handlers are done with a node, a process with a registry loop ends up
\* offering it exactly when the registry does, whatever stale passes it ran before
\* (README: a replica applies a revocation by re-reading the registry).
ReplicaConverges ==
    \A w \in Workers, n \in Nodes, offered \in BOOLEAN :
        "sync" \in Jobs[w] =>
            (<>[](/\ Offered(n) = offered
                  /\ \A v \in Workers : ses[v].node # n)
             => <>[](pool[Home[w]][n].routable = offered))

\* The expiry loop ends every lapsed consent (_consent_expiry_loop).
LapsedConsentEnds == \A n \in Nodes : consent[n] = "lapsed" ~> consent[n] # "lapsed"

\* An address under an active ban is in the registry at most under the id that was
\* banned (register refuses a blocked endpoint, whatever id it gets).
BannedEndpointClosed ==
    \A m, n \in Nodes :
        /\ m # n /\ EndpointOf[m] = EndpointOf[n]
        /\ ban[m] \in {"permanent", "temporary"}
        => ~Present(n)

-----------------------------------------------------------------------------
(* What the documents promise and the code does not keep: each is violated  *)
(* by a run of its own.                                                     *)

Closed(n) == \A p \in Procs : ~pool[p][n].routable
CommitOf(ops, n) ==
    \E w \in Workers : ses[w].pc = "commit" /\ ses[w].op \in ops /\ ses[w].node = n

\* A node on the blacklist serves no traffic (the glossary's definition of it).
BannedNodeClosed ==
    Settled => \A n \in Nodes : ban[n] \in {"permanent", "temporary"} => Closed(n)

\* A node whose consent is revoked is out of the pool once the handlers are done.
RevokedClosed ==
    Settled => \A n \in Nodes : consent[n] = "revoked" => Closed(n)

\* A draining node gets no new requests until someone ends the draining.
DrainedStaysOut ==
    [][\A n \in Nodes : status[n] = "draining" /\ Offered(n)'
           => CommitOf({"undrain", "verify"}, n)]_vars

=============================================================================

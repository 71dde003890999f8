------------------------- MODULE NodeRegistryProofs -------------------------
(***************************************************************************)
(* Theorems of NodeRegistry, for every number of nodes, processes, workers *)
(* and requests and every assignment of jobs: type correctness; that no    *)
(* node is offered or sent a request before its owner proved it; what a    *)
(* request has been cleared by; and who may undo a withdrawal.             *)
(***************************************************************************)
EXTENDS NodeRegistry, TLAPS

(***************************************************************************)
(* NoTrafficBeforeProof is not inductive: the pool is rebuilt from         *)
(* snapshots, a snapshot from the tables and the session's own view, and   *)
(* that view from the columns a handler has read or is about to write.     *)
(* Each of these places may claim a verified consent only for a node of P, *)
(* the nodes that were proved.  And a handler that is under way has a      *)
(* node, a check a row of it.                                              *)
(***************************************************************************)
TablesInv(st, co, ba, P) ==
    /\ st \in [Nodes -> NodeState \cup NoRow]
    /\ co \in [Nodes -> ConsentStatus]
    /\ ba \in [Nodes -> BanState]
    /\ \A n \in Nodes : co[n] \in StillVerified => n \in P

SnapInv(snap, P) ==
    /\ snap \in [Nodes -> Entry]
    /\ \A n \in Nodes : snap[n].routable => n \in P

PoolInv(pl, P) ==
    /\ pl \in [Procs -> [Nodes -> Entry]]
    /\ \A p \in Procs : SnapInv(pl[p], P)

SessionInv(s, P) ==
    /\ s \in Session
    /\ s.pc \notin {"idle", "syncing", "publish"} => s.node \in Nodes
    /\ s.pc = "syncing" /\ s.op # "sync" => s.node \in Nodes
    /\ s.pc \in {"proved", "checking", "hooked", "checked"} => RowSeen(s) \in NodeState
    /\ s.cons \in StillVerified => s.node \in P
    /\ s.out.co \in {"verified", "renew"} => s.node \in P
    /\ SnapInv(s.snap, P)

RequestInv(q, P) ==
    /\ q \in Request
    /\ q.pc \in {"picked", "sent", "fanned"} => q.node \in Nodes
    /\ q.cons \in StillVerified => q.node \in P
    /\ q.pc \in {"sent", "fanned"} => q.node \in P

IInv ==
    /\ TablesInv(status, consent, ban, proved)
    /\ PoolInv(pool, proved)
    /\ ses \in [Workers -> Session]
    /\ \A w \in Workers : SessionInv(ses[w], proved)
    /\ req \in [Requests -> Request]
    /\ \A r \in Requests : RequestInv(req[r], proved)
    /\ proved \subseteq Nodes
    /\ seen \in [Requests -> SUBSET (Nodes \X {"row", "consent"})]

-----------------------------------------------------------------------------
(* Null records, entries and snapshots                                      *)

LEMMA IdleTypes ==
    /\ IdleSession \in Session
    /\ IdleRequest \in Request
    /\ NoSnap \in [Nodes -> Entry]
    /\ NoEntry \in Entry
    /\ NoWrites \in Writes
<1>1. NoEntry \in Entry
  BY SMT DEF NoEntry, Entry
<1>2. NoSnap \in [Nodes -> Entry]
  BY <1>1 DEF NoSnap
<1>3. NoWrites \in Writes
  BY SMT DEF NoWrites, Writes
<1>4. IdleSession \in Session
  BY <1>2, <1>3, SMT DEF IdleSession, Session, NoRow
<1>5. IdleRequest \in Request
  BY SMT DEF IdleRequest, Request, NoRow
<1> QED
  BY <1>1, <1>2, <1>3, <1>4, <1>5

\* What is idle claims nothing.
LEMMA IdleInv ==
    ASSUME NEW P
    PROVE  /\ SnapInv(NoSnap, P)
           /\ SessionInv(IdleSession, P)
           /\ RequestInv(IdleRequest, P)
<1>1. SnapInv(NoSnap, P)
  BY IdleTypes DEF SnapInv, NoSnap, NoEntry
<1>2. SessionInv(IdleSession, P)
  BY <1>1, IdleTypes DEF SessionInv, IdleSession, NoWrites, StillVerified
<1>3. RequestInv(IdleRequest, P)
  BY IdleTypes DEF RequestInv, IdleRequest, StillVerified
<1> QED
  BY <1>1, <1>2, <1>3

\* An entry built from a row and a consent is routable only if the consent is
\* verified.
LEMMA EntryOfType ==
    ASSUME NEW st \in NodeState \cup NoRow, NEW co \in ConsentStatus
    PROVE  /\ EntryOf(st, co) \in Entry
           /\ EntryOf(st, co).routable => co = "verified"
<1>1. EntryOf(st, co) \in Entry
  BY SMT DEF EntryOf, Entry
<1>2. EntryOf(st, co).routable => co = "verified"
  BY Zenon DEF EntryOf
<1> QED
  BY <1>1, <1>2

\* The committed registry is a snapshot that offers only proved nodes.
LEMMA CommittedInv ==
    ASSUME IInv
    PROVE  SnapInv(Committed, proved)
BY EntryOfType DEF Committed, IInv, TablesInv, SnapInv, StillVerified

\* A session sees its node's consent verified only if the node is proved, or
\* counted as proved by the step.
LEMMA ConsentSeenInv ==
    ASSUME IInv, NEW P, proved \subseteq P, NEW s, SessionInv(s, P), s.node \in Nodes
    PROVE  /\ ConsentSeen(s) \in ConsentStatus
           /\ ConsentSeen(s) \in StillVerified => s.node \in P
<1>1. s.out.co \in (ConsentStatus \ {"lapsed"}) \cup {"keep", "renew"}
  BY DEF SessionInv, Session, Writes
<1>2. s.cons \in ConsentStatus \cup {"unread"}
  BY DEF SessionInv, Session
<1>3. consent[s.node] \in ConsentStatus /\ (consent[s.node] \in StillVerified => s.node \in P)
  BY DEF IInv, TablesInv
<1>4. /\ s.cons \in StillVerified => s.node \in P
      /\ s.out.co \in {"verified", "renew"} => s.node \in P
  BY DEF SessionInv
<1> QED
  BY <1>1, <1>2, <1>3, <1>4, SMT DEF ConsentSeen, ConsentStatus, StillVerified

LEMMA RowSeenType ==
    ASSUME NEW s \in Session
    PROVE  RowSeen(s) \in NodeState \cup NoRow
BY SMT DEF RowSeen, Session, Writes, NoRow

\* So its view of the registry offers only such nodes.
LEMMA ViewInv ==
    ASSUME IInv, NEW P, proved \subseteq P, NEW s, SessionInv(s, P), s.node \in Nodes
    PROVE  SnapInv(View(s), P)
<1>1. /\ EntryOf(RowSeen(s), ConsentSeen(s)) \in Entry
      /\ EntryOf(RowSeen(s), ConsentSeen(s)).routable => s.node \in P
  BY RowSeenType, ConsentSeenInv, EntryOfType DEF SessionInv, StillVerified
<1>2. \A n \in Nodes : /\ EntryOf(status[n], consent[n]) \in Entry
                       /\ EntryOf(status[n], consent[n]).routable => n \in P
  BY EntryOfType DEF IInv, TablesInv, StillVerified
<1> QED
  BY <1>1, <1>2 DEF View, SnapInv

LEMMA SyncingInv ==
    ASSUME IInv, NEW P, proved \subseteq P, NEW s, SessionInv(s, P), s.node \in Nodes
    PROVE  /\ SessionInv(Syncing(s), P)
           /\ Syncing(s).node = s.node
           /\ Syncing(s).pc = "syncing"
<1>1. SnapInv(View(s), P)
  BY ViewInv
<1>2. Syncing(s) \in Session
  BY <1>1, Zenon DEF Syncing, Session, SessionInv, SnapInv
<1>3. /\ Syncing(s).node = s.node /\ Syncing(s).cons = s.cons /\ Syncing(s).op = s.op
      /\ Syncing(s).out = s.out /\ Syncing(s).snap = View(s) /\ Syncing(s).pc = "syncing"
  BY Zenon DEF Syncing, SessionInv, Session
<1> QED
  BY <1>1, <1>2, <1>3 DEF SessionInv

-----------------------------------------------------------------------------
(* Steps                                                                    *)

\* A worker's step leaves the invariant if the session it moves to, the tables and
\* the pool do.
LEMMA WorkerStepInv ==
    ASSUME IInv, NEW w \in Workers, NEW s, SessionInv(s, proved), Update(w, s),
           TablesInv(status', consent', ban', proved), PoolInv(pool', proved),
           UNCHANGED req, Keep
    PROVE  IInv'
<1>1. ses' \in [Workers -> Session]
  BY DEF IInv, Update, SessionInv
<1>2. \A v \in Workers : SessionInv(ses'[v], proved)
  BY DEF IInv, Update
<1>3. seen' \in [Requests -> SUBSET (Nodes \X {"row", "consent"})]
  BY DEF Keep, Watch, IInv, OpenGates
<1> QED
  BY <1>1, <1>2, <1>3 DEF IInv, Keep

\* The tables and the pool as they were.
LEMMA TablesKept ==
    ASSUME IInv, UNCHANGED dbVars
    PROVE  TablesInv(status', consent', ban', proved)
BY DEF IInv, dbVars

LEMMA PoolKept ==
    ASSUME IInv, UNCHANGED pool
    PROVE  PoolInv(pool', proved)
BY DEF IInv

\* A step that ends a handler and touches nothing else.
LEMMA FinishInv ==
    ASSUME IInv, NEW w \in Workers, Finish(w), UNCHANGED <<dbVars, pool, req>>, Keep
    PROVE  IInv'
<1>1. SessionInv(IdleSession, proved)
  BY IdleInv
<1> QED
  BY <1>1, TablesKept, PoolKept, WorkerStepInv DEF Finish

\* The columns a handler may write without claiming a verified consent.
PlainWrites == {out \in Writes : out.co \notin {"verified", "renew"}}

LEMMA WriteOutInv ==
    ASSUME IInv, NEW w \in Workers, NEW out \in PlainWrites, WriteOut(w, out),
           NodeOf(w) \in Nodes, ses[w].pc = "begun",
           UNCHANGED <<dbVars, req>>, PoolInv(pool', proved), Keep
    PROVE  IInv'
<1> DEFINE s == [ses[w] EXCEPT !.out = out]
<1>1. ses[w] \in Session /\ SessionInv(ses[w], proved)
  BY DEF IInv
<1>2. s \in Session
  BY <1>1, Zenon DEF Session, PlainWrites
<1>3. s.node = ses[w].node /\ s.pc = ses[w].pc /\ s.cons = ses[w].cons
      /\ s.out = out /\ s.snap = ses[w].snap
  BY <1>1, Zenon DEF Session
<1>4. SessionInv(s, proved)
  BY <1>1, <1>2, <1>3 DEF SessionInv, PlainWrites, NodeOf
<1> HIDE DEF s
<1>5. SessionInv(Syncing(s), proved)
  BY <1>3, <1>4, SyncingInv DEF NodeOf
<1>6. Update(w, Syncing(s))
  BY DEF WriteOut, s
<1> QED
  BY <1>5, <1>6, TablesKept, WorkerStepInv

\* Home is a process.
LEMMA HomeType == \A x \in Workers \cup Requests : Home[x] \in Procs
BY RegistryAssumption

\* An entry of the pool set to one that is not routable.
LEMMA ClosingInv ==
    ASSUME IInv, NEW p \in Procs, NEW n \in Nodes, NEW e \in Entry,
           e.routable => pool[p][n].routable,
           pool' = [pool EXCEPT ![p] = [pool[p] EXCEPT ![n] = e]]
    PROVE  PoolInv(pool', proved)
<1>1. PoolInv(pool, proved)
  BY DEF IInv
<1>2. pool' \in [Procs -> [Nodes -> Entry]]
  BY <1>1 DEF PoolInv
<1>3. ASSUME NEW q \in Procs, NEW m \in Nodes, pool'[q][m].routable
      PROVE  m \in proved
  <2>1. CASE q = p /\ m = n
    BY <1>1, <1>3, <2>1 DEF PoolInv, SnapInv
  <2>2. CASE ~(q = p /\ m = n)
    BY <1>1, <1>3, <2>2 DEF PoolInv, SnapInv
  <2> QED
    BY <2>1, <2>2
<1> QED
  BY <1>2, <1>3 DEF PoolInv, SnapInv

\* Writes that claim no verified consent.
PlainStatus == NodeState \cup {"keep", "deleted"}
PlainConsent == (ConsentStatus \ {"verified", "lapsed"}) \cup {"keep"}

LEMMA PlainTypes ==
    ASSUME NEW st \in PlainStatus, NEW co \in PlainConsent,
           NEW b \in {"none", "permanent", "temporary", "keep"}
    PROVE  /\ [NoWrites EXCEPT !.st = st] \in PlainWrites
           /\ [NoWrites EXCEPT !.st = st, !.co = co] \in PlainWrites
           /\ [NoWrites EXCEPT !.st = st, !.ban = b] \in PlainWrites
           /\ [NoWrites EXCEPT !.st = st, !.ban = b, !.co = co] \in PlainWrites
<1>1. co \in (ConsentStatus \ {"lapsed"}) \cup {"keep", "renew"}
  BY Zenon DEF PlainConsent
<1>2. co \notin {"verified", "renew"} /\ NoWrites.co \notin {"verified", "renew"}
  BY SMT DEF PlainConsent, ConsentStatus, NoWrites
<1>3. [NoWrites EXCEPT !.st = st] \in Writes
  BY IdleTypes, Zenon DEF Writes, PlainStatus
<1>4. [NoWrites EXCEPT !.st = st, !.co = co] \in Writes
  BY <1>1, IdleTypes, Zenon DEF Writes, PlainStatus
<1>5. [NoWrites EXCEPT !.st = st, !.ban = b] \in Writes
  BY IdleTypes, Zenon DEF Writes, PlainStatus
<1>6. [NoWrites EXCEPT !.st = st, !.ban = b, !.co = co] \in Writes
  BY <1>1, IdleTypes, Zenon DEF Writes, PlainStatus
<1>7. /\ [NoWrites EXCEPT !.st = st].co = NoWrites.co
      /\ [NoWrites EXCEPT !.st = st, !.co = co].co = co
      /\ [NoWrites EXCEPT !.st = st, !.ban = b].co = NoWrites.co
      /\ [NoWrites EXCEPT !.st = st, !.ban = b, !.co = co].co = co
  BY DEF NoWrites
<1> QED
  BY <1>2, <1>3, <1>4, <1>5, <1>6, <1>7 DEF PlainWrites

LEMMA EnrollStep ==
    ASSUME IInv, NEW w \in Workers, NEW n \in Nodes, Enroll(w, n)
    PROVE  IInv'
<1> DEFINE out == [NoWrites EXCEPT !.st = "consent_challenge_sent",
                                   !.co = "challenge_sent"]
           s == [IdleSession EXCEPT !.op = "enroll", !.node = n, !.out = out]
<1>1. out \in PlainWrites
  <2>1. "consent_challenge_sent" \in PlainStatus /\ "challenge_sent" \in PlainConsent
    BY DEF PlainStatus, PlainConsent, NodeState, ConsentStatus
  <2> QED
    BY <2>1, PlainTypes
<1>3. s \in Session
  BY <1>1, IdleTypes, Zenon DEF Session, OpNames, PlainWrites
<1>4. s.node = n /\ s.pc = "idle" /\ s.cons = "unread" /\ s.out = out /\ s.snap = NoSnap
  BY DEF IdleSession
<1>5. SessionInv(s, proved)
  BY <1>1, <1>3, <1>4, IdleInv, Zenon DEF SessionInv, PlainWrites, StillVerified
<1>6. Update(w, Syncing(s)) /\ UNCHANGED <<dbVars, pool, req>> /\ Keep
  BY DEF Enroll
<1> HIDE DEF s
<1> QED
  BY <1>4, <1>5, <1>6, SyncingInv, TablesKept, PoolKept, WorkerStepInv

LEMMA BeginStep ==
    ASSUME IInv, NEW w \in Workers, NEW op \in Jobs[w], NEW n \in Nodes, Begin(w, op, n)
    PROVE  IInv'
<1> DEFINE s == [IdleSession EXCEPT
                    !.pc = IF op \in LoadsRow THEN "checking" ELSE "begun",
                    !.op = op, !.node = n,
                    !.row = IF op \in LoadsRow THEN status[n] ELSE @,
                    !.cons = IF op \in LoadsConsent THEN consent[n] ELSE @]
<1>1. op \in OpNames
  BY RegistryAssumption
<1>2. /\ s.pc \in {"checking", "begun"} /\ s.op = op /\ s.node = n
      /\ s.cons \in {consent[n], "unread"} /\ s.row \in {status[n], "unregistered"}
      /\ s.out = NoWrites /\ s.snap = NoSnap
  BY DEF IdleSession
<1>3. /\ consent[n] \in ConsentStatus /\ status[n] \in NodeState \cup NoRow
      /\ consent[n] \in StillVerified => n \in proved
  BY DEF IInv, TablesInv
<1>4. s \in Session
  <2>1. (IF op \in LoadsRow THEN "checking" ELSE "begun")
            \in {"idle", "begun", "proved", "checking", "hooked", "checked",
                 "syncing", "commit", "publish"}
    BY Zenon
  <2>2. (IF op \in LoadsRow THEN status[n] ELSE IdleSession.row) \in NodeState \cup NoRow
    BY <1>3 DEF IdleSession, NoRow
  <2>3. (IF op \in LoadsConsent THEN consent[n] ELSE IdleSession.cons)
            \in ConsentStatus \cup {"unread"}
    BY <1>3 DEF IdleSession
  <2> QED
    BY <1>1, <2>1, <2>2, <2>3, IdleTypes, Zenon DEF Session
<1> HIDE DEF s
<1>5. s.pc = "checking" => RowSeen(s) \in NodeState
  <2>1. status[n] \notin NoRow
    BY DEF Begin, Present
  <2>2. s.pc = "checking" => s.row = status[n]
    BY DEF s, IdleSession
  <2> QED
    BY <1>2, <1>3, <2>1, <2>2 DEF RowSeen, NoWrites
<1>6. SessionInv(s, proved)
  BY <1>2, <1>3, <1>4, <1>5, IdleInv DEF SessionInv, NoWrites, StillVerified
<1>7. Update(w, s) /\ UNCHANGED <<dbVars, pool, req>> /\ Keep
  BY DEF Begin, s
<1> QED
  BY <1>7, <1>6, <1>6, TablesKept, PoolKept, WorkerStepInv

LEMMA VanishStep ==
    ASSUME IInv, NEW w \in Workers, Vanish(w)
    PROVE  IInv'
BY FinishInv DEF Vanish

LEMMA FailStep ==
    ASSUME IInv, NEW w \in Workers, Fail(w)
    PROVE  IInv'
BY FinishInv DEF Fail

LEMMA ProofInconclusiveStep ==
    ASSUME IInv, NEW w \in Workers, ProofInconclusive(w)
    PROVE  IInv'
BY FinishInv DEF ProofInconclusive

\* A handler under way has a node, in a process.
LEMMA UnderWay ==
    ASSUME IInv, NEW w \in Workers, ses[w].pc \notin {"idle", "syncing", "publish"}
    PROVE  NodeOf(w) \in Nodes /\ Home[w] \in Procs /\ SessionInv(ses[w], proved)
BY HomeType DEF IInv, SessionInv, NodeOf

LEMMA PlainValues ==
    /\ {"keep", "deleted", "revoked", "blacklisted", "pending_consent", "draining",
        "verified", "quarantined"} \subseteq PlainStatus
    /\ {"none", "keep", "revoked", "failed"} \subseteq PlainConsent
BY DEF PlainStatus, PlainConsent, NodeState, ConsentStatus

LEMMA RevokeStep ==
    ASSUME IInv, NEW w \in Workers, Revoke(w)
    PROVE  IInv'
<1> DEFINE co == IF ses[w].cons = "revoked" THEN "keep" ELSE "revoked"
           p == Home[w]
           n == NodeOf(w)
           e == IF pool[p][n] = NoEntry THEN pool[p][n]
                ELSE [state |-> "revoked", routable |-> FALSE]
<1>1. n \in Nodes /\ p \in Procs /\ ses[w].pc = "begun"
  BY UnderWay DEF Revoke, Writing, At
<1>2. [NoWrites EXCEPT !.st = "revoked", !.co = co] \in PlainWrites
  BY PlainTypes, PlainValues
<1>3. PoolInv(pool', proved)
  <2>1. e \in Entry /\ (e.routable => pool[p][n].routable)
    <3>1. [state |-> "revoked", routable |-> FALSE] \in Entry
      BY SMT DEF Entry, NodeState
    <3>2. pool[p][n] \in Entry
      BY <1>1 DEF IInv, PoolInv
    <3> QED
      BY <3>1, <3>2
  <2>2. pool' = [pool EXCEPT ![p] = [pool[p] EXCEPT ![n] = e]]
    BY DEF Revoke
  <2> QED
    BY <1>1, <2>1, <2>2, ClosingInv
<1> QED
  BY <1>1, <1>2, <1>3, WriteOutInv DEF Revoke

LEMMA ExpireStep ==
    ASSUME IInv, NEW w \in Workers, Expire(w)
    PROVE  IInv'
<1>1. NodeOf(w) \in Nodes /\ ses[w].pc = "begun"
  BY UnderWay DEF Expire, Writing, At
<1>2. [NoWrites EXCEPT !.st = "revoked", !.co = "revoked"] \in PlainWrites
  BY PlainTypes, PlainValues
<1> QED
  BY <1>1, <1>2, PoolKept, WriteOutInv DEF Expire

LEMMA StatusIfPresentType ==
    ASSUME NEW w, NEW st \in PlainStatus
    PROVE  StatusIfPresent(w, st) \in PlainStatus
BY PlainValues DEF StatusIfPresent

LEMMA BlacklistStep ==
    ASSUME IInv, NEW w \in Workers, Blacklist(w)
    PROVE  IInv'
<1> DEFINE p == Home[w]
           n == NodeOf(w)
           e == [pool[p][n] EXCEPT !.routable = FALSE]
<1>1. n \in Nodes /\ p \in Procs /\ ses[w].pc = "begun"
  BY UnderWay DEF Blacklist, MayHaveVanished, At
<1>2. PICK b \in {"permanent", "temporary"} :
          WriteOut(w, [NoWrites EXCEPT !.st = StatusIfPresent(w, "blacklisted"),
                                       !.ban = b])
  BY DEF Blacklist
<1>3. [NoWrites EXCEPT !.st = StatusIfPresent(w, "blacklisted"), !.ban = b] \in PlainWrites
  BY PlainTypes, PlainValues, StatusIfPresentType
<1>4. PoolInv(pool', proved)
  <2>1. e \in Entry /\ ~e.routable
    <3>1. pool[p][n] \in Entry
      BY <1>1 DEF IInv, PoolInv
    <3> QED
      BY <3>1, Zenon DEF Entry
  <2>2. pool' = [pool EXCEPT ![p] = [pool[p] EXCEPT ![n] = e]]
    BY DEF Blacklist, CloseInPool
  <2> QED
    BY <1>1, <2>1, <2>2, ClosingInv
<1> QED
  BY <1>1, <1>2, <1>3, <1>4, WriteOutInv DEF Blacklist

LEMMA LiftStep ==
    ASSUME IInv, NEW w \in Workers, Lift(w)
    PROVE  IInv'
<1>1. NodeOf(w) \in Nodes /\ ses[w].pc = "begun"
  BY UnderWay DEF Lift, MayHaveVanished, At
<1>2. CASE ban[NodeOf(w)] # "none"
  <2>1. [NoWrites EXCEPT !.st = StatusIfPresent(w, "pending_consent"),
                         !.ban = "none"] \in PlainWrites
    BY PlainTypes, PlainValues, StatusIfPresentType
  <2> QED
    BY <1>1, <1>2, <2>1, PoolKept, WriteOutInv DEF Lift
<1>3. CASE ban[NodeOf(w)] = "none"
  BY <1>3, FinishInv DEF Lift
<1> QED
  BY <1>2, <1>3

LEMMA SetDrainingStep ==
    ASSUME IInv, NEW w \in Workers, SetDraining(w)
    PROVE  IInv'
<1>1. NodeOf(w) \in Nodes /\ ses[w].pc = "begun"
  BY UnderWay DEF SetDraining, MayHaveVanished, At
<1>2. /\ [NoWrites EXCEPT !.st = StatusIfPresent(w, "draining")] \in PlainWrites
      /\ [NoWrites EXCEPT !.st = StatusIfPresent(w, "verified")] \in PlainWrites
  BY PlainTypes, PlainValues, StatusIfPresentType
<1> QED
  BY <1>1, <1>2, PoolKept, WriteOutInv DEF SetDraining

LEMMA DeleteStep ==
    ASSUME IInv, NEW w \in Workers, Delete(w)
    PROVE  IInv'
<1> DEFINE p == Home[w]
           n == NodeOf(w)
<1>1. n \in Nodes /\ p \in Procs /\ ses[w].pc = "begun"
  BY UnderWay DEF Delete, MayHaveVanished, At
<1>2. [NoWrites EXCEPT !.st = "deleted", !.co = "none"] \in PlainWrites
  BY PlainTypes, PlainValues
<1>3. PoolInv(pool', proved)
  <2>1. NoEntry \in Entry /\ ~NoEntry.routable
    BY IdleTypes DEF NoEntry
  <2>2. pool' = [pool EXCEPT ![p] = [pool[p] EXCEPT ![n] = NoEntry]]
    BY DEF Delete
  <2> QED
    BY <1>1, <2>1, <2>2, ClosingInv
<1> QED
  BY <1>1, <1>2, <1>3, WriteOutInv DEF Delete

LEMMA AutoBlacklistStep ==
    ASSUME IInv, NEW w \in Workers, AutoBlacklist(w)
    PROVE  IInv'
<1> DEFINE co == IF consent[NodeOf(w)] \in StillVerified THEN "failed" ELSE "keep"
<1>1. NodeOf(w) \in Nodes /\ ses[w].pc = "begun"
  BY UnderWay DEF AutoBlacklist, MayHaveVanished, At
<1>2. [NoWrites EXCEPT !.st = StatusIfPresent(w, "blacklisted"), !.ban = "permanent",
                       !.co = co] \in PlainWrites
  BY PlainTypes, PlainValues, StatusIfPresentType
<1> QED
  BY <1>1, <1>2, PoolKept, WriteOutInv DEF AutoBlacklist

LEMMA ProofFailedStep ==
    ASSUME IInv, NEW w \in Workers, ProofFailed(w)
    PROVE  IInv'
<1> DEFINE n == NodeOf(w)
<1>1. n \in Nodes
  BY UnderWay DEF ProofFailed, Writing, At
<1>2. TablesInv(status', consent', ban', proved)
  <2>1. TablesInv(status, consent, ban, proved)
    BY DEF IInv
  <2>2. status' \in [Nodes -> NodeState \cup NoRow]
    BY <1>1, <2>1 DEF ProofFailed, TablesInv, NodeState
  <2>3. /\ consent' \in [Nodes -> ConsentStatus]
        /\ \A m \in Nodes : consent'[m] \in StillVerified => m \in proved
    BY <1>1, <2>1 DEF ProofFailed, TablesInv, ConsentStatus, StillVerified
  <2> QED
    BY <2>1, <2>2, <2>3 DEF ProofFailed, TablesInv
<1>3. SessionInv(IdleSession, proved)
  BY IdleInv
<1> QED
  BY <1>2, <1>3, PoolKept, WorkerStepInv DEF ProofFailed, Finish

\* A claim backed by the proved nodes stays backed when more are.
LEMMA MoreProved ==
    ASSUME NEW P, NEW Q, P \subseteq Q
    PROVE  /\ \A st, co, ba : TablesInv(st, co, ba, P) => TablesInv(st, co, ba, Q)
           /\ \A pl : PoolInv(pl, P) => PoolInv(pl, Q)
           /\ \A s : SessionInv(s, P) => SessionInv(s, Q)
           /\ \A q : RequestInv(q, P) => RequestInv(q, Q)
BY DEF TablesInv, PoolInv, SessionInv, RequestInv, SnapInv

LEMMA ProofPassedStep ==
    ASSUME IInv, NEW w \in Workers, ProofPassed(w)
    PROVE  IInv'
<1> DEFINE n == NodeOf(w)
           co == IF ses[w].cons \in StillVerified THEN "renew" ELSE "verified"
           s == [ses[w] EXCEPT !.out.st = "verified", !.out.co = co]
           t == [Syncing(s) EXCEPT !.pc = "proved"]
<1>1. n \in Nodes /\ SessionInv(ses[w], proved)
  BY UnderWay DEF ProofPassed, Writing, At
<1>2. proved' = proved \cup {n} /\ proved \subseteq proved'
  BY DEF ProofPassed
<1>3. s \in Session
  <2>1. [ses[w].out EXCEPT !.st = "verified", !.co = co] \in Writes
    <3>1. ses[w].out \in Writes
      BY <1>1 DEF SessionInv, Session
    <3>2. "verified" \in NodeState \cup {"keep", "deleted"}
          /\ co \in (ConsentStatus \ {"lapsed"}) \cup {"keep", "renew"}
      BY DEF NodeState, ConsentStatus
    <3> QED
      BY <3>1, <3>2, Zenon DEF Writes
  <2>2. s = [ses[w] EXCEPT !.out = [ses[w].out EXCEPT !.st = "verified", !.co = co]]
    BY <1>1 DEF SessionInv, Session
  <2> QED
    BY <1>1, <2>1, <2>2, Zenon DEF SessionInv, Session
<1>4. s.node = n /\ s.cons = ses[w].cons /\ s.snap = ses[w].snap /\ s.pc = "begun"
      /\ s.out.st = "verified"
  BY <1>1 DEF SessionInv, Session, Writes, NodeOf, ProofPassed, Writing, At
<1>5. SessionInv(s, proved')
  BY <1>1, <1>2, <1>3, <1>4 DEF SessionInv, SnapInv
<1> HIDE DEF s
<1>6. SessionInv(Syncing(s), proved') /\ Syncing(s).node = n
  BY <1>1, <1>2, <1>4, <1>5, SyncingInv
<1>7. SessionInv(t, proved')
  <2>1. t \in Session
    BY <1>6, Zenon DEF SessionInv, Session
  <2>2. t.node = n /\ t.pc = "proved" /\ t.out = Syncing(s).out
        /\ t.cons = Syncing(s).cons /\ t.snap = Syncing(s).snap
    BY <1>6 DEF SessionInv, Session
  <2>3. Syncing(s).out.st = "verified"
    BY <1>3, <1>4 DEF Syncing, Session
  <2>4. RowSeen(t) \in NodeState
    BY <2>2, <2>3 DEF RowSeen, NodeState
  <2> QED
    BY <1>1, <1>6, <2>1, <2>2, <2>4 DEF SessionInv
<1>8. ses' = [ses EXCEPT ![w] = t]
  BY DEF ProofPassed, Update, s
<1> HIDE DEF t
<1>9. \A v \in Workers : SessionInv(ses'[v], proved')
  BY <1>2, <1>7, <1>8, MoreProved DEF IInv
<1>10. ses' \in [Workers -> Session]
  BY <1>7, <1>8 DEF IInv, SessionInv
<1>11. seen' \in [Requests -> SUBSET (Nodes \X {"row", "consent"})]
  BY DEF ProofPassed, Watch, IInv, OpenGates
<1>12. TablesInv(status', consent', ban', proved') /\ PoolInv(pool', proved')
  BY <1>2, MoreProved DEF ProofPassed, dbVars, IInv
<1>13. req' \in [Requests -> Request] /\ \A r \in Requests : RequestInv(req'[r], proved')
  BY <1>2, MoreProved DEF ProofPassed, IInv
<1>14. proved' \subseteq Nodes
  BY <1>1, <1>2 DEF IInv
<1> QED
  BY <1>9, <1>10, <1>11, <1>12, <1>13, <1>14 DEF IInv

LEMMA ReadConsentStep ==
    ASSUME IInv, NEW w \in Workers, ReadConsent(w)
    PROVE  IInv'
<1> DEFINE n == NodeOf(w)
           co == consent[n]
           out == [ses[w].out EXCEPT !.co = IF co = "lapsed" THEN "expired" ELSE "keep"]
           s == [ses[w] EXCEPT !.cons = co, !.out = out]
<1>1. n \in Nodes /\ SessionInv(ses[w], proved) /\ ses[w].pc = "checking"
  BY UnderWay DEF ReadConsent
<1>2. co \in ConsentStatus /\ (co \in StillVerified => n \in proved)
  BY <1>1 DEF IInv, TablesInv
<1>3. out \in PlainWrites
  <2>1. ses[w].out \in Writes
    BY <1>1 DEF SessionInv, Session
  <2>2. (IF co = "lapsed" THEN "expired" ELSE "keep")
            \in (ConsentStatus \ {"lapsed"}) \cup {"keep", "renew"}
    BY DEF ConsentStatus
  <2>3. out \in Writes
    BY <2>1, <2>2, Zenon DEF Writes
  <2>4. out.co \in {"expired", "keep"}
    BY <2>1 DEF Writes
  <2> QED
    BY <2>3, <2>4 DEF PlainWrites
<1>4. s \in Session
  BY <1>1, <1>2, <1>3, Zenon DEF SessionInv, Session, PlainWrites
<1>5. s.node = n /\ s.cons = co /\ s.out = out /\ s.pc = "checking" /\ s.snap = ses[w].snap
  BY <1>1 DEF SessionInv, Session, NodeOf
<1>6. RowSeen(s) \in NodeState
  <2>1. RowSeen(ses[w]) \in NodeState
    BY <1>1 DEF SessionInv
  <2>2. s.row = ses[w].row /\ s.out.st = ses[w].out.st
    BY <1>1 DEF SessionInv, Session, Writes
  <2> QED
    BY <2>1, <2>2 DEF RowSeen
<1>7. ses' = [ses EXCEPT ![w] = s]
  BY <1>1 DEF ReadConsent, Update, SessionInv, Session
<1> HIDE DEF s
<1>8. SessionInv(s, proved)
  BY <1>1, <1>2, <1>3, <1>4, <1>5, <1>6 DEF SessionInv, PlainWrites
<1> QED
  BY <1>7, <1>8, TablesKept, PoolKept, WorkerStepInv DEF ReadConsent, Update

LEMMA CheckedInv ==
    ASSUME IInv, NEW c, SessionInv(c, proved), c.pc = "checking",
           NEW target \in NodeState \cup {"keep"}
    PROVE  SessionInv(Checked(c, target), proved)
<1> DEFINE moved == target \notin {"keep", RowSeen(c)}
           banned == target = "blacklisted"
           st == IF moved THEN target ELSE c.out.st
           co == IF banned /\ ConsentSeen(c) \in StillVerified THEN "failed" ELSE c.out.co
           ba == IF banned THEN "permanent" ELSE "keep"
           pub == c.op = "check" /\ target \notin {"keep", "blacklisted"}
           out == [st |-> st, co |-> co, ban |-> ba, pub |-> pub]
           pc == IF moved THEN "hooked" ELSE AfterCheck(c.op)
           snap == IF moved THEN Committed ELSE NoSnap
           s == [c EXCEPT !.out = out, !.pc = pc, !.snap = snap]
<1>1. c \in Session /\ c.out \in Writes /\ c.node \in Nodes /\ RowSeen(c) \in NodeState
  BY DEF SessionInv, Session
<1>2. out \in Writes
  <2>1. st \in NodeState \cup {"keep", "deleted"}
    BY <1>1 DEF Writes
  <2>2. co \in (ConsentStatus \ {"lapsed"}) \cup {"keep", "renew"}
    BY <1>1 DEF Writes, ConsentStatus
  <2>3. ba \in {"none", "permanent", "temporary", "keep"} /\ pub \in BOOLEAN
    BY Zenon
  <2> HIDE DEF st, co, ba, pub
  <2> QED
    BY <2>1, <2>2, <2>3, Zenon DEF Writes
<1>3. out.co \in {"failed", c.out.co} /\ out.st \in {target, c.out.st}
      /\ (out.st = "keep" => c.out.st = "keep")
  BY SMT
<1>4. SnapInv(snap, proved)
  BY CommittedInv, IdleInv
<1>5. pc \in {"hooked", "commit", "checked"}
  BY DEF AfterCheck
<1>6. Checked(c, target) = s
  BY DEF Checked
<1> HIDE DEF pc, snap
<1>7. out.st # c.out.st => out.st \in NodeState
  BY SMT
<1> HIDE DEF out
<1>8. s \in Session
  BY <1>1, <1>2, <1>4, <1>5, Zenon DEF Session, SnapInv
<1>9. s.node = c.node /\ s.cons = c.cons /\ s.out = out /\ s.pc = pc /\ s.snap = snap
      /\ s.row = c.row
  BY <1>1 DEF Session
<1> HIDE DEF s
<1>10. RowSeen(s) \in NodeState
  BY <1>1, <1>3, <1>7, <1>9 DEF RowSeen, NodeState
<1>11. SessionInv(s, proved)
  BY <1>1, <1>3, <1>4, <1>5, <1>8, <1>9, <1>10 DEF SessionInv
<1> QED
  BY <1>6, <1>11

LEMMA CheckNodeStep ==
    ASSUME IInv, NEW w \in Workers, CheckNode(w)
    PROVE  IInv'
<1>1. SessionInv(ses[w], proved) /\ ses[w].pc = "checking"
  BY DEF CheckNode, IInv
<1>2. PICK verdict \in Verdicts(ses[w]) :
        \E target \in CheckTargets(RowSeen(ses[w]), verdict) :
            Update(w, Checked(ses[w], target))
  BY DEF CheckNode
<1>3. PICK target \in CheckTargets(RowSeen(ses[w]), verdict) :
        Update(w, Checked(ses[w], target))
  BY <1>2
<1>4. target \in NodeState \cup {"keep"}
  BY DEF CheckTargets, NodeState
<1>5. SessionInv(Checked(ses[w], target), proved)
  BY <1>1, <1>4, CheckedInv
<1> QED
  BY <1>3, <1>5, TablesKept, PoolKept, WorkerStepInv DEF CheckNode

LEMMA ResyncStep ==
    ASSUME IInv, NEW w \in Workers, Resync(w)
    PROVE  IInv'
<1> DEFINE n == NodeOf(w)
           p == Home[w]
           st == RowSeen(ses[w])
           e == IF pool[p][n] = NoEntry THEN pool[p][n]
                ELSE [state |-> st,
                      routable |-> st \in RoutableStates /\ pool[p][n].routable]
<1>1. n \in Nodes /\ p \in Procs /\ SessionInv(ses[w], proved) /\ ses[w].node = n
  BY UnderWay DEF Resync, NodeOf
<1>2. SessionInv(Syncing(ses[w]), proved)
  BY <1>1, SyncingInv
<1>3. PoolInv(pool', proved)
  <2>1. st \in NodeState
    BY <1>1 DEF Resync, SessionInv
  <2>2. pool[p][n] \in Entry
    BY <1>1 DEF IInv, PoolInv
  <2>3. [state |-> st, routable |-> st \in RoutableStates /\ pool[p][n].routable] \in Entry
    BY <2>1, Zenon DEF Entry
  <2>4. e \in Entry /\ (e.routable => pool[p][n].routable)
    BY <2>2, <2>3, Zenon
  <2>5. pool' = [pool EXCEPT ![p] = [pool[p] EXCEPT ![n] = e]]
    BY DEF Resync
  <2> QED
    BY <1>1, <2>4, <2>5, ClosingInv
<1> QED
  BY <1>2, <1>3, TablesKept, WorkerStepInv DEF Resync

LEMMA ApplySyncStep ==
    ASSUME IInv, NEW w \in Workers, ApplySync(w)
    PROVE  IInv'
<1> DEFINE c == ses[w]
           next == CASE c.pc = "proved" -> "checking"
                     [] c.pc = "hooked" -> AfterCheck(c.op)
                     [] c.pc = "syncing" -> "commit"
           s == [c EXCEPT !.pc = next, !.snap = NoSnap]
<1>1. SessionInv(c, proved) /\ c.pc \in {"proved", "hooked", "syncing"} /\ Home[w] \in Procs
  BY HomeType DEF ApplySync, IInv
<1>2. PoolInv(pool', proved)
  BY <1>1 DEF ApplySync, IInv, PoolInv, SessionInv, SnapInv
<1>3. CASE c.op = "sync"
  <2>1. Update(w, IdleSession) /\ SessionInv(IdleSession, proved)
    BY <1>3, IdleInv DEF ApplySync, Finish
  <2> QED
    BY <1>2, <2>1, TablesKept, WorkerStepInv DEF ApplySync
<1>4. CASE c.op # "sync"
  <2>1. next \in {"checking", "commit", "checked"}
    BY <1>1 DEF AfterCheck
  <2>2. c.node \in Nodes
    BY <1>1, <1>4 DEF SessionInv
  <2>3. Update(w, s)
    BY <1>4 DEF ApplySync
  <2> HIDE DEF next
  <2>4. s \in Session
    BY <1>1, <2>1, IdleTypes, Zenon DEF SessionInv, Session
  <2>5. s.node = c.node /\ s.cons = c.cons /\ s.out = c.out /\ s.pc = next /\ s.snap = NoSnap
    BY <1>1 DEF SessionInv, Session
  <2>6. s.pc \in {"checking", "checked"} => RowSeen(s) \in NodeState
    <3>1. s.row = c.row
      BY <1>1 DEF SessionInv, Session
    <3>2. c.pc \in {"proved", "hooked"} => RowSeen(c) \in NodeState
      BY <1>1 DEF SessionInv
    <3>3. c.pc = "syncing" => s.pc = "commit"
      BY <2>5 DEF next
    <3> QED
      BY <1>1, <2>5, <3>1, <3>2, <3>3 DEF RowSeen
  <2> HIDE DEF s
  <2>7. SessionInv(s, proved)
    BY <1>1, <2>1, <2>2, <2>4, <2>6, <2>5, IdleInv DEF SessionInv
  <2> QED
    BY <1>2, <2>3, <2>7, TablesKept, WorkerStepInv DEF ApplySync
<1> QED
  BY <1>3, <1>4

LEMMA PublishingInv == SessionInv([IdleSession EXCEPT !.pc = "publish", !.op = "sync"], proved)
<1> DEFINE s == [IdleSession EXCEPT !.pc = "publish", !.op = "sync"]
<1>1. s \in Session
  BY IdleTypes, Zenon DEF Session, OpNames
<1>2. s.cons = "unread" /\ s.out = NoWrites /\ s.snap = NoSnap /\ s.pc = "publish"
  BY DEF IdleSession
<1> HIDE DEF s
<1>3. SessionInv(s, proved)
  BY <1>1, <1>2, IdleInv DEF SessionInv, NoWrites, StillVerified
<1> QED
  BY <1>3 DEF s

LEMMA CommitStep ==
    ASSUME IInv, NEW w \in Workers, Commit(w)
    PROVE  IInv'
<1> DEFINE c == ses[w]
           n == c.node
<1>1. n \in Nodes /\ SessionInv(c, proved)
  BY UnderWay DEF Commit, NodeOf
<1>2. c.out \in Writes
  BY <1>1 DEF SessionInv, Session
<1>3. TablesInv(status, consent, ban, proved)
  BY DEF IInv
<1>4. TablesInv(status', consent', ban', proved)
  <2>1. status' \in [Nodes -> NodeState \cup NoRow]
    BY <1>1, <1>2, <1>3 DEF Commit, TablesInv, Writes, NoRow
  <2>2. ban' \in [Nodes -> BanState]
    BY <1>1, <1>2, <1>3 DEF Commit, TablesInv, Writes, BanState
  <2>3. /\ consent' \in [Nodes -> ConsentStatus]
        /\ \A m \in Nodes : consent'[m] \in StillVerified => m \in proved
    <3>1. CASE c.out.co = "keep"
      BY <1>3, <3>1 DEF Commit, TablesInv
    <3>2. CASE c.out.co = "renew"
      BY <1>1, <1>3, <3>2 DEF Commit, TablesInv, SessionInv, ConsentStatus
    <3>3. CASE c.out.co \notin {"keep", "renew"}
      <4>1. consent' = [consent EXCEPT ![n] = c.out.co]
        BY <3>3 DEF Commit
      <4>2. c.out.co \in ConsentStatus /\ c.out.co # "lapsed"
        BY <1>2, <3>3 DEF Writes
      <4>3. c.out.co \in StillVerified => n \in proved
        BY <1>1, <4>2 DEF SessionInv, StillVerified
      <4> QED
        BY <1>1, <1>3, <4>1, <4>2, <4>3 DEF TablesInv
    <3> QED
      BY <3>1, <3>2, <3>3
  <2> QED
    BY <1>3, <2>1, <2>2, <2>3 DEF TablesInv
<1>5. PoolInv(pool', proved)
  BY PoolKept DEF Commit
<1>6. CASE c.out.pub
  BY <1>4, <1>5, <1>6, PublishingInv, WorkerStepInv DEF Commit
<1>7. CASE ~c.out.pub
  BY <1>4, <1>5, <1>7, IdleInv, WorkerStepInv DEF Commit, Finish
<1> QED
  BY <1>6, <1>7

LEMMA ReadRegistryStep ==
    ASSUME IInv, NEW w \in Workers, ReadRegistry(w)
    PROVE  IInv'
<1> DEFINE s == [IdleSession EXCEPT !.pc = "syncing", !.op = "sync", !.snap = Committed]
<1>1. SnapInv(Committed, proved)
  BY CommittedInv
<1>2. s \in Session
  BY <1>1, IdleTypes, Zenon DEF Session, OpNames, SnapInv
<1>3. s.cons = "unread" /\ s.out = NoWrites /\ s.snap = Committed
      /\ s.pc = "syncing" /\ s.op = "sync"
  BY DEF IdleSession
<1>4. Update(w, s)
  BY DEF ReadRegistry
<1> HIDE DEF s
<1>5. SessionInv(s, proved)
  BY <1>1, <1>2, <1>3 DEF SessionInv, NoWrites, StillVerified
<1> QED
  BY <1>4, <1>5, TablesKept, PoolKept, WorkerStepInv DEF ReadRegistry

-----------------------------------------------------------------------------
(* Requests                                                                 *)

\* A request's step leaves the invariant if what it moves to does.
LEMMA RequestStepInv ==
    ASSUME IInv, NEW r \in Requests, NEW q, RequestInv(q, proved),
           req' = [req EXCEPT ![r] = q], UNCHANGED <<dbVars, pool, ses>>, Keep
    PROVE  IInv'
<1>1. req' \in [Requests -> Request] /\ \A x \in Requests : RequestInv(req'[x], proved)
  BY DEF IInv, RequestInv
<1>2. seen' \in [Requests -> SUBSET (Nodes \X {"row", "consent"})]
  BY DEF Keep, Watch, IInv, OpenGates
<1> QED
  BY <1>1, <1>2 DEF IInv, Keep, dbVars

\* A routable node of a request's pool is a proved one.
LEMMA RoutableProved ==
    ASSUME IInv, NEW r \in Requests, NEW n \in Nodes, Routable(r, n)
    PROVE  n \in proved
BY HomeType DEF IInv, PoolInv, SnapInv, Routable

LEMMA PickNodeStep ==
    ASSUME IInv, NEW r \in Requests, NEW n \in Nodes, PickNode(r, n)
    PROVE  IInv'
<1> DEFINE row == IF req[r].row # "unregistered" /\ req[r].node = n
                  THEN req[r].row ELSE status[n]
           co == IF req[r].node = n THEN req[r].cons ELSE "unread"
           q == [req[r] EXCEPT !.pc = "picked", !.node = n, !.row = row, !.cons = co]
<1>1. RequestInv(req[r], proved) /\ n \in proved
  BY RoutableProved DEF PickNode, IInv
<1>2. row \in NodeState \cup NoRow /\ co \in ConsentStatus \cup {"unread"}
  BY <1>1 DEF RequestInv, Request, IInv, TablesInv
<1>3. req' = [req EXCEPT ![r] = q]
  BY DEF PickNode
<1> HIDE DEF row, co
<1>4. q \in Request
  BY <1>1, <1>2, Zenon DEF RequestInv, Request
<1>5. q.pc = "picked" /\ q.node = n
  BY <1>1 DEF RequestInv, Request
<1> HIDE DEF q
<1>6. RequestInv(q, proved)
  BY <1>1, <1>4, <1>5 DEF RequestInv
<1> QED
  BY <1>3, <1>6, RequestStepInv DEF PickNode

\* A request that ends, or looks for another node, holds no row and no consent.
LEMMA FreshRequestInv ==
    ASSUME NEW P, NEW ex \in SUBSET Nodes
    PROVE  RequestInv([IdleRequest EXCEPT !.pc = "waiting", !.exclude = ex], P)
<1> DEFINE q == [IdleRequest EXCEPT !.pc = "waiting", !.exclude = ex]
<1>1. q \in Request
  BY IdleTypes, Zenon DEF Request
<1>2. q.pc = "waiting" /\ q.cons = "unread"
  BY DEF IdleRequest
<1> HIDE DEF q
<1>3. RequestInv(q, P)
  BY <1>1, <1>2 DEF RequestInv, StillVerified
<1> QED
  BY <1>3 DEF q

\* A request that is sent to a proved node.
LEMMA SentRequestInv ==
    ASSUME NEW P, NEW n \in Nodes \cap P, NEW ex \in SUBSET Nodes
    PROVE  /\ RequestInv([IdleRequest EXCEPT !.pc = "sent", !.node = n, !.exclude = ex], P)
           /\ RequestInv([IdleRequest EXCEPT !.pc = "fanned", !.node = n], P)
<1> DEFINE q == [IdleRequest EXCEPT !.pc = "sent", !.node = n, !.exclude = ex]
           f == [IdleRequest EXCEPT !.pc = "fanned", !.node = n]
<1>1. q \in Request /\ f \in Request
  BY IdleTypes, Zenon DEF Request
<1>2. q.node = n /\ q.cons = "unread" /\ f.node = n /\ f.cons = "unread"
  BY DEF IdleRequest
<1> HIDE DEF q, f
<1>3. RequestInv(q, P) /\ RequestInv(f, P)
  BY <1>1, <1>2 DEF RequestInv, StillVerified
<1> QED
  BY <1>3 DEF q, f

LEMMA DecideStep ==
    ASSUME IInv, NEW r \in Requests, Decide(r)
    PROVE  IInv'
<1> DEFINE n == req[r].node
           ex == req[r].exclude
           co == IF req[r].cons = "unread" \/ consent[n] = "none"
                 THEN consent[n] ELSE req[r].cons
           healthy == co = "verified" /\ req[r].row \in RoutableStates
           wait == [req[r] EXCEPT !.pc = "waiting", !.cons = co]
<1>1. RequestInv(req[r], proved) /\ n \in Nodes /\ ex \in SUBSET Nodes
  BY DEF Decide, IInv, RequestInv, Request
<1>2. co \in ConsentStatus /\ (co \in StillVerified => n \in proved)
  BY <1>1 DEF IInv, TablesInv, RequestInv, Request
<1>3. \/ healthy /\ req' = [req EXCEPT ![r] = [IdleRequest EXCEPT
                             !.pc = "sent", !.node = n, !.exclude = ex]]
      \/ req' = [req EXCEPT ![r].pc = "waiting", ![r].cons = co]
      \/ req' = [req EXCEPT ![r] = [IdleRequest EXCEPT
                             !.pc = "waiting", !.exclude = ex \cup {n}]]
  BY DEF Decide
<1>4. CASE healthy /\ req' = [req EXCEPT ![r] = [IdleRequest EXCEPT
                             !.pc = "sent", !.node = n, !.exclude = ex]]
  <2>1. n \in Nodes \cap proved
    BY <1>1, <1>2, <1>4 DEF StillVerified
  <2> QED
    BY <1>1, <1>4, <2>1, SentRequestInv, RequestStepInv DEF Decide
<1>5. CASE req' = [req EXCEPT ![r].pc = "waiting", ![r].cons = co]
  <2>1. req' = [req EXCEPT ![r] = wait]
    BY <1>5, <1>1 DEF IInv, RequestInv, Request
  <2> HIDE DEF co
  <2>2. wait \in Request
    BY <1>1, <1>2, Zenon DEF RequestInv, Request
  <2>3. wait.pc = "waiting" /\ wait.cons = co /\ wait.node = n
    BY <1>1 DEF RequestInv, Request
  <2> HIDE DEF wait
  <2>4. RequestInv(wait, proved)
    BY <1>2, <2>2, <2>3 DEF RequestInv
  <2> QED
    BY <2>1, <2>4, RequestStepInv DEF Decide
<1>6. CASE req' = [req EXCEPT ![r] = [IdleRequest EXCEPT
                             !.pc = "waiting", !.exclude = ex \cup {n}]]
  BY <1>1, <1>6, FreshRequestInv, RequestStepInv DEF Decide
<1> QED
  BY <1>3, <1>4, <1>5, <1>6

LEMMA RetryStep ==
    ASSUME IInv, NEW r \in Requests, Retry(r)
    PROVE  IInv'
<1>1. req[r].exclude \cup {req[r].node} \in SUBSET Nodes
  BY DEF Retry, IInv, RequestInv, Request
<1> QED
  BY <1>1, FreshRequestInv, RequestStepInv DEF Retry

LEMMA FanoutStep ==
    ASSUME IInv, NEW r \in Requests, NEW n \in Nodes, Fanout(r, n)
    PROVE  IInv'
<1>1. n \in Nodes \cap proved
  BY RoutableProved DEF Fanout
<1> QED
  BY <1>1, SentRequestInv, RequestStepInv DEF Fanout

LEMMA EndRequestStep ==
    ASSUME IInv, NEW r \in Requests, EndRequest(r)
    PROVE  IInv'
BY IdleInv, RequestStepInv DEF EndRequest

LEMMA RefusedStep ==
    ASSUME IInv, NEW r \in Requests, NEW w \in Workers, Refused(r, w)
    PROVE  IInv'
<1> DEFINE n == req[r].node
           p == Home[r]
           e == [pool[p][n] EXCEPT !.routable = FALSE]
           s == [IdleSession EXCEPT !.pc = "begun", !.op = "autoban", !.node = n]
<1>1. n \in Nodes /\ p \in Procs
  BY HomeType DEF Refused, IInv, RequestInv
<1>2. PoolInv(pool', proved)
  <2>1. e \in Entry /\ ~e.routable
    <3>1. pool[p][n] \in Entry
      BY <1>1 DEF IInv, PoolInv
    <3> QED
      BY <3>1, Zenon DEF Entry
  <2>2. pool' = [pool EXCEPT ![p] = [pool[p] EXCEPT ![n] = e]]
    BY DEF Refused
  <2> QED
    BY <1>1, <2>1, <2>2, ClosingInv
<1>3. SessionInv(s, proved)
  <2>1. s \in Session
    BY <1>1, IdleTypes, Zenon DEF Session, OpNames
  <2>2. s.pc = "begun" /\ s.node = n /\ s.cons = "unread" /\ s.out = NoWrites
        /\ s.snap = NoSnap
    BY DEF IdleSession
  <2> HIDE DEF s
  <2> QED
    BY <1>1, <2>1, <2>2, IdleInv DEF SessionInv, NoWrites, StillVerified
<1>4. ses' = [ses EXCEPT ![w] = s]
  BY DEF Refused, Update
<1> HIDE DEF s
<1>5. ses' \in [Workers -> Session] /\ \A v \in Workers : SessionInv(ses'[v], proved)
  BY <1>3, <1>4 DEF IInv, SessionInv
<1>6. req' \in [Requests -> Request] /\ \A x \in Requests : RequestInv(req'[x], proved)
  BY IdleInv DEF Refused, IInv, RequestInv
<1>7. seen' \in [Requests -> SUBSET (Nodes \X {"row", "consent"})]
  BY DEF Refused, Keep, Watch, IInv, OpenGates
<1> QED
  BY <1>2, <1>5, <1>6, <1>7, TablesKept DEF Refused, IInv, Keep

-----------------------------------------------------------------------------
(* Time and restarts                                                        *)

\* A claim whose consent has lapsed is the claim it was.
LEMMA LapsedSession ==
    ASSUME NEW P, NEW s, SessionInv(s, P)
    PROVE  SessionInv([s EXCEPT !.cons = LapseOf(@)], P)
<1> DEFINE t == [s EXCEPT !.cons = LapseOf(s.cons)]
<1>1. s.cons \in ConsentStatus \cup {"unread"}
  BY DEF SessionInv, Session
<1>2. LapseOf(s.cons) \in ConsentStatus \cup {"unread"}
      /\ (LapseOf(s.cons) \in StillVerified => s.cons \in StillVerified)
  BY <1>1 DEF LapseOf, ConsentStatus, StillVerified
<1>3. t \in Session
  BY <1>2, Zenon DEF SessionInv, Session
<1>4. t.pc = s.pc /\ t.op = s.op /\ t.node = s.node /\ t.row = s.row /\ t.out = s.out
      /\ t.snap = s.snap /\ t.cons = LapseOf(s.cons)
  BY DEF SessionInv, Session
<1>5. RowSeen(t) = RowSeen(s)
  BY <1>4 DEF RowSeen
<1> HIDE DEF t
<1>6. SessionInv(t, P)
  BY <1>2, <1>3, <1>4, <1>5 DEF SessionInv
<1> QED
  BY <1>6 DEF t

LEMMA LapsedRequest ==
    ASSUME NEW P, NEW q, RequestInv(q, P)
    PROVE  RequestInv([q EXCEPT !.cons = LapseOf(@)], P)
<1> DEFINE t == [q EXCEPT !.cons = LapseOf(q.cons)]
<1>1. q.cons \in ConsentStatus \cup {"unread"}
  BY DEF RequestInv, Request
<1>2. LapseOf(q.cons) \in ConsentStatus \cup {"unread"}
      /\ (LapseOf(q.cons) \in StillVerified => q.cons \in StillVerified)
  BY <1>1 DEF LapseOf, ConsentStatus, StillVerified
<1>3. t \in Request
  BY <1>2, Zenon DEF RequestInv, Request
<1>4. t.pc = q.pc /\ t.node = q.node /\ t.cons = LapseOf(q.cons)
  BY DEF RequestInv, Request
<1> HIDE DEF t
<1>5. RequestInv(t, P)
  BY <1>2, <1>3, <1>4 DEF RequestInv
<1> QED
  BY <1>5 DEF t

LEMMA LapseStep ==
    ASSUME IInv, NEW n \in Nodes, Lapse(n)
    PROVE  IInv'
<1>1. TablesInv(status', consent', ban', proved)
  BY DEF Lapse, IInv, TablesInv, LapseOf, ConsentStatus, StillVerified
<1>2. \A w \in Workers : SessionInv(ses'[w], proved)
  BY LapsedSession DEF Lapse, IInv
<1>3. \A r \in Requests : RequestInv(req'[r], proved)
  BY LapsedRequest DEF Lapse, IInv
<1>4. ses' \in [Workers -> Session]
  <2>1. ses' = [w \in Workers |-> ses'[w]]
    BY DEF Lapse
  <2>2. \A w \in Workers : ses'[w] \in Session
    BY <1>2 DEF SessionInv
  <2> QED
    BY <2>1, <2>2
<1>5. req' \in [Requests -> Request]
  <2>1. req' = [r \in Requests |-> req'[r]]
    BY DEF Lapse
  <2>2. \A r \in Requests : req'[r] \in Request
    BY <1>3 DEF RequestInv
  <2> QED
    BY <2>1, <2>2
<1>6. seen' \in [Requests -> SUBSET (Nodes \X {"row", "consent"})]
  BY DEF Lapse, Keep, Watch, IInv, OpenGates
<1> QED
  BY <1>1, <1>2, <1>3, <1>4, <1>5, <1>6 DEF Lapse, IInv, Keep

LEMMA BanElapsesStep ==
    ASSUME IInv, NEW n \in Nodes, BanElapses(n)
    PROVE  IInv'
<1>1. TablesInv(status', consent', ban', proved)
  BY DEF BanElapses, IInv, TablesInv, BanState
<1>2. seen' \in [Requests -> SUBSET (Nodes \X {"row", "consent"})]
  BY DEF BanElapses, Keep, Watch, IInv, OpenGates
<1> QED
  BY <1>1, <1>2 DEF BanElapses, IInv, Keep

LEMMA RestartStep ==
    ASSUME IInv, NEW p \in Procs, Restart(p)
    PROVE  IInv'
<1>1. PoolInv(pool', proved)
  BY CommittedInv DEF Restart, IInv, PoolInv, SnapInv
<1>2. ses' \in [Workers -> Session] /\ \A w \in Workers : SessionInv(ses'[w], proved)
  BY IdleInv, IdleTypes DEF Restart, IInv
<1>3. req' \in [Requests -> Request] /\ \A r \in Requests : RequestInv(req'[r], proved)
  BY IdleInv, IdleTypes DEF Restart, IInv
<1>4. seen' \in [Requests -> SUBSET (Nodes \X {"row", "consent"})]
  BY DEF Restart, Keep, Watch, IInv, OpenGates
<1> QED
  BY <1>1, <1>2, <1>3, <1>4, TablesKept DEF Restart, IInv, Keep

-----------------------------------------------------------------------------
(* Invariance                                                               *)

LEMMA InitInv == Init => IInv
<1> SUFFICES ASSUME Init PROVE IInv
  OBVIOUS
<1>1. TablesInv(status, consent, ban, proved)
  BY DEF Init, TablesInv, NoRow, ConsentStatus, BanState, StillVerified
<1>2. PoolInv(pool, proved)
  BY IdleInv DEF Init, PoolInv, SnapInv
<1>3. ses \in [Workers -> Session] /\ \A w \in Workers : SessionInv(ses[w], proved)
  BY IdleInv, IdleTypes DEF Init
<1>4. req \in [Requests -> Request] /\ \A r \in Requests : RequestInv(req[r], proved)
  BY IdleInv, IdleTypes DEF Init
<1> QED
  BY <1>1, <1>2, <1>3, <1>4 DEF Init, IInv

LEMMA StutterInv ==
    ASSUME IInv, UNCHANGED vars
    PROVE  IInv'
BY DEF IInv, vars

LEMMA WorkerInv ==
    ASSUME IInv, NEW w \in Workers, WorkerStep(w)
    PROVE  IInv'
<1>1. CASE \E n \in Nodes : Enroll(w, n) \/ \E op \in Jobs[w] : Begin(w, op, n)
  BY <1>1, EnrollStep, BeginStep
<1>2. CASE Revoke(w) \/ Expire(w) \/ Blacklist(w) \/ Lift(w) \/ SetDraining(w)
  BY <1>2, RevokeStep, ExpireStep, BlacklistStep, LiftStep, SetDrainingStep
<1>3. CASE Delete(w) \/ AutoBlacklist(w)
  BY <1>3, DeleteStep, AutoBlacklistStep
<1>4. CASE ProofInconclusive(w) \/ ProofFailed(w) \/ ProofPassed(w)
  BY <1>4, ProofInconclusiveStep, ProofFailedStep, ProofPassedStep
<1>5. CASE ReadConsent(w) \/ CheckNode(w) \/ Resync(w)
  BY <1>5, ReadConsentStep, CheckNodeStep, ResyncStep
<1>6. CASE ApplySync(w) \/ Commit(w) \/ ReadRegistry(w) \/ Vanish(w) \/ Fail(w)
  BY <1>6, ApplySyncStep, CommitStep, ReadRegistryStep, VanishStep, FailStep
<1> QED
  BY <1>1, <1>2, <1>3, <1>4, <1>5, <1>6 DEF WorkerStep

LEMMA RequestsInv ==
    ASSUME IInv, NEW r \in Requests, RequestStep(r)
    PROVE  IInv'
<1>1. CASE \E n \in Nodes : PickNode(r, n) \/ Fanout(r, n)
  BY <1>1, PickNodeStep, FanoutStep
<1>2. CASE Decide(r) \/ Retry(r) \/ EndRequest(r)
  BY <1>2, DecideStep, RetryStep, EndRequestStep
<1>3. CASE \E w \in Workers : Refused(r, w)
  BY <1>3, RefusedStep
<1> QED
  BY <1>1, <1>2, <1>3 DEF RequestStep

LEMMA NextInv == IInv /\ [Next]_vars => IInv'
<1> SUFFICES ASSUME IInv, [Next]_vars PROVE IInv'
  OBVIOUS
<1>1. CASE \E w \in Workers : WorkerStep(w)
  BY <1>1, WorkerInv
<1>2. CASE \E r \in Requests : RequestStep(r)
  BY <1>2, RequestsInv
<1>3. CASE Environment
  BY <1>3, LapseStep, BanElapsesStep, RestartStep DEF Environment
<1>4. CASE UNCHANGED vars
  BY <1>4, StutterInv
<1> QED
  BY <1>1, <1>2, <1>3, <1>4 DEF Next

\* The invariant the theorems below rest on.
THEOREM Invariance == Spec => []IInv
BY InitInv, NextInv, PTL DEF Spec

\* Every variable holds values of its kind in every reachable state, whatever the
\* nodes, processes, workers, requests and jobs.
THEOREM TypeCorrect == Spec => []TypeOK
<1>1. IInv => TypeOK
  BY DEF IInv, TypeOK, TablesInv, PoolInv
<1> QED
  BY <1>1, Invariance, PTL

\* No process offers, and no request is sent to, a node whose owner never passed a
\* proof of ownership: whatever handlers, loops, failures and restarts interleave.
THEOREM ProofBeforeTraffic == Spec => []NoTrafficBeforeProof
<1>1. IInv => NoTrafficBeforeProof
  BY DEF IInv, NoTrafficBeforeProof, PoolInv, SnapInv, RequestInv
<1> QED
  BY <1>1, Invariance, PTL

-----------------------------------------------------------------------------
(* The gates of a dispatch.  The row and the consent a request holds were   *)
(* read while it was under way, so the gates they stand for are in seen.    *)

GatesInv(q, gates) ==
    /\ q.row \in RoutableStates => <<q.node, "row">> \in gates
    /\ q.cons = "verified" => <<q.node, "consent">> \in gates
    /\ q.pc = "sent" => <<q.node, "row">> \in gates /\ <<q.node, "consent">> \in gates
    /\ q.pc = "idle" => q.row \notin RoutableStates /\ q.cons # "verified"

AllGates == \A r \in Requests : GatesInv(req[r], seen[r])

LEMMA FreshGates ==
    ASSUME NEW gates, NEW q, q.row = "unregistered", q.cons = "unread", q.pc # "sent"
    PROVE  GatesInv(q, gates)
BY DEF GatesInv, RoutableStates

\* A request keeps its gates while it is under way.
LEMMA GatesKept ==
    ASSUME AllGates, Watch, NEW r \in Requests, req'[r] = req[r]
    PROVE  GatesInv(req'[r], seen'[r])
BY DEF AllGates, Watch, GatesInv

\* Workers move no request, except that a refusal ends one.
LEMMA WorkersKeepRequests ==
    ASSUME NEW w \in Workers, WorkerStep(w)
    PROVE  UNCHANGED req /\ Watch
BY DEF WorkerStep, Enroll, Begin, Revoke, Expire, Blacklist, Lift, SetDraining, Delete,
       AutoBlacklist, ProofInconclusive, ProofFailed, ProofPassed, ReadConsent, CheckNode,
       Resync, ApplySync, Commit, ReadRegistry, Vanish, Fail, Keep

\* A request's step leaves the gates of the others, and its own if q's are seen.
LEMMA RequestGates ==
    ASSUME IInv, AllGates, Watch, NEW r \in Requests, NEW q,
           req' = [req EXCEPT ![r] = q], GatesInv(q, seen'[r])
    PROVE  AllGates'
<1>1. ASSUME NEW x \in Requests PROVE GatesInv(req'[x], seen'[x])
  <2>1. CASE x = r
    BY <2>1 DEF IInv
  <2>2. CASE x # r
    BY <2>2, GatesKept DEF IInv
  <2> QED
    BY <2>1, <2>2
<1> QED
  BY <1>1 DEF AllGates

LEMMA PickNodeGates ==
    ASSUME IInv, AllGates, NEW r \in Requests, NEW n \in Nodes, PickNode(r, n)
    PROVE  AllGates'
<1> DEFINE row == IF req[r].row # "unregistered" /\ req[r].node = n
                  THEN req[r].row ELSE status[n]
           co == IF req[r].node = n THEN req[r].cons ELSE "unread"
           q == [req[r] EXCEPT !.pc = "picked", !.node = n, !.row = row, !.cons = co]
<1>1. req' = [req EXCEPT ![r] = q] /\ status' = status /\ Watch
  BY DEF PickNode, dbVars, Keep
<1>2. q.pc = "picked" /\ q.node = n /\ q.row = row /\ q.cons = co
  BY DEF IInv, Request
<1>3. req'[r].pc = "picked"
  BY <1>1, <1>2 DEF IInv
<1>4. seen'[r] = seen[r] \cup OpenGates'
  BY <1>1, <1>3 DEF Watch
<1>5. status[n] \in RoutableStates => <<n, "row">> \in OpenGates'
  BY <1>1 DEF OpenGates
<1>6. GatesInv(req[r], seen[r])
  BY DEF AllGates
<1>7. row \in RoutableStates => <<n, "row">> \in seen'[r]
  BY <1>4, <1>5, <1>6 DEF GatesInv
<1>8. co = "verified" => <<n, "consent">> \in seen'[r]
  BY <1>4, <1>6 DEF GatesInv
<1> HIDE DEF row, co, q
<1>9. GatesInv(q, seen'[r])
  BY <1>2, <1>7, <1>8 DEF GatesInv
<1> QED
  BY <1>1, <1>9, RequestGates

LEMMA DecideGates ==
    ASSUME IInv, AllGates, NEW r \in Requests, Decide(r)
    PROVE  AllGates'
<1> DEFINE n == req[r].node
           ex == req[r].exclude
           co == IF req[r].cons = "unread" \/ consent[n] = "none"
                 THEN consent[n] ELSE req[r].cons
           healthy == co = "verified" /\ req[r].row \in RoutableStates
           wait == [req[r] EXCEPT !.pc = "waiting", !.cons = co]
           send == [IdleRequest EXCEPT !.pc = "sent", !.node = n, !.exclude = ex]
           next == [IdleRequest EXCEPT !.pc = "waiting", !.exclude = ex \cup {n}]
<1>1. n \in Nodes /\ consent' = consent /\ Watch /\ GatesInv(req[r], seen[r])
  BY DEF Decide, IInv, RequestInv, dbVars, Keep, AllGates
<1>2. \/ healthy /\ req' = [req EXCEPT ![r] = send]
      \/ req' = [req EXCEPT ![r].pc = "waiting", ![r].cons = co]
      \/ req' = [req EXCEPT ![r] = next]
  BY DEF Decide
<1>3. consent[n] = "verified" => <<n, "consent">> \in OpenGates'
  BY <1>1 DEF OpenGates
<1>4. CASE healthy /\ req' = [req EXCEPT ![r] = send]
  <2>1. send.pc = "sent" /\ send.node = n /\ send.row = "unregistered" /\ send.cons = "unread"
    BY DEF IdleRequest
  <2>2. seen'[r] = seen[r] \cup OpenGates'
    BY <1>1, <1>4, <2>1 DEF Watch, IInv
  <2>3. <<n, "row">> \in seen'[r] /\ <<n, "consent">> \in seen'[r]
    BY <1>1, <1>3, <1>4, <2>2 DEF GatesInv
  <2> HIDE DEF send
  <2>4. GatesInv(send, seen'[r])
    BY <2>1, <2>3 DEF GatesInv, RoutableStates
  <2> QED
    BY <1>1, <1>4, <2>4, RequestGates
<1>5. CASE req' = [req EXCEPT ![r].pc = "waiting", ![r].cons = co]
  <2>1. req' = [req EXCEPT ![r] = wait]
    BY <1>5 DEF IInv, Request
  <2>2. wait.pc = "waiting" /\ wait.cons = co /\ wait.node = n /\ wait.row = req[r].row
    BY DEF IInv, Request
  <2>3. seen'[r] = seen[r] \cup OpenGates'
    BY <1>1, <2>1, <2>2 DEF Watch, IInv
  <2>4. co = "verified" => <<n, "consent">> \in seen'[r]
    BY <1>1, <1>3, <2>3 DEF GatesInv
  <2> HIDE DEF co, wait
  <2>5. GatesInv(wait, seen'[r])
    BY <1>1, <2>2, <2>3, <2>4 DEF GatesInv
  <2> QED
    BY <1>1, <2>1, <2>5, RequestGates
<1>6. CASE req' = [req EXCEPT ![r] = next]
  <2>1. next.row = "unregistered" /\ next.cons = "unread" /\ next.pc = "waiting"
    BY DEF IdleRequest
  <2> HIDE DEF next
  <2> QED
    BY <1>1, <1>6, <2>1, FreshGates, RequestGates
<1> QED
  BY <1>2, <1>4, <1>5, <1>6

LEMMA FreshStepGates ==
    ASSUME IInv, AllGates, NEW r \in Requests,
           \/ Retry(r) \/ EndRequest(r)
           \/ \E n \in Nodes : Fanout(r, n)
           \/ \E w \in Workers : Refused(r, w)
    PROVE  AllGates'
<1> DEFINE again == [IdleRequest EXCEPT !.pc = "waiting",
                                !.exclude = req[r].exclude \cup {req[r].node}]
           to(n) == [IdleRequest EXCEPT !.pc = "fanned", !.node = n]
<1>1. Watch
  BY DEF Retry, EndRequest, Fanout, Refused, Keep
<1>2. CASE req' = [req EXCEPT ![r] = again]
  <2>1. again.row = "unregistered" /\ again.cons = "unread" /\ again.pc = "waiting"
    BY DEF IdleRequest
  <2> HIDE DEF again
  <2> QED
    BY <1>1, <1>2, <2>1, FreshGates, RequestGates
<1>3. ASSUME NEW n \in Nodes, req' = [req EXCEPT ![r] = to(n)]
      PROVE  AllGates'
  <2>1. to(n).row = "unregistered" /\ to(n).cons = "unread" /\ to(n).pc = "fanned"
    BY DEF IdleRequest
  <2> HIDE DEF to
  <2> QED
    BY <1>1, <1>3, <2>1, FreshGates, RequestGates
<1>4. CASE req' = [req EXCEPT ![r] = IdleRequest]
  <2>1. /\ IdleRequest.row = "unregistered" /\ IdleRequest.cons = "unread"
        /\ IdleRequest.pc = "idle"
    BY DEF IdleRequest
  <2> QED
    BY <1>1, <1>4, <2>1, FreshGates, RequestGates
<1> QED
  BY <1>2, <1>3, <1>4 DEF Retry, EndRequest, Fanout, Refused

LEMMA EnvironmentGates ==
    ASSUME IInv, AllGates, Environment
    PROVE  AllGates'
<1>1. ASSUME NEW n \in Nodes, Lapse(n), NEW r \in Requests
      PROVE  GatesInv(req'[r], seen'[r])
  <2>1. Watch
    BY <1>1 DEF Lapse, Keep
  <2>2. CASE req[r].node # n
    BY <1>1, <2>1, <2>2, GatesKept DEF Lapse
  <2>3. CASE req[r].node = n
    <3>1. req'[r] = [req[r] EXCEPT !.cons = LapseOf(req[r].cons)]
      BY <1>1, <2>3 DEF Lapse
    <3>2. /\ req'[r].pc = req[r].pc /\ req'[r].node = req[r].node
          /\ req'[r].row = req[r].row /\ req'[r].cons # "verified"
      BY <3>1 DEF IInv, Request, LapseOf
    <3> QED
      BY <1>1, <2>1, <3>2 DEF AllGates, GatesInv, Watch
  <2> QED
    BY <2>2, <2>3
<1>2. ASSUME NEW n \in Nodes, BanElapses(n), NEW r \in Requests
      PROVE  GatesInv(req'[r], seen'[r])
  BY <1>2, GatesKept DEF BanElapses, Keep
<1>3. ASSUME NEW p \in Procs, Restart(p), NEW r \in Requests
      PROVE  GatesInv(req'[r], seen'[r])
  <2>1. Watch /\ req'[r] \in {req[r], IdleRequest}
    BY <1>3 DEF Restart, Keep
  <2> QED
    BY <1>3, <2>1, GatesKept, FreshGates DEF IdleRequest
<1> QED
  BY <1>1, <1>2, <1>3 DEF Environment, AllGates

LEMMA GatesInit == Init => AllGates
BY DEF Init, AllGates, GatesInv, IdleRequest, RoutableStates

LEMMA GatesNext == IInv /\ AllGates /\ [Next]_vars => AllGates'
<1> SUFFICES ASSUME IInv, AllGates, [Next]_vars PROVE AllGates'
  OBVIOUS
<1>1. CASE \E w \in Workers : WorkerStep(w)
  BY <1>1, WorkersKeepRequests, GatesKept DEF AllGates
<1>2. CASE \E r \in Requests : RequestStep(r)
  BY <1>2, PickNodeGates, DecideGates, FreshStepGates DEF RequestStep
<1>3. CASE Environment
  BY <1>3, EnvironmentGates
<1>4. CASE UNCHANGED vars
  BY <1>4 DEF vars, AllGates
<1> QED
  BY <1>1, <1>2, <1>3, <1>4 DEF Next

\* A request goes only to a node whose row was routable and whose consent was
\* verified at some moment since the request began, however stale the pool is.
THEOREM GatesBeforeDispatch == Spec => []DispatchCleared
<1>1. AllGates => DispatchCleared
  BY DEF AllGates, GatesInv, DispatchCleared
<1> QED
  BY <1>1, Invariance, GatesInit, GatesNext, PTL DEF Spec

-----------------------------------------------------------------------------
(* What a handler carries to its commit.  A session that will write a       *)
(* verified status saw another one when it loaded the consent; a background *)
(* check had loaded a row that may be checked.                              *)

Carries(s) ==
    /\ s.out.co = "verified" => s.op = "verify" /\ s.cons \notin StillVerified
    /\ s.op = "check" => s.row \in ActiveHealthCheckStates

AllCarry == \A w \in Workers : Carries(ses[w])

\* The fields a step leaves alone decide.
LEMMA CarriesOn ==
    ASSUME NEW s, NEW t, Carries(s), t.op = s.op, t.row = s.row,
           t.out.co = "verified" => s.out.co = "verified",
           t.cons \in StillVerified => s.cons \in StillVerified
    PROVE  Carries(t)
BY DEF Carries

LEMMA SyncingFields ==
    ASSUME NEW s \in Session
    PROVE  /\ Syncing(s).op = s.op /\ Syncing(s).row = s.row
           /\ Syncing(s).out = s.out /\ Syncing(s).cons = s.cons
BY Zenon DEF Syncing, Session

LEMMA IdleCarries == Carries(IdleSession)
BY DEF Carries, IdleSession, NoWrites

LEMMA UpdateCarries ==
    ASSUME IInv, AllCarry, NEW w \in Workers, NEW s, Carries(s), Update(w, s)
    PROVE  AllCarry'
BY DEF IInv, AllCarry, Update

LEMMA FinishCarries ==
    ASSUME IInv, AllCarry, NEW w \in Workers, Finish(w)
    PROVE  AllCarry'
BY IdleCarries, UpdateCarries DEF Finish

LEMMA WriteOutCarries ==
    ASSUME IInv, AllCarry, NEW w \in Workers, NEW out \in Writes, out.co # "verified", WriteOut(w, out)
    PROVE  AllCarry'
<1> DEFINE s == [ses[w] EXCEPT !.out = out]
<1>1. ses[w] \in Session /\ Carries(ses[w])
  BY DEF IInv, AllCarry
<1>2. /\ s \in Session /\ s.op = ses[w].op /\ s.row = ses[w].row
      /\ s.out = out /\ s.cons = ses[w].cons
  BY <1>1, Zenon DEF Session
<1> HIDE DEF s
<1>3. Carries(Syncing(s))
  BY <1>1, <1>2, SyncingFields, CarriesOn
<1> QED
  BY <1>3, UpdateCarries DEF WriteOut, s

LEMMA BeginCarries ==
    ASSUME IInv, AllCarry, NEW w \in Workers, NEW n \in Nodes,
           Enroll(w, n) \/ \E op \in Jobs[w] : Begin(w, op, n)
    PROVE  AllCarry'
<1>1. CASE Enroll(w, n)
  <2> DEFINE out == [NoWrites EXCEPT !.st = "consent_challenge_sent", !.co = "challenge_sent"]
             s == [IdleSession EXCEPT !.op = "enroll", !.node = n, !.out = out]
  <2>1. out \in Writes /\ out.co = "challenge_sent"
    <3>1. "consent_challenge_sent" \in PlainStatus /\ "challenge_sent" \in PlainConsent
      BY DEF PlainStatus, PlainConsent, NodeState, ConsentStatus
    <3> QED
      BY <3>1, PlainTypes DEF PlainWrites, NoWrites
  <2>2. s \in Session /\ s.op = "enroll" /\ s.out = out
    BY <2>1, IdleTypes, Zenon DEF Session, OpNames, IdleSession
  <2>3. Carries(Syncing(s))
    BY <2>1, <2>2, SyncingFields DEF Carries
  <2> QED
    BY <1>1, <2>3, UpdateCarries DEF Enroll
<1>2. ASSUME NEW op \in Jobs[w], Begin(w, op, n) PROVE AllCarry'
  <2> DEFINE s == [IdleSession EXCEPT
                    !.pc = IF op \in LoadsRow THEN "checking" ELSE "begun",
                    !.op = op, !.node = n,
                    !.row = IF op \in LoadsRow THEN status[n] ELSE @,
                    !.cons = IF op \in LoadsConsent THEN consent[n] ELSE @]
  <2>1. s.op = op /\ s.out = NoWrites /\ (op = "check" => s.row = status[n])
    BY DEF IdleSession, LoadsRow
  <2>2. op = "check" => status[n] \in ActiveHealthCheckStates
    BY <1>2 DEF Begin, MayBegin
  <2>3. Update(w, s)
    BY <1>2 DEF Begin
  <2> HIDE DEF s
  <2> QED
    BY <2>1, <2>2, <2>3, UpdateCarries DEF Carries, NoWrites
<1> QED
  BY <1>1, <1>2

LEMMA HandlerCarries ==
    ASSUME IInv, AllCarry, NEW w \in Workers,
           \/ Revoke(w) \/ Expire(w) \/ Blacklist(w) \/ Lift(w) \/ SetDraining(w)
           \/ Delete(w) \/ AutoBlacklist(w)
    PROVE  AllCarry'
<1>1. ASSUME NEW out \in PlainWrites, WriteOut(w, out) PROVE AllCarry'
  BY <1>1, WriteOutCarries DEF PlainWrites
<1>2. CASE Revoke(w) \/ Expire(w)
  BY <1>1, <1>2, PlainTypes, PlainValues DEF Revoke, Expire
<1>3. CASE Blacklist(w) \/ AutoBlacklist(w)
  BY <1>1, <1>3, PlainTypes, PlainValues, StatusIfPresentType DEF Blacklist, AutoBlacklist
<1>4. CASE Lift(w)
  BY <1>1, <1>4, PlainTypes, PlainValues, StatusIfPresentType, FinishCarries DEF Lift
<1>5. CASE SetDraining(w) \/ Delete(w)
  BY <1>1, <1>5, PlainTypes, PlainValues, StatusIfPresentType DEF SetDraining, Delete
<1> QED
  BY <1>2, <1>3, <1>4, <1>5

LEMMA ProofCarries ==
    ASSUME IInv, AllCarry, NEW w \in Workers,
           ProofInconclusive(w) \/ ProofFailed(w) \/ ProofPassed(w)
    PROVE  AllCarry'
<1>1. CASE ProofInconclusive(w) \/ ProofFailed(w)
  BY <1>1, FinishCarries DEF ProofInconclusive, ProofFailed
<1>2. CASE ProofPassed(w)
  <2> DEFINE co == IF ses[w].cons \in StillVerified THEN "renew" ELSE "verified"
             s == [ses[w] EXCEPT !.out.st = "verified", !.out.co = co]
             t == [Syncing(s) EXCEPT !.pc = "proved"]
  <2>1. ses[w] \in Session /\ ses[w].op = "verify"
    BY <1>2 DEF IInv, ProofPassed, Writing, At
  <2>2. s \in Session /\ s.op = "verify" /\ s.cons = ses[w].cons /\ s.out.co = co
    <3> DEFINE out == [ses[w].out EXCEPT !.st = "verified", !.co = co]
    <3>1. ses[w].out \in Writes
      BY <2>1 DEF Session
    <3>2. "verified" \in NodeState /\ co \in (ConsentStatus \ {"lapsed"}) \cup {"keep", "renew"}
      BY DEF NodeState, ConsentStatus
    <3>3. out \in Writes /\ out.co = co
      BY <3>1, <3>2, Zenon DEF Writes
    <3>4. s = [ses[w] EXCEPT !.out = out]
      BY <2>1 DEF Session
    <3> HIDE DEF out, co
    <3> QED
      BY <2>1, <3>3, <3>4, Zenon DEF Session
  <2>3. /\ t.op = "verify" /\ t.cons = ses[w].cons /\ t.out.co = co
    <3> HIDE DEF s, co
    <3>1. t.op = Syncing(s).op /\ t.cons = Syncing(s).cons /\ t.out = Syncing(s).out
      BY <2>2, Zenon DEF Syncing, Session
    <3> QED
      BY <2>2, <3>1, SyncingFields
  <2>4. Carries(t)
    <3> HIDE DEF t
    <3> QED
      BY <2>3 DEF Carries
  <2>5. Update(w, t)
    BY <1>2 DEF ProofPassed
  <2> QED
    BY <2>4, <2>5, UpdateCarries
<1> QED
  BY <1>1, <1>2

LEMMA CheckCarries ==
    ASSUME IInv, AllCarry, NEW w \in Workers, ReadConsent(w) \/ CheckNode(w) \/ Resync(w)
    PROVE  AllCarry'
<1>1. ses[w] \in Session /\ Carries(ses[w])
  BY DEF IInv, AllCarry
<1>2. CASE ReadConsent(w)
  <2> DEFINE co == consent[NodeOf(w)]
             out == [ses[w].out EXCEPT !.co = IF co = "lapsed" THEN "expired" ELSE "keep"]
             s == [ses[w] EXCEPT !.cons = co, !.out = out]
  <2>1. out.co # "verified"
    BY <1>1 DEF Session, Writes
  <2>2. s.op = ses[w].op /\ s.row = ses[w].row /\ s.out = out
    BY <1>1 DEF Session
  <2>3. Update(w, s)
    BY <1>1, <1>2 DEF ReadConsent, Session, Update
  <2> HIDE DEF s
  <2> QED
    BY <1>1, <2>1, <2>2, <2>3, UpdateCarries DEF Carries
<1>3. ASSUME NEW target, Update(w, Checked(ses[w], target)) PROVE AllCarry'
  <2> DEFINE s == Checked(ses[w], target)
  <2>1. /\ s.op = ses[w].op /\ s.row = ses[w].row /\ s.cons = ses[w].cons
        /\ s.out.co \in {"failed", ses[w].out.co}
    BY <1>1 DEF Checked, Session
  <2> HIDE DEF s
  <2>2. Carries(s)
    BY <1>1, <2>1, CarriesOn
  <2> QED
    BY <1>3, <2>2, UpdateCarries DEF s
<1>4. CASE CheckNode(w)
  BY <1>3, <1>4 DEF CheckNode
<1>5. CASE Resync(w)
  <2>1. Carries(Syncing(ses[w]))
    BY <1>1, SyncingFields, CarriesOn
  <2> QED
    BY <1>5, <2>1, UpdateCarries DEF Resync
<1> QED
  BY <1>2, <1>4, <1>5

LEMMA PassCarries ==
    ASSUME IInv, AllCarry, NEW w \in Workers,
           ApplySync(w) \/ Commit(w) \/ ReadRegistry(w) \/ Vanish(w) \/ Fail(w)
    PROVE  AllCarry'
<1>1. ses[w] \in Session /\ Carries(ses[w])
  BY DEF IInv, AllCarry
<1>2. CASE ApplySync(w)
  <2>1. ASSUME NEW next, Update(w, [ses[w] EXCEPT !.pc = next, !.snap = NoSnap]) PROVE AllCarry'
    <3> DEFINE s == [ses[w] EXCEPT !.pc = next, !.snap = NoSnap]
    <3>1. s.op = ses[w].op /\ s.row = ses[w].row /\ s.out = ses[w].out /\ s.cons = ses[w].cons
      BY <1>1 DEF Session
    <3> HIDE DEF s
    <3>2. Carries(s)
      BY <1>1, <3>1, CarriesOn
    <3> QED
      BY <2>1, <3>2, UpdateCarries DEF s
  <2> QED
    BY <1>2, <2>1, FinishCarries DEF ApplySync
<1>3. /\ Carries([IdleSession EXCEPT !.pc = "publish", !.op = "sync"])
      /\ Carries([IdleSession EXCEPT !.pc = "syncing", !.op = "sync", !.snap = Committed])
  BY DEF Carries, IdleSession, NoWrites
<1>4. CASE Commit(w)
  BY <1>3, <1>4, FinishCarries, UpdateCarries DEF Commit
<1>5. CASE ReadRegistry(w)
  BY <1>3, <1>5, UpdateCarries DEF ReadRegistry
<1>6. CASE Vanish(w) \/ Fail(w)
  BY <1>6, FinishCarries DEF Vanish, Fail
<1> QED
  BY <1>2, <1>4, <1>5, <1>6

LEMMA WorkerCarries ==
    ASSUME IInv, AllCarry, NEW w \in Workers, WorkerStep(w)
    PROVE  AllCarry'
BY BeginCarries, HandlerCarries, ProofCarries, CheckCarries, PassCarries DEF WorkerStep

LEMMA RequestCarries ==
    ASSUME IInv, AllCarry, NEW r \in Requests, RequestStep(r)
    PROVE  AllCarry'
<1>1. CASE UNCHANGED ses
  BY <1>1 DEF AllCarry
<1>2. ASSUME NEW w \in Workers, Refused(r, w) PROVE AllCarry'
  <2> DEFINE s == [IdleSession EXCEPT !.pc = "begun", !.op = "autoban", !.node = req[r].node]
  <2>1. Carries(s)
    BY DEF Carries, IdleSession, NoWrites
  <2>2. Update(w, s)
    BY <1>2 DEF Refused
  <2> QED
    BY <2>1, <2>2, UpdateCarries
<1> QED
  BY <1>1, <1>2 DEF RequestStep, PickNode, Fanout, Decide, Retry, EndRequest

LEMMA EnvironmentCarries ==
    ASSUME IInv, AllCarry, Environment
    PROVE  AllCarry'
<1>1. ASSUME NEW n \in Nodes, Lapse(n), NEW w \in Workers PROVE Carries(ses'[w])
  <2> DEFINE s == [ses[w] EXCEPT !.cons = LapseOf(ses[w].cons)]
  <2>1. ses[w] \in Session /\ Carries(ses[w])
    BY DEF IInv, AllCarry
  <2>2. s.op = ses[w].op /\ s.row = ses[w].row /\ s.out = ses[w].out /\ s.cons = LapseOf(ses[w].cons)
    BY <2>1 DEF Session
  <2>3. LapseOf(ses[w].cons) \in StillVerified => ses[w].cons \in StillVerified
    BY DEF LapseOf, StillVerified
  <2>4. ses'[w] \in {ses[w], s}
    BY <1>1 DEF Lapse
  <2> HIDE DEF s
  <2> QED
    BY <2>1, <2>2, <2>3, <2>4, CarriesOn
<1>2. ASSUME NEW n \in Nodes, BanElapses(n) PROVE AllCarry'
  BY <1>2 DEF BanElapses, AllCarry
<1>3. ASSUME NEW p \in Procs, Restart(p) PROVE AllCarry'
  BY <1>3, IdleCarries DEF Restart, AllCarry
<1> QED
  BY <1>1, <1>2, <1>3 DEF Environment, AllCarry

LEMMA CarryInit == Init => AllCarry
BY IdleCarries DEF Init, AllCarry

LEMMA CarryNext == IInv /\ AllCarry /\ [Next]_vars => AllCarry'
<1> SUFFICES ASSUME IInv, AllCarry, [Next]_vars PROVE AllCarry'
  OBVIOUS
<1>1. CASE UNCHANGED vars
  BY <1>1 DEF vars, AllCarry
<1> QED
  BY <1>1, WorkerCarries, RequestCarries, EnvironmentCarries DEF Next

\* Who changes a consent: a commit, a failed proof, and time.
LEMMA WhoWritesConsents ==
    ASSUME IInv, [Next]_vars, NEW n \in Nodes, consent'[n] # consent[n]
    PROVE  \/ \E w \in Workers : Commit(w) /\ NodeOf(w) = n
           \/ \E w \in Workers : ProofFailed(w)
           \/ \E m \in Nodes : Lapse(m)
<1>1. ASSUME NEW w \in Workers, WorkerStep(w), ~ProofFailed(w) PROVE Commit(w) /\ NodeOf(w) = n
  <2>1. Commit(w)
    BY <1>1 DEF WorkerStep, dbVars, Enroll, Begin, Revoke, Expire, Blacklist, Lift, SetDraining, Delete,
       AutoBlacklist, ProofInconclusive, ProofPassed, ReadConsent, CheckNode, Resync, ApplySync,
       ReadRegistry, Vanish, Fail
  <2>2. consent' = consent \/ \E co : consent' = [consent EXCEPT ![NodeOf(w)] = co]
    BY <2>1 DEF Commit, NodeOf
  <2> QED
    BY <2>1, <2>2 DEF IInv, TablesInv
<1>2. ASSUME NEW r \in Requests, RequestStep(r) PROVE FALSE
  BY <1>2 DEF RequestStep, dbVars, PickNode, Fanout, Decide, Retry, EndRequest, Refused
<1>3. CASE Environment
  BY <1>3 DEF Environment, BanElapses, Restart, dbVars
<1>4. consent' # consent
  OBVIOUS
<1> QED
  BY <1>1, <1>2, <1>3, <1>4 DEF Next, vars

\* Only a verification that saw a consent revoked, expired or failed restores it: one
\* that was under way when it was withdrawn extends it at most.
THEOREM ConsentsRestoredByProofs == Spec => ConsentRestoredByProof
<1> DEFINE Step == \A n \in Nodes : consent[n] \notin StillVerified /\ consent'[n] \in StillVerified
                       => \E w \in Workers : /\ At(w, "commit", "verify")
                                             /\ NodeOf(w) = n
                                             /\ ses[w].cons \notin StillVerified
<1>1. ASSUME IInv, AllCarry, [Next]_vars PROVE Step
  <2> SUFFICES ASSUME NEW n \in Nodes,
                      consent[n] \notin StillVerified, consent'[n] \in StillVerified
               PROVE  \E w \in Workers : At(w, "commit", "verify") /\ NodeOf(w) = n
                                         /\ ses[w].cons \notin StillVerified
    OBVIOUS
  <2>1. consent \in [Nodes -> ConsentStatus]
    BY <1>1 DEF IInv, TablesInv
  <2>2. ASSUME NEW w \in Workers, Commit(w), NodeOf(w) = n
        PROVE  At(w, "commit", "verify") /\ ses[w].cons \notin StillVerified
    <3>1. ses[w] \in Session /\ Carries(ses[w]) /\ ses[w].node = n
      BY <1>1, <2>2 DEF IInv, AllCarry, NodeOf
    <3>2. ses[w].out.co = "verified"
      <4>1. ses[w].out.co \in (ConsentStatus \ {"lapsed"}) \cup {"keep", "renew"}
        BY <3>1 DEF Session, Writes
      <4>2. ses[w].out.co \notin {"keep", "renew"} /\ consent'[n] = ses[w].out.co
        BY <2>1, <2>2, <3>1 DEF Commit, StillVerified
      <4> QED
        BY <4>1, <4>2 DEF StillVerified
    <3> QED
      BY <2>2, <3>1, <3>2 DEF Carries, Commit, At
  <2>3. ASSUME NEW w \in Workers, ProofFailed(w) PROVE FALSE
    BY <2>1, <2>3 DEF ProofFailed, StillVerified
  <2>4. ASSUME NEW m \in Nodes, Lapse(m) PROVE FALSE
    BY <2>1, <2>4 DEF Lapse, LapseOf, StillVerified
  <2> QED
    BY <1>1, <2>2, <2>3, <2>4, WhoWritesConsents
<1>2. Spec => []AllCarry
  BY Invariance, CarryInit, CarryNext, PTL DEF Spec
<1>3. Spec => [][Step]_vars
  BY <1>1, <1>2, Invariance, PTL DEF Spec
<1> QED
  BY <1>3 DEF ConsentRestoredByProof

=============================================================================

------------------------- MODULE RegistryPoolProofs -------------------------
(***************************************************************************)
(* Theorems of NodeRegistry about the pool, the table of bans and the rows *)
(* that are deleted, the first two with the hypothesis that they need:     *)
(*                                                                         *)
(* BannedAddressesClosed: an address under a ban is not in the registry    *)
(* under another id, if handlers come one at a time or none deletes a row. *)
(* Otherwise it may be: a blacklisting that has loaded a row bans its      *)
(* address after the row was deleted and the address registered again.     *)
(*                                                                         *)
(* SettledPoolsAgree: between handlers the pool offers what the registry   *)
(* offers, if there is one process, one handler at a time and no crash.    *)
(* With two, a pass that has read the tables before another's commit       *)
(* overwrites what that one has published; a crash loses a pass.           *)
(*                                                                         *)
(* DeletionsLast: a deleted node stays deleted and leaves no consent.      *)
(*                                                                         *)
(* None is inductive.  AddressInv says how the rows, the pool and what     *)
(* a handler is about to write belong together; SettledInv what is known,  *)
(* at each step of the only handler, of the snapshot it will apply and of  *)
(* the row it will commit; RowsInv that a handler writes a row that is     *)
(* there, and none beside one that deletes it.                             *)
(***************************************************************************)
EXTENDS NodeRegistryProofs

-----------------------------------------------------------------------------
(* The fields of a session after a step *)

LEMMA EntryRoutable ==
    \A st, co : EntryOf(st, co).routable <=> st \in RoutableStates /\ co = "verified"
BY Zenon DEF EntryOf

\* The session has read the registry for a pass, its own writes included.
ViewOpens(s) ==
    \A n \in Nodes : s.snap[n].routable <=>
        IF n = s.node THEN RowSeen(s) \in RoutableStates /\ ConsentSeen(s) = "verified"
        ELSE status[n] \in RoutableStates /\ consent[n] = "verified"

SameBut(s, t) == t.op = s.op /\ t.node = s.node /\ t.row = s.row

LEMMA SyncingOpens ==
    ASSUME NEW s \in Session
    PROVE  /\ Syncing(s).pc = "syncing" /\ SameBut(s, Syncing(s))
           /\ Syncing(s).cons = s.cons /\ Syncing(s).out = s.out
           /\ ViewOpens(Syncing(s))
<1> DEFINE t == Syncing(s)
<1>1. t.pc = "syncing" /\ t.op = s.op /\ t.node = s.node /\ t.row = s.row /\ t.cons = s.cons
      /\ t.out = s.out /\ t.snap = View(s)
  BY Zenon DEF Syncing, Session
<1> HIDE DEF t
<1>2. RowSeen(t) = RowSeen(s) /\ ConsentSeen(t) = ConsentSeen(s)
  BY <1>1 DEF RowSeen, ConsentSeen
<1>3. \A n \in Nodes : t.snap[n] = IF n = s.node THEN EntryOf(RowSeen(s), ConsentSeen(s))
                                   ELSE EntryOf(status[n], consent[n])
  BY <1>1 DEF View
<1>4. ViewOpens(t)
  BY <1>1, <1>2, <1>3, EntryRoutable DEF ViewOpens
<1> QED
  BY <1>1, <1>4 DEF t, SameBut

\* What a handler that writes does to its session.
Wrote(s, t, out) ==
    t.pc = "syncing" /\ SameBut(s, t) /\ t.cons = s.cons /\ t.out = out /\ ViewOpens(t)

LEMMA WriteOutFields ==
    ASSUME IInv, NEW w \in Workers, NEW out \in Writes, WriteOut(w, out)
    PROVE  \E t : Update(w, t) /\ Wrote(ses[w], t, out)
<1> DEFINE s == [ses[w] EXCEPT !.out = out]
<1>1. ses[w] \in Session
  BY DEF IInv
<1>2. s \in Session /\ SameBut(ses[w], s) /\ s.cons = ses[w].cons /\ s.out = out
  BY <1>1, Zenon DEF Session, SameBut
<1>3. Update(w, Syncing(s))
  BY DEF WriteOut
<1> HIDE DEF s
<1>4. Wrote(ses[w], Syncing(s), out)
  BY <1>2, SyncingOpens DEF Wrote, SameBut
<1> QED
  BY <1>3, <1>4

\* A step closes nodes in the pools and opens none; it leaves the entries of other nodes.
PoolCloses(n) ==
    \A p \in Procs, m \in Nodes :
        /\ pool'[p][m].routable => pool[p][m].routable
        /\ m # n => pool'[p][m] = pool[p][m]

LEMMA EntryClosed ==
    ASSUME IInv, NEW p \in Procs, NEW n \in Nodes, NEW e, e.routable => pool[p][n].routable,
           pool' = [pool EXCEPT ![p] = [pool[p] EXCEPT ![n] = e]]
    PROVE  PoolCloses(n) /\ pool'[p][n] = e
<1>1. pool \in [Procs -> [Nodes -> Entry]]
  BY DEF IInv, PoolInv
<1>2. pool'[p][n] = e
  BY <1>1
<1>3. ASSUME NEW q \in Procs, NEW m \in Nodes, ~(q = p /\ m = n)
      PROVE  pool'[q][m] = pool[q][m]
  BY <1>1, <1>3
<1> QED
  BY <1>2, <1>3 DEF PoolCloses

LEMMA PoolKeptCloses == UNCHANGED pool => \A n : PoolCloses(n)
BY DEF PoolCloses


\* The handlers that write at once.
HandlerOps == {"revoke", "expire", "blacklist", "lift", "drain", "undrain", "delete", "autoban"}
AtOnce(w) == \/ Revoke(w) \/ Expire(w) \/ Blacklist(w) \/ Lift(w) \/ SetDraining(w)
             \/ Delete(w) \/ AutoBlacklist(w)

\* The writes of a handler, column by column.
Puts(out, st, co, b) == out \in Writes /\ out.st = st /\ out.co = co /\ out.ban = b /\ ~out.pub

LEMMA PutsFields ==
    ASSUME NEW st \in PlainStatus, NEW co \in PlainConsent,
           NEW b \in {"none", "permanent", "temporary", "keep"}
    PROVE  /\ Puts([NoWrites EXCEPT !.st = st], st, "keep", "keep")
           /\ Puts([NoWrites EXCEPT !.st = st, !.co = co], st, co, "keep")
           /\ Puts([NoWrites EXCEPT !.st = st, !.ban = b], st, "keep", b)
           /\ Puts([NoWrites EXCEPT !.st = st, !.ban = b, !.co = co], st, co, b)
<1>1. /\ [NoWrites EXCEPT !.st = st] \in Writes
      /\ [NoWrites EXCEPT !.st = st, !.co = co] \in Writes
      /\ [NoWrites EXCEPT !.st = st, !.ban = b] \in Writes
      /\ [NoWrites EXCEPT !.st = st, !.ban = b, !.co = co] \in Writes
  BY PlainTypes, Zenon DEF PlainWrites
<1> DEFINE o1 == [NoWrites EXCEPT !.st = st]
           o2 == [NoWrites EXCEPT !.st = st, !.co = co]
           o3 == [NoWrites EXCEPT !.st = st, !.ban = b]
           o4 == [NoWrites EXCEPT !.st = st, !.ban = b, !.co = co]
<1>2. o1.st = st /\ o1.co = "keep" /\ o1.ban = "keep" /\ ~o1.pub
  BY DEF NoWrites
<1>3. o2.st = st /\ o2.co = co /\ o2.ban = "keep" /\ ~o2.pub
  BY DEF NoWrites
<1>4. o3.st = st /\ o3.co = "keep" /\ o3.ban = b /\ ~o3.pub
  BY DEF NoWrites
<1>5. o4.st = st /\ o4.co = co /\ o4.ban = b /\ ~o4.pub
  BY DEF NoWrites
<1> QED
  BY <1>1, <1>2, <1>3, <1>4, <1>5, Zenon DEF Puts

\* What one of these handlers writes, in the view of the registry it has.
HandlerPuts(w, out) ==
    LET n == NodeOf(w)
        op == ses[w].op
        IfThere(st) == StatusIfPresent(w, st)
        Ban == {"permanent", "temporary"} IN
    \/ op = "revoke" /\ Puts(out, "revoked", IF ses[w].cons = "revoked" THEN "keep" ELSE "revoked", "keep")
    \/ op = "expire" /\ Puts(out, "revoked", "revoked", "keep")
    \/ op = "blacklist" /\ \E b \in Ban : Puts(out, IfThere("blacklisted"), "keep", b)
    \/ op = "lift" /\ Puts(out, IfThere("pending_consent"), "keep", "none")
    \/ op = "drain" /\ Puts(out, IfThere("draining"), "keep", "keep")
    \/ op = "undrain" /\ Puts(out, IfThere("verified"), "keep", "keep")
    \/ op = "delete" /\ Puts(out, "deleted", "none", "keep")
    \/ op = "autoban" /\ Puts(out, IfThere("blacklisted"),
                              IF consent[n] \in StillVerified THEN "failed" ELSE "keep", "permanent")

\* The pool entry of the node that the handler closes before it writes.
Closers == {"revoke", "blacklist", "delete"}

LEMMA HandlerWrites ==
    ASSUME IInv, NEW w \in Workers, AtOnce(w)
    PROVE  /\ UNCHANGED dbVars /\ PoolCloses(NodeOf(w))
           /\ ses[w].pc = "begun" /\ NodeOf(w) \in Nodes /\ ses[w].op \in HandlerOps
           /\ ses[w].op \in Closers => ~pool'[Home[w]][NodeOf(w)].routable
           /\ ses[w].op \notin Closers => UNCHANGED pool
           /\ \/ Finish(w) /\ ses[w].op = "lift"
              \/ \E out : WriteOut(w, out) /\ HandlerPuts(w, out)
<1> DEFINE n == NodeOf(w)
           p == Home[w]
<1>1. ses[w].pc = "begun" /\ ses[w].op \in HandlerOps /\ UNCHANGED dbVars
  BY DEF AtOnce, Revoke, Expire, Blacklist, Lift, SetDraining, Delete, AutoBlacklist, Writing,
         MayHaveVanished, At, HandlerOps
<1>2. n \in Nodes /\ p \in Procs
  BY <1>1, UnderWay
<1>3. pool[p][n] \in Entry
  BY <1>2 DEF IInv, PoolInv
<1>4. \A st \in PlainStatus : StatusIfPresent(w, st) \in PlainStatus
  BY StatusIfPresentType
<1>7. CASE Revoke(w)
  <2> DEFINE co == IF ses[w].cons = "revoked" THEN "keep" ELSE "revoked"
             out == [NoWrites EXCEPT !.st = "revoked", !.co = co]
             e == IF pool[p][n] = NoEntry THEN pool[p][n]
                  ELSE [state |-> "revoked", routable |-> FALSE]
  <2>1. pool' = [pool EXCEPT ![p] = [pool[p] EXCEPT ![n] = e]] /\ ses[w].op = "revoke" /\ WriteOut(w, out)
    BY <1>7 DEF Revoke, Writing, At
  <2>2. ~e.routable
    BY DEF NoEntry
  <2> HIDE DEF e
  <2>3. PoolCloses(n) /\ pool'[p][n] = e
    BY <1>2, <2>1, <2>2, EntryClosed
  <2>4. co \in PlainConsent
    BY PlainValues
  <2>5. Puts(out, "revoked", co, "keep")
    BY <2>4, PlainValues, PutsFields
  <2>6. HandlerPuts(w, out)
    BY <2>1, <2>5 DEF HandlerPuts
  <2> QED
    BY <1>1, <1>2, <2>1, <2>2, <2>3, <2>6 DEF Closers
<1>8. CASE Expire(w)
  <2> DEFINE out == [NoWrites EXCEPT !.st = "revoked", !.co = "revoked"]
  <2>1. WriteOut(w, out) /\ ses[w].op = "expire" /\ UNCHANGED pool
    BY <1>8 DEF Expire, Writing, At
  <2>2. Puts(out, "revoked", "revoked", "keep")
    BY PlainValues, PutsFields
  <2>3. HandlerPuts(w, out)
    BY <2>1, <2>2 DEF HandlerPuts
  <2> QED
    BY <1>1, <1>2, <2>1, <2>3, PoolKeptCloses DEF Closers
<1>9. CASE Blacklist(w)
  <2> DEFINE e == [pool[p][n] EXCEPT !.routable = FALSE]
             out(b) == [NoWrites EXCEPT !.st = StatusIfPresent(w, "blacklisted"), !.ban = b]
  <2>1. PICK b \in {"permanent", "temporary"} : WriteOut(w, out(b))
    BY <1>9 DEF Blacklist
  <2>2. pool' = [pool EXCEPT ![p] = [pool[p] EXCEPT ![n] = e]] /\ ses[w].op = "blacklist"
    BY <1>9 DEF Blacklist, CloseInPool, MayHaveVanished, At
  <2>3. ~e.routable
    BY <1>3, Zenon DEF Entry
  <2> HIDE DEF e
  <2>4. PoolCloses(n) /\ pool'[p][n] = e
    BY <1>2, <2>2, <2>3, EntryClosed
  <2>5. Puts(out(b), StatusIfPresent(w, "blacklisted"), "keep", b)
    BY <1>4, PlainValues, PutsFields
  <2>6. HandlerPuts(w, out(b))
    BY <2>2, <2>5 DEF HandlerPuts
  <2> QED
    BY <1>1, <1>2, <2>1, <2>2, <2>3, <2>4, <2>6 DEF Closers
<1>10. CASE Lift(w)
  <2> DEFINE out == [NoWrites EXCEPT !.st = StatusIfPresent(w, "pending_consent"), !.ban = "none"]
  <2>1. ses[w].op = "lift" /\ UNCHANGED pool /\ (WriteOut(w, out) \/ Finish(w))
    BY <1>10 DEF Lift, MayHaveVanished, At
  <2>2. Puts(out, StatusIfPresent(w, "pending_consent"), "keep", "none")
    BY <1>4, PlainValues, PutsFields
  <2>3. HandlerPuts(w, out)
    BY <2>1, <2>2 DEF HandlerPuts
  <2> QED
    BY <1>1, <1>2, <2>1, <2>3, PoolKeptCloses DEF Closers
<1>11. CASE SetDraining(w)
  <2> DEFINE out(st) == [NoWrites EXCEPT !.st = StatusIfPresent(w, st)]
  <2>1. \/ ses[w].op = "drain" /\ WriteOut(w, out("draining"))
        \/ ses[w].op = "undrain" /\ WriteOut(w, out("verified"))
    BY <1>11 DEF SetDraining, MayHaveVanished, At
  <2>2. UNCHANGED pool
    BY <1>11 DEF SetDraining
  <2>3. \A st \in {"draining", "verified"} : Puts(out(st), StatusIfPresent(w, st), "keep", "keep")
    BY <1>4, PlainValues, PutsFields
  <2>4. \/ WriteOut(w, out("draining")) /\ HandlerPuts(w, out("draining"))
        \/ WriteOut(w, out("verified")) /\ HandlerPuts(w, out("verified"))
    BY <2>1, <2>3 DEF HandlerPuts
  <2> QED
    BY <1>1, <1>2, <2>1, <2>2, <2>4, PoolKeptCloses DEF Closers
<1>12. CASE Delete(w)
  <2> DEFINE out == [NoWrites EXCEPT !.st = "deleted", !.co = "none"]
  <2>1. pool' = [pool EXCEPT ![p] = [pool[p] EXCEPT ![n] = NoEntry]] /\ ses[w].op = "delete" /\ WriteOut(w, out)
    BY <1>12 DEF Delete, MayHaveVanished, At
  <2>2. ~NoEntry.routable
    BY DEF NoEntry
  <2>3. PoolCloses(n) /\ pool'[p][n] = NoEntry
    BY <1>2, <2>1, <2>2, EntryClosed
  <2>4. Puts(out, "deleted", "none", "keep")
    BY PlainValues, PutsFields
  <2>5. HandlerPuts(w, out)
    BY <2>1, <2>4 DEF HandlerPuts
  <2> QED
    BY <1>1, <1>2, <2>1, <2>2, <2>3, <2>5 DEF Closers
<1>13. CASE AutoBlacklist(w)
  <2> DEFINE co == IF consent[n] \in StillVerified THEN "failed" ELSE "keep"
             out == [NoWrites EXCEPT !.st = StatusIfPresent(w, "blacklisted"), !.ban = "permanent", !.co = co]
  <2>1. ses[w].op = "autoban" /\ UNCHANGED pool /\ WriteOut(w, out)
    BY <1>13 DEF AutoBlacklist, MayHaveVanished, At
  <2>2. co \in PlainConsent
    BY PlainValues
  <2>3. Puts(out, StatusIfPresent(w, "blacklisted"), co, "permanent")
    BY <1>4, <2>2, PlainValues, PutsFields
  <2>4. HandlerPuts(w, out)
    BY <2>1, <2>3 DEF HandlerPuts
  <2> QED
    BY <1>1, <1>2, <2>1, <2>4, PoolKeptCloses DEF Closers
<1> QED
  BY <1>7, <1>8, <1>9, <1>10, <1>11, <1>12, <1>13 DEF AtOnce

-----------------------------------------------------------------------------
(* The moves of the other steps                                             *)

\* A session as it starts.
Fresh(t, pc, op, n) ==
    t.pc = pc /\ t.op = op /\ t.node = n /\ t.cons = "unread" /\ t.out = NoWrites

LEMMA EnrollMove ==
    ASSUME IInv, NEW w \in Workers, NEW n \in Nodes, Enroll(w, n)
    PROVE  \E t : /\ Update(w, t) /\ ViewOpens(t)
                  /\ t.pc = "syncing" /\ t.op = "enroll" /\ t.node = n /\ t.cons = "unread"
                  /\ Puts(t.out, "consent_challenge_sent", "challenge_sent", "keep")
<1> DEFINE out == [NoWrites EXCEPT !.st = "consent_challenge_sent", !.co = "challenge_sent"]
           s == [IdleSession EXCEPT !.op = "enroll", !.node = n, !.out = out]
<1>1. Puts(out, "consent_challenge_sent", "challenge_sent", "keep")
  <2>1. "consent_challenge_sent" \in PlainStatus /\ "challenge_sent" \in PlainConsent
    BY DEF PlainStatus, PlainConsent, NodeState, ConsentStatus
  <2> QED
    BY <2>1, PutsFields
<1>2. s \in Session
  BY <1>1, IdleTypes, Zenon DEF Session, OpNames, Puts
<1>3. s.op = "enroll" /\ s.node = n /\ s.cons = "unread" /\ s.out = out
  BY DEF IdleSession
<1>4. Update(w, Syncing(s))
  BY DEF Enroll
<1> HIDE DEF s, out
<1> QED
  BY <1>1, <1>2, <1>3, <1>4, SyncingOpens DEF SameBut

LEMMA BeginMove ==
    ASSUME NEW w \in Workers, NEW op, NEW n \in Nodes, Begin(w, op, n)
    PROVE  \E t : /\ Update(w, t)
                  /\ t.pc = (IF op \in LoadsRow THEN "checking" ELSE "begun")
                  /\ t.op = op /\ t.node = n /\ t.out = NoWrites /\ t.snap = NoSnap
                  /\ op \in LoadsRow => t.row = status[n]
                  /\ t.cons = (IF op \in LoadsConsent THEN consent[n] ELSE "unread")
<1> DEFINE t == [IdleSession EXCEPT
                    !.pc = IF op \in LoadsRow THEN "checking" ELSE "begun",
                    !.op = op, !.node = n,
                    !.row = IF op \in LoadsRow THEN status[n] ELSE @,
                    !.cons = IF op \in LoadsConsent THEN consent[n] ELSE @]
<1>1. /\ t.pc = (IF op \in LoadsRow THEN "checking" ELSE "begun")
      /\ t.op = op /\ t.node = n /\ t.out = NoWrites /\ t.snap = NoSnap
      /\ op \in LoadsRow => t.row = status[n]
      /\ t.cons = (IF op \in LoadsConsent THEN consent[n] ELSE "unread")
  BY DEF IdleSession
<1>2. Update(w, t)
  BY DEF Begin
<1> HIDE DEF t
<1> QED
  BY <1>1, <1>2

LEMMA ProofPassedMove ==
    ASSUME IInv, NEW w \in Workers, ProofPassed(w)
    PROVE  \E t : /\ Update(w, t) /\ ViewOpens(t) /\ SameBut(ses[w], t)
                  /\ t.pc = "proved" /\ t.cons = ses[w].cons /\ t.out.st = "verified"
                  /\ t.out.co = (IF ses[w].cons \in StillVerified THEN "renew" ELSE "verified")
                  /\ t.out.pub = ses[w].out.pub /\ t.out.ban = ses[w].out.ban
<1> DEFINE co == IF ses[w].cons \in StillVerified THEN "renew" ELSE "verified"
           out == [ses[w].out EXCEPT !.st = "verified", !.co = co]
           s == [ses[w] EXCEPT !.out = out]
           t == [Syncing(s) EXCEPT !.pc = "proved"]
<1>1. ses[w] \in Session /\ ses[w].out \in Writes
  BY DEF IInv, Session
<1>2. co \in {"renew", "verified"}
  OBVIOUS
<1>3. Update(w, t)
  <2>1. [ses[w] EXCEPT !.out.st = "verified", !.out.co = co] = s
    BY <1>1 DEF Session
  <2> QED
    BY <2>1 DEF ProofPassed
<1> HIDE DEF co
<1>4. out \in Writes
  <2>1. "verified" \in NodeState /\ co \in (ConsentStatus \ {"lapsed"}) \cup {"keep", "renew"}
    BY <1>2 DEF NodeState, ConsentStatus
  <2> QED
    BY <1>1, <2>1, Zenon DEF Writes
<1>5. out.st = "verified" /\ out.co = co /\ out.pub = ses[w].out.pub /\ out.ban = ses[w].out.ban
  BY <1>1, Zenon DEF Writes
<1> HIDE DEF out
<1>6. s \in Session /\ SameBut(ses[w], s) /\ s.cons = ses[w].cons /\ s.out = out
  BY <1>1, <1>4, Zenon DEF Session, SameBut
<1> HIDE DEF s
<1> DEFINE c == Syncing(s)
<1>7. c.pc = "syncing" /\ SameBut(s, c) /\ c.cons = s.cons /\ c.out = s.out /\ ViewOpens(c)
  BY <1>6, SyncingOpens
<1>8. /\ t.pc = "proved" /\ t.op = c.op /\ t.node = c.node /\ t.row = c.row /\ t.cons = c.cons
      /\ t.out = c.out /\ t.snap = c.snap
  BY <1>6, Zenon DEF Syncing, Session
<1> HIDE DEF t, c
<1>9. ViewOpens(t)
  <2>1. RowSeen(t) = RowSeen(c) /\ ConsentSeen(t) = ConsentSeen(c)
    BY <1>8 DEF RowSeen, ConsentSeen
  <2> QED
    BY <1>7, <1>8, <2>1 DEF ViewOpens
<1> QED
  BY <1>3, <1>5, <1>6, <1>7, <1>8, <1>9 DEF SameBut, co

LEMMA ReadConsentMove ==
    ASSUME IInv, NEW w \in Workers, ReadConsent(w)
    PROVE  \E t : /\ Update(w, t) /\ SameBut(ses[w], t)
                  /\ t.pc = "checking" /\ t.snap = ses[w].snap
                  /\ t.cons = consent[NodeOf(w)]
                  /\ t.out.co = (IF consent[NodeOf(w)] = "lapsed" THEN "expired" ELSE "keep")
                  /\ t.out.st = ses[w].out.st /\ t.out.ban = ses[w].out.ban
                  /\ t.out.pub = ses[w].out.pub
<1> DEFINE co == consent[NodeOf(w)]
           wr == IF co = "lapsed" THEN "expired" ELSE "keep"
           out == [ses[w].out EXCEPT !.co = wr]
           t == [ses[w] EXCEPT !.cons = co, !.out = out]
<1>1. ses[w] \in Session /\ ses[w].out \in Writes /\ ses[w].pc = "checking"
  BY DEF IInv, Session, ReadConsent
<1>2. Update(w, t)
  <2>1. [ses[w] EXCEPT !.cons = co, !.out.co = wr] = t
    BY <1>1 DEF Session
  <2> QED
    BY <2>1 DEF ReadConsent
<1> HIDE DEF co, wr
<1>3. out.st = ses[w].out.st /\ out.co = wr /\ out.pub = ses[w].out.pub /\ out.ban = ses[w].out.ban
  BY <1>1, Zenon DEF Writes
<1> HIDE DEF out
<1>4. SameBut(ses[w], t) /\ t.pc = ses[w].pc /\ t.snap = ses[w].snap /\ t.cons = co /\ t.out = out
  BY <1>1, Zenon DEF Session, SameBut
<1> HIDE DEF t
<1> QED
  BY <1>1, <1>2, <1>3, <1>4 DEF co, wr

LEMMA CheckNodeMove ==
    ASSUME IInv, NEW w \in Workers, CheckNode(w)
    PROVE  \E verdict \in Verdicts(ses[w]) :
           \E target \in CheckTargets(RowSeen(ses[w]), verdict) :
           \E t :
              LET c == ses[w]
                  moved == target \notin {"keep", RowSeen(c)}
                  banned == target = "blacklisted" IN
              /\ Update(w, t) /\ SameBut(c, t) /\ t.cons = c.cons
              /\ t.pc = (IF moved THEN "hooked" ELSE IF c.op = "check" THEN "commit" ELSE "checked")
              /\ t.snap = (IF moved THEN Committed ELSE NoSnap)
              /\ t.out.st = (IF moved THEN target ELSE c.out.st)
              /\ t.out.co = (IF banned /\ ConsentSeen(c) \in StillVerified THEN "failed" ELSE c.out.co)
              /\ t.out.ban = (IF banned THEN "permanent" ELSE "keep")
              /\ t.out.pub <=> c.op = "check" /\ target \notin {"keep", "blacklisted"}
<1> DEFINE c == ses[w]
<1>1. c \in Session
  BY DEF IInv
<1>2. PICK verdict \in Verdicts(ses[w]) :
        \E target \in CheckTargets(RowSeen(ses[w]), verdict) : Update(w, Checked(ses[w], target))
  BY DEF CheckNode
<1>3. PICK target \in CheckTargets(RowSeen(ses[w]), verdict) : Update(w, Checked(ses[w], target))
  BY <1>2
<1> DEFINE moved == target \notin {"keep", RowSeen(c)}
           banned == target = "blacklisted"
           st == IF moved THEN target ELSE c.out.st
           co == IF banned /\ ConsentSeen(c) \in StillVerified THEN "failed" ELSE c.out.co
           ba == IF banned THEN "permanent" ELSE "keep"
           pub == c.op = "check" /\ target \notin {"keep", "blacklisted"}
           out == [st |-> st, co |-> co, ban |-> ba, pub |-> pub]
           pc == IF moved THEN "hooked" ELSE AfterCheck(c.op)
           snap == IF moved THEN Committed ELSE NoSnap
           t == [c EXCEPT !.out = out, !.pc = pc, !.snap = snap]
<1>4. Update(w, t)
  BY <1>3 DEF Checked
<1>5. pc = (IF moved THEN "hooked" ELSE IF c.op = "check" THEN "commit" ELSE "checked")
  BY DEF AfterCheck
<1> HIDE DEF pc, snap, st, co, ba, pub
<1>6. out.st = st /\ out.co = co /\ out.ban = ba /\ out.pub = pub
  OBVIOUS
<1> HIDE DEF out
<1>7. SameBut(c, t) /\ t.cons = c.cons /\ t.pc = pc /\ t.snap = snap /\ t.out = out
  BY <1>1, Zenon DEF Session, SameBut
<1> HIDE DEF t
<1> WITNESS verdict \in Verdicts(ses[w])
<1> WITNESS target \in CheckTargets(RowSeen(ses[w]), verdict)
<1> WITNESS t
<1>8. t.out.pub <=> c.op = "check" /\ target \notin {"keep", "blacklisted"}
  BY <1>6, <1>7 DEF pub
<1> QED
  BY <1>4, <1>5, <1>6, <1>7, <1>8 DEF snap, st, co, ba

LEMMA ResyncMove ==
    ASSUME IInv, NEW w \in Workers, Resync(w)
    PROVE  /\ PoolCloses(NodeOf(w)) /\ NodeOf(w) \in Nodes /\ ses[w].pc = "checked"
           /\ \E t : Update(w, t) /\ Wrote(ses[w], t, ses[w].out)
<1> DEFINE n == NodeOf(w)
           p == Home[w]
           st == RowSeen(ses[w])
           e == IF pool[p][n] = NoEntry THEN pool[p][n]
                ELSE [state |-> st, routable |-> st \in RoutableStates /\ pool[p][n].routable]
<1>1. n \in Nodes /\ p \in Procs /\ ses[w].pc = "checked" /\ ses[w] \in Session
  BY UnderWay DEF Resync, IInv
<1>2. pool' = [pool EXCEPT ![p] = [pool[p] EXCEPT ![n] = e]]
  BY DEF Resync
<1>3. e.routable => pool[p][n].routable
  BY Zenon
<1> HIDE DEF e
<1>4. PoolCloses(n)
  BY <1>1, <1>2, <1>3, EntryClosed
<1>5. Update(w, Syncing(ses[w])) /\ Wrote(ses[w], Syncing(ses[w]), ses[w].out)
  BY <1>1, SyncingOpens DEF Resync, Wrote
<1> QED
  BY <1>1, <1>4, <1>5

LEMMA ApplySyncMove ==
    ASSUME IInv, NEW w \in Workers, ApplySync(w)
    PROVE  /\ \A p \in Procs : pool'[p] = IF p = Home[w] THEN ses[w].snap ELSE pool[p]
           /\ ses[w].pc \in {"proved", "hooked", "syncing"}
           /\ ses[w].op = "sync" => Finish(w)
           /\ ses[w].op # "sync" =>
                 \E t : /\ Update(w, t) /\ SameBut(ses[w], t) /\ t.cons = ses[w].cons
                        /\ t.out = ses[w].out /\ t.snap = NoSnap
                        /\ t.pc = (CASE ses[w].pc = "proved" -> "checking"
                                     [] ses[w].pc = "hooked" -> IF ses[w].op = "check" THEN "commit" ELSE "checked"
                                     [] ses[w].pc = "syncing" -> "commit")
<1> DEFINE c == ses[w]
           next == CASE c.pc = "proved" -> "checking"
                     [] c.pc = "hooked" -> AfterCheck(c.op)
                     [] c.pc = "syncing" -> "commit"
           t == [c EXCEPT !.pc = next, !.snap = NoSnap]
<1>1. c \in Session /\ Home[w] \in Procs /\ c.pc \in {"proved", "hooked", "syncing"}
  BY HomeType DEF IInv, ApplySync
<1>2. \A p \in Procs : pool'[p] = IF p = Home[w] THEN c.snap ELSE pool[p]
  BY <1>1 DEF ApplySync, IInv, PoolInv
<1>3. c.op = "sync" => Finish(w)
  BY DEF ApplySync
<1>4. c.op # "sync" => Update(w, t)
  BY DEF ApplySync
<1>5. next = (CASE c.pc = "proved" -> "checking"
                [] c.pc = "hooked" -> IF c.op = "check" THEN "commit" ELSE "checked"
                [] c.pc = "syncing" -> "commit")
  BY DEF AfterCheck
<1> HIDE DEF next
<1>6. SameBut(c, t) /\ t.cons = c.cons /\ t.out = c.out /\ t.snap = NoSnap /\ t.pc = next
  BY <1>1, Zenon DEF Session, SameBut
<1> HIDE DEF t
<1> QED
  BY <1>1, <1>2, <1>3, <1>4, <1>5, <1>6

\* A commit, row by row.
LEMMA CommitMove ==
    ASSUME IInv, NEW w \in Workers, Commit(w)
    PROVE  LET c == ses[w] IN
           /\ c.pc = "commit" /\ c.node \in Nodes /\ UNCHANGED pool
           /\ \A m \in Nodes :
                 /\ status'[m] = IF m = c.node /\ c.out.st # "keep" THEN c.out.st ELSE status[m]
                 /\ ban'[m] = IF m = c.node /\ c.out.ban # "keep" THEN c.out.ban ELSE ban[m]
                 /\ consent'[m] = IF m # c.node \/ c.out.co = "keep" THEN consent[m]
                                  ELSE IF c.out.co # "renew" THEN c.out.co
                                  ELSE IF consent[m] \in StillVerified THEN "verified" ELSE consent[m]
           /\ \/ Finish(w) /\ ~c.out.pub
              \/ /\ c.out.pub
                 /\ \E t : Update(w, t) /\ Fresh(t, "publish", "sync", NoNode) /\ t.snap = NoSnap
<1> DEFINE c == ses[w]
           t == [IdleSession EXCEPT !.pc = "publish", !.op = "sync"]
<1>1. c.pc = "commit" /\ c.node \in Nodes /\ UNCHANGED pool
  BY UnderWay DEF Commit, NodeOf
<1>2. TablesInv(status, consent, ban, proved)
  BY DEF IInv
<1>3. \A m \in Nodes :
        /\ status'[m] = IF m = c.node /\ c.out.st # "keep" THEN c.out.st ELSE status[m]
        /\ ban'[m] = IF m = c.node /\ c.out.ban # "keep" THEN c.out.ban ELSE ban[m]
  BY <1>1, <1>2 DEF Commit, TablesInv
<1>4. \A m \in Nodes :
        consent'[m] = IF m # c.node \/ c.out.co = "keep" THEN consent[m]
                      ELSE IF c.out.co # "renew" THEN c.out.co
                      ELSE IF consent[m] \in StillVerified THEN "verified" ELSE consent[m]
  BY <1>1, <1>2 DEF Commit, TablesInv
<1>5. Fresh(t, "publish", "sync", NoNode) /\ t.snap = NoSnap
  BY DEF Fresh, IdleSession
<1>6. \/ Finish(w) /\ ~c.out.pub
      \/ Update(w, t) /\ c.out.pub
  BY DEF Commit
<1> HIDE DEF t
<1> QED
  BY <1>1, <1>3, <1>4, <1>5, <1>6

LEMMA ReadRegistryMove ==
    ASSUME NEW w \in Workers, ReadRegistry(w)
    PROVE  \E t : Update(w, t) /\ Fresh(t, "syncing", "sync", NoNode) /\ t.snap = Committed
<1> DEFINE t == [IdleSession EXCEPT !.pc = "syncing", !.op = "sync", !.snap = Committed]
<1>1. Fresh(t, "syncing", "sync", NoNode) /\ t.snap = Committed
  BY DEF Fresh, IdleSession
<1>2. Update(w, t)
  BY DEF ReadRegistry
<1> HIDE DEF t
<1> QED
  BY <1>1, <1>2

LEMMA CommittedOpens ==
    \A n \in Nodes : Committed[n].routable <=> Offered(n)
BY EntryRoutable DEF Committed, Offered

LEMMA RefusedMove ==
    ASSUME IInv, NEW r \in Requests, NEW w \in Workers, Refused(r, w)
    PROVE  /\ req[r].node \in Nodes /\ Routable(r, req[r].node) /\ Home[w] = Home[r]
           /\ "autoban" \in Jobs[w] /\ ses[w].pc = "idle"
           /\ PoolCloses(req[r].node) /\ UNCHANGED dbVars
           /\ \E t : /\ Update(w, t) /\ Fresh(t, "begun", "autoban", req[r].node)
                     /\ t.snap = NoSnap
<1> DEFINE n == req[r].node
           p == Home[r]
           e == [pool[p][n] EXCEPT !.routable = FALSE]
           t == [IdleSession EXCEPT !.pc = "begun", !.op = "autoban", !.node = n]
<1>1. n \in Nodes /\ p \in Procs
  BY HomeType DEF Refused, IInv, RequestInv
<1>2. pool' = [pool EXCEPT ![p] = [pool[p] EXCEPT ![n] = e]]
  BY DEF Refused
<1>3. ~e.routable
  <2>1. pool[p][n] \in Entry
    BY <1>1 DEF IInv, PoolInv
  <2> QED
    BY <2>1, Zenon DEF Entry
<1> HIDE DEF e
<1>4. PoolCloses(n)
  BY <1>1, <1>2, <1>3, EntryClosed
<1>5. Fresh(t, "begun", "autoban", n) /\ t.snap = NoSnap
  BY DEF Fresh, IdleSession
<1>6. Update(w, t)
  BY DEF Refused
<1> HIDE DEF t
<1> QED
  BY <1>1, <1>4, <1>5, <1>6 DEF Refused, CanStart

-----------------------------------------------------------------------------
(* One handler at a time                                                    *)

SoleHandler == \A v, w \in Workers : v = w
NothingDeleted == \A w \in Workers : "delete" \notin Jobs[w]

\* A handler of a node that is registered, or was when it began.
OnNode(s) == s.op \notin {"none", "enroll", "sync"}

\* What an operation tells of its session.
Shape(w, s) ==
    /\ s.pc = "idle" <=> s.op = "none"
    /\ s.pc = "publish" => s.op = "sync"
    /\ s.op = "none" => s = IdleSession
    /\ s.op = "sync" => s.pc \in {"syncing", "publish"} /\ s.node = NoNode
    /\ s.op = "enroll" => s.out.st = "consent_challenge_sent" /\ s.out.ban = "keep"
    /\ s.op = "delete" => "delete" \in Jobs[w]
    /\ s.out.st = "deleted" => s.op = "delete"
    /\ s.pc = "proved" => s.op = "verify"
    /\ s.pc = "checking" => s.op \in {"check", "force", "verify"}
    /\ s.out.pub => s.op = "check"

RowThere(s) ==
    /\ OnNode(s) => Present(s.node)
    /\ s.op = "enroll" => \A m \in Nodes : EndpointOf[m] = EndpointOf[s.node] =>
                              status[m] \in NoRow /\ ban[m] \in {"none", "elapsed"}
    /\ \A n \in Nodes : s.snap[n].routable => Present(n)

\* A handler that is about to delete a row has closed the node in its pool.
ClosedFirst(s, pl) == s.out.st = "deleted" => ~s.snap[s.node].routable /\ ~pl[s.node].routable

RegisteredOnce == \A m, n \in Nodes : Present(m) /\ Present(n) /\ EndpointOf[m] = EndpointOf[n] => m = n

PoolRegistered == \A w \in Workers, n \in Nodes : pool[Home[w]][n].routable => Present(n)

EnrolledOnce == \A v, w \in Workers : v # w /\ ses[v].op = "enroll" /\ ses[w].op = "enroll" =>
                    EndpointOf[ses[v].node] # EndpointOf[ses[w].node]

AddressInv ==
    /\ RegisteredOnce /\ BannedEndpointClosed /\ PoolRegistered /\ EnrolledOnce
    /\ \A w \in Workers : /\ Shape(w, ses[w]) /\ RowThere(ses[w])
                          /\ ClosedFirst(ses[w], pool[Home[w]])

-----------------------------------------------------------------------------

LEMMA RoutableIsPresent ==
    \A st \in RoutableStates : st \notin NoRow /\ st \notin {"consent_challenge_sent", "deleted", "keep"}
BY DEF RoutableStates, NoRow

\* A session with no snapshot that has written nothing.
LEMMA FreshAddress ==
    ASSUME NEW w \in Workers, NEW t, t.snap = NoSnap, t.out = NoWrites,
           t.pc \in {"begun", "checking"}, t.op \notin {"none", "enroll", "sync"},
           t.pc = "checking" => t.op \in {"check", "force"},
           t.op = "delete" => "delete" \in Jobs[w], Present(t.node)
    PROVE  Shape(w, t) /\ RowThere(t) /\ \A pl : ClosedFirst(t, pl)
<1>1. \A n \in Nodes : ~t.snap[n].routable
  BY DEF NoSnap, NoEntry
<1>2. t.out.st = "keep" /\ ~t.out.pub
  BY DEF NoWrites
<1> QED
  BY <1>1, <1>2 DEF Shape, RowThere, ClosedFirst, OnNode

LEMMA IdleAddress ==
    ASSUME NEW w \in Workers
    PROVE  Shape(w, IdleSession) /\ RowThere(IdleSession) /\ \A pl : ClosedFirst(IdleSession, pl)
BY DEF Shape, RowThere, ClosedFirst, OnNode, IdleSession, NoSnap, NoEntry, NoWrites

\* The registry's tables as they were.
LEMMA QuietAddress ==
    ASSUME IInv, AddressInv, SoleHandler \/ NothingDeleted,
           NEW w \in Workers, NEW t, Update(w, t), UNCHANGED <<status, ban>>,
           Shape(w, t), RowThere(t), ClosedFirst(t, pool'[Home[w]]),
           \A v \in Workers, n \in Nodes : pool'[Home[v]][n].routable => Present(n),
           t.op = "enroll" => \A v \in Workers \ {w} : ses[v].op = "enroll" =>
                                 EndpointOf[ses[v].node] # EndpointOf[t.node]
    PROVE  AddressInv'
<1>1. \A v \in Workers : ses'[v] = IF v = w THEN t ELSE ses[v]
  BY DEF Update, IInv
<1>2. RegisteredOnce' /\ BannedEndpointClosed' /\ PoolRegistered'
  BY DEF AddressInv, RegisteredOnce, BannedEndpointClosed, PoolRegistered, Present
<1>3. EnrolledOnce'
  BY <1>1 DEF AddressInv, EnrolledOnce
<1>4. \A v \in Workers : Shape(v, ses'[v])
  BY <1>1 DEF AddressInv
<1>5. ASSUME NEW v \in Workers PROVE RowThere(ses[v])'
  <2>1. RowThere(ses'[v])
    BY <1>1 DEF AddressInv
  <2> QED
    BY <2>1 DEF RowThere, OnNode, Present
<1>6. ASSUME NEW v \in Workers PROVE ClosedFirst(ses'[v], pool'[Home[v]])
  <2>1. CASE v = w
    BY <1>1, <2>1
  <2>2. CASE v # w
    <3>1. NothingDeleted
      BY <2>2 DEF SoleHandler
    <3> QED
      BY <1>1, <2>2, <3>1 DEF NothingDeleted, AddressInv, Shape, ClosedFirst
  <2> QED
    BY <2>1, <2>2
<1>7. \A v \in Workers : Shape(v, ses[v])' /\ RowThere(ses[v])' /\ ClosedFirst(ses[v], pool[Home[v]])'
  BY <1>4, <1>5, <1>6 DEF Shape, ClosedFirst
<1> QED
  BY <1>2, <1>3, <1>7 DEF AddressInv

LEMMA FinishAddress ==
    ASSUME IInv, AddressInv, SoleHandler \/ NothingDeleted, NEW w \in Workers, Finish(w),
           UNCHANGED <<status, ban>>,
           \A v \in Workers, n \in Nodes : pool'[Home[v]][n].routable => Present(n)
    PROVE  AddressInv'
<1>1. IdleSession.op = "none"
  BY DEF IdleSession
<1> QED
  BY <1>1, IdleAddress, QuietAddress DEF Finish

\* What a pass will offer is in the registry.
LEMMA ViewPresent ==
    ASSUME NEW t, ViewOpens(t), t.node \in Nodes, OnNode(t) => Present(t.node),
           t.op = "enroll" => RowSeen(t) = "consent_challenge_sent",
           t.op \notin {"none", "sync"}
    PROVE  \A n \in Nodes : t.snap[n].routable => Present(n)
BY RoutableIsPresent DEF ViewOpens, OnNode, Present

LEMMA ClosedPool ==
    ASSUME IInv, AddressInv, NEW n, PoolCloses(n)
    PROVE  \A v \in Workers, m \in Nodes : pool'[Home[v]][m].routable => Present(m)
<1> SUFFICES ASSUME NEW v \in Workers, NEW m \in Nodes, pool'[Home[v]][m].routable
             PROVE  Present(m)
  OBVIOUS
<1>1. Home[v] \in Procs
  BY HomeType
<1>2. pool[Home[v]][m].routable
  BY <1>1, Zenon DEF PoolCloses
<1> QED
  BY <1>2 DEF AddressInv, PoolRegistered

LEMMA EnrollAddress ==
    ASSUME IInv, AddressInv, SoleHandler \/ NothingDeleted, NEW w \in Workers, NEW n \in Nodes,
           Enroll(w, n)
    PROVE  AddressInv'
<1>1. PICK t : /\ Update(w, t) /\ ViewOpens(t)
               /\ t.pc = "syncing" /\ t.op = "enroll" /\ t.node = n /\ t.cons = "unread"
               /\ Puts(t.out, "consent_challenge_sent", "challenge_sent", "keep")
  BY EnrollMove
<1>2. UNCHANGED <<status, ban, pool>>
  BY DEF Enroll, dbVars
<1>3. /\ t.out.st = "consent_challenge_sent" /\ t.out.ban = "keep" /\ ~t.out.pub
      /\ RowSeen(t) = "consent_challenge_sent"
  BY <1>1 DEF Puts, RowSeen
<1>4. Shape(w, t)
  BY <1>1, <1>3 DEF Shape
<1>5. RowThere(t)
  BY <1>1, <1>3, ViewPresent DEF RowThere, OnNode, Enroll, EndpointFree
<1>6. ClosedFirst(t, pool'[Home[w]])
  BY <1>3 DEF ClosedFirst
<1>7. \A v \in Workers \ {w} : ses[v].op = "enroll" => EndpointOf[ses[v].node] # EndpointOf[n]
  <2>1. ASSUME NEW v \in Workers \ {w}, ses[v].op = "enroll"
        PROVE  ses[v].node \in Nodes
    <3>1. SessionInv(ses[v], proved) /\ Shape(v, ses[v])
      BY DEF IInv, AddressInv
    <3> QED
      BY <2>1, <3>1 DEF SessionInv, Shape
  <2> QED
    BY <2>1 DEF Enroll, EndpointFree
<1> QED
  BY <1>1, <1>2, <1>4, <1>5, <1>6, <1>7, QuietAddress DEF AddressInv, PoolRegistered

LEMMA BeginAddress ==
    ASSUME IInv, AddressInv, SoleHandler \/ NothingDeleted, NEW w \in Workers, NEW n \in Nodes,
           NEW op \in Jobs[w], Begin(w, op, n)
    PROVE  AddressInv'
<1>1. PICK t : /\ Update(w, t)
               /\ t.pc = (IF op \in LoadsRow THEN "checking" ELSE "begun")
               /\ t.op = op /\ t.node = n /\ t.out = NoWrites /\ t.snap = NoSnap
  BY BeginMove
<1>2. UNCHANGED <<status, ban, pool>> /\ Present(n) /\ op \notin {"enroll", "sync"}
  BY DEF Begin, dbVars, MayBegin
<1>3. op # "none"
  BY RegistryAssumption DEF OpNames
<1>4. Shape(w, t) /\ RowThere(t) /\ ClosedFirst(t, pool'[Home[w]])
  BY <1>1, <1>2, <1>3, FreshAddress DEF LoadsRow
<1> QED
  BY <1>1, <1>2, <1>4, QuietAddress DEF AddressInv, PoolRegistered

LEMMA RefusedAddress ==
    ASSUME IInv, AddressInv, SoleHandler \/ NothingDeleted, NEW w \in Workers, NEW r \in Requests,
           Refused(r, w)
    PROVE  AddressInv'
<1> DEFINE n == req[r].node
<1>1. /\ n \in Nodes /\ Routable(r, n) /\ Home[w] = Home[r] /\ "autoban" \in Jobs[w]
      /\ PoolCloses(n) /\ UNCHANGED dbVars
  BY RefusedMove
<1>2. PICK t : /\ Update(w, t) /\ Fresh(t, "begun", "autoban", n) /\ t.snap = NoSnap
  BY RefusedMove
<1>3. Present(n)
  BY <1>1 DEF Routable, AddressInv, PoolRegistered
<1>4. t.pc = "begun" /\ t.op = "autoban" /\ t.node = n /\ t.out = NoWrites
  BY <1>2 DEF Fresh
<1>5. Shape(w, t) /\ RowThere(t) /\ ClosedFirst(t, pool'[Home[w]])
  BY <1>2, <1>3, <1>4, FreshAddress
<1> QED
  BY <1>1, <1>2, <1>4, <1>5, ClosedPool, QuietAddress DEF dbVars

LEMMA HandlerAddress ==
    ASSUME IInv, AddressInv, SoleHandler \/ NothingDeleted, NEW w \in Workers, AtOnce(w)
    PROVE  AddressInv'
<1>1. /\ UNCHANGED dbVars /\ PoolCloses(NodeOf(w))
      /\ ses[w].pc = "begun" /\ NodeOf(w) \in Nodes /\ ses[w].op \in HandlerOps
      /\ ses[w].op \in Closers => ~pool'[Home[w]][NodeOf(w)].routable
      /\ \/ Finish(w) /\ ses[w].op = "lift"
         \/ \E out : WriteOut(w, out) /\ HandlerPuts(w, out)
  BY HandlerWrites
<1>2. \A v \in Workers, m \in Nodes : pool'[Home[v]][m].routable => Present(m)
  BY <1>1, ClosedPool
<1>3. ASSUME NEW out, WriteOut(w, out), HandlerPuts(w, out)
      PROVE  AddressInv'
  <2>1. out \in Writes /\ ~out.pub /\ (out.st = "deleted" <=> ses[w].op = "delete")
    BY <1>3 DEF HandlerPuts, Puts, StatusIfPresent
  <2>2. PICK t : Update(w, t) /\ Wrote(ses[w], t, out)
    BY <1>3, <2>1, WriteOutFields
  <2>3. /\ t.pc = "syncing" /\ t.op = ses[w].op /\ t.node = NodeOf(w) /\ t.out = out /\ ViewOpens(t)
    BY <2>2 DEF Wrote, SameBut, NodeOf
  <2>4. t.op \notin {"none", "enroll", "sync"}
    BY <1>1, <2>3 DEF HandlerOps
  <2>5. Shape(w, ses[w]) /\ RowThere(ses[w])
    BY DEF AddressInv
  <2>6. Shape(w, t)
    BY <2>1, <2>3, <2>4, <2>5 DEF Shape
  <2>7. RowThere(t)
    BY <1>1, <2>3, <2>4, <2>5, ViewPresent DEF RowThere, OnNode, NodeOf
  <2>8. ClosedFirst(t, pool'[Home[w]])
    <3>1. out.st = "deleted" => RowSeen(t) = "deleted"
      BY <2>3 DEF RowSeen
    <3>2. RowSeen(t) = "deleted" => ~t.snap[t.node].routable
      BY <1>1, <2>3, RoutableIsPresent DEF ViewOpens
    <3> QED
      BY <1>1, <2>1, <2>3, <3>1, <3>2 DEF ClosedFirst, Closers
  <2> QED
    BY <1>1, <1>2, <2>2, <2>4, <2>6, <2>7, <2>8, QuietAddress DEF dbVars
<1> QED
  BY <1>1, <1>2, <1>3, FinishAddress DEF dbVars

LEMMA ProofPassedAddress ==
    ASSUME IInv, AddressInv, SoleHandler \/ NothingDeleted, NEW w \in Workers, ProofPassed(w)
    PROVE  AddressInv'
<1>1. PICK t : /\ Update(w, t) /\ ViewOpens(t) /\ SameBut(ses[w], t)
               /\ t.pc = "proved" /\ t.out.st = "verified" /\ t.out.pub = ses[w].out.pub
  BY ProofPassedMove
<1>2. ses[w].op = "verify" /\ ses[w].pc = "begun" /\ UNCHANGED <<status, ban, pool>>
  BY DEF ProofPassed, Writing, At, dbVars
<1>3. NodeOf(w) \in Nodes
  BY <1>2, UnderWay
<1>4. t.op = "verify" /\ t.node = NodeOf(w) /\ NodeOf(w) = ses[w].node
  BY <1>1, <1>2 DEF SameBut, NodeOf
<1>5. Shape(w, ses[w]) /\ RowThere(ses[w])
  BY DEF AddressInv
<1>6. Shape(w, t)
  BY <1>1, <1>2, <1>4, <1>5 DEF Shape
<1>7. RowThere(t)
  BY <1>1, <1>2, <1>3, <1>4, <1>5, ViewPresent DEF RowThere, OnNode
<1>8. ClosedFirst(t, pool'[Home[w]])
  BY <1>1 DEF ClosedFirst
<1> QED
  BY <1>1, <1>2, <1>4, <1>6, <1>7, <1>8, QuietAddress DEF AddressInv, PoolRegistered

LEMMA ReadConsentAddress ==
    ASSUME IInv, AddressInv, SoleHandler \/ NothingDeleted, NEW w \in Workers, ReadConsent(w)
    PROVE  AddressInv'
<1>1. PICK t : /\ Update(w, t) /\ SameBut(ses[w], t) /\ t.pc = "checking" /\ t.snap = ses[w].snap
               /\ t.out.st = ses[w].out.st /\ t.out.pub = ses[w].out.pub
  BY ReadConsentMove
<1>2. ses[w].op \in {"check", "force"} /\ ses[w].pc = "checking" /\ UNCHANGED <<status, ban, pool>>
  BY DEF ReadConsent, dbVars
<1>3. t.op = ses[w].op /\ t.node = ses[w].node
  BY <1>1 DEF SameBut
<1>4. Shape(w, ses[w]) /\ RowThere(ses[w]) /\ ClosedFirst(ses[w], pool[Home[w]])
  BY DEF AddressInv
<1>5. Shape(w, t) /\ RowThere(t) /\ ClosedFirst(t, pool'[Home[w]])
  BY <1>1, <1>2, <1>3, <1>4 DEF Shape, RowThere, ClosedFirst, OnNode
<1> QED
  BY <1>1, <1>2, <1>3, <1>5, QuietAddress DEF AddressInv, PoolRegistered

LEMMA CheckNodeAddress ==
    ASSUME IInv, AddressInv, SoleHandler \/ NothingDeleted, NEW w \in Workers, CheckNode(w)
    PROVE  AddressInv'
<1> DEFINE c == ses[w]
<1>1. PICK verdict \in Verdicts(c) :
      \E target \in CheckTargets(RowSeen(c), verdict) : \E t :
         LET moved == target \notin {"keep", RowSeen(c)} IN
         /\ Update(w, t) /\ SameBut(c, t)
         /\ t.pc = (IF moved THEN "hooked" ELSE IF c.op = "check" THEN "commit" ELSE "checked")
         /\ t.snap = (IF moved THEN Committed ELSE NoSnap)
         /\ t.out.st = (IF moved THEN target ELSE c.out.st)
         /\ t.out.pub <=> c.op = "check" /\ target \notin {"keep", "blacklisted"}
  BY CheckNodeMove
<1>2. PICK target \in CheckTargets(RowSeen(c), verdict) : \E t :
         LET moved == target \notin {"keep", RowSeen(c)} IN
         /\ Update(w, t) /\ SameBut(c, t)
         /\ t.pc = (IF moved THEN "hooked" ELSE IF c.op = "check" THEN "commit" ELSE "checked")
         /\ t.snap = (IF moved THEN Committed ELSE NoSnap)
         /\ t.out.st = (IF moved THEN target ELSE c.out.st)
         /\ t.out.pub <=> c.op = "check" /\ target \notin {"keep", "blacklisted"}
  BY <1>1
<1>3. PICK t :
         /\ Update(w, t) /\ SameBut(c, t) /\ t.pc \in {"hooked", "commit", "checked"}
         /\ t.snap \in {Committed, NoSnap} /\ t.out.st \in {target, c.out.st}
         /\ t.out.pub => c.op = "check"
  BY <1>2
<1>4. c.pc = "checking" /\ UNCHANGED <<status, ban, pool>>
  BY DEF CheckNode, dbVars
<1>5. t.op = c.op /\ t.node = c.node
  BY <1>3 DEF SameBut
<1>6. Shape(w, c) /\ RowThere(c) /\ ClosedFirst(c, pool[Home[w]])
  BY DEF AddressInv
<1>7. target # "deleted"
  BY DEF CheckTargets
<1>8. \A n \in Nodes : t.snap[n].routable => Present(n)
  BY <1>3, CommittedOpens, RoutableIsPresent DEF Offered, Present, NoSnap, NoEntry
<1>9. Shape(w, t)
  BY <1>3, <1>4, <1>5, <1>6, <1>7 DEF Shape
<1>10. RowThere(t) /\ ClosedFirst(t, pool'[Home[w]])
  BY <1>3, <1>4, <1>5, <1>6, <1>7, <1>8 DEF Shape, RowThere, ClosedFirst, OnNode
<1> QED
  BY <1>3, <1>4, <1>5, <1>6, <1>9, <1>10, QuietAddress DEF Shape, AddressInv, PoolRegistered

LEMMA ResyncAddress ==
    ASSUME IInv, AddressInv, SoleHandler \/ NothingDeleted, NEW w \in Workers, Resync(w)
    PROVE  AddressInv'
<1>1. PICK t : Update(w, t) /\ Wrote(ses[w], t, ses[w].out)
  BY ResyncMove
<1>2. PoolCloses(NodeOf(w)) /\ NodeOf(w) \in Nodes /\ ses[w].pc = "checked" /\ UNCHANGED dbVars
  BY ResyncMove DEF Resync
<1>3. t.pc = "syncing" /\ t.op = ses[w].op /\ t.node = NodeOf(w) /\ t.out = ses[w].out /\ ViewOpens(t)
  BY <1>1 DEF Wrote, SameBut, NodeOf
<1>4. Shape(w, ses[w]) /\ RowThere(ses[w]) /\ ClosedFirst(ses[w], pool[Home[w]])
  BY DEF AddressInv
<1>5. ses[w].op \notin {"none", "sync"}
  BY <1>2, <1>4 DEF Shape
<1>6. Shape(w, t)
  BY <1>2, <1>3, <1>4, <1>5 DEF Shape
<1>7. t.op = "enroll" => RowSeen(t) = "consent_challenge_sent"
  BY <1>3, <1>4 DEF Shape, RowSeen
<1>8. \A n \in Nodes : t.snap[n].routable => Present(n)
  BY <1>2, <1>3, <1>4, <1>5, <1>7, ViewPresent DEF RowThere, OnNode, NodeOf
<1>9. RowThere(t)
  BY <1>3, <1>4, <1>8 DEF RowThere, OnNode, NodeOf
<1>10. ClosedFirst(t, pool'[Home[w]])
  <2>1. t.out.st = "deleted" => ~t.snap[t.node].routable
    BY <1>2, <1>3, RoutableIsPresent DEF ViewOpens, RowSeen
  <2>2. pool'[Home[w]][t.node].routable => pool[Home[w]][t.node].routable
    <3>1. Home[w] \in Procs
      BY HomeType
    <3> QED
      BY <1>2, <1>3, <3>1, Zenon DEF PoolCloses
  <2> QED
    BY <1>3, <1>4, <2>1, <2>2 DEF ClosedFirst, NodeOf
<1> QED
  BY <1>1, <1>2, <1>3, <1>6, <1>9, <1>10, ClosedPool, QuietAddress DEF dbVars, AddressInv, EnrolledOnce, NodeOf

LEMMA ApplySyncAddress ==
    ASSUME IInv, AddressInv, SoleHandler \/ NothingDeleted, NEW w \in Workers, ApplySync(w)
    PROVE  AddressInv'
<1> DEFINE c == ses[w]
<1>1. /\ \A p \in Procs : pool'[p] = IF p = Home[w] THEN c.snap ELSE pool[p]
      /\ c.pc \in {"proved", "hooked", "syncing"}
      /\ c.op = "sync" => Finish(w)
  BY ApplySyncMove
<1>2. Shape(w, c) /\ RowThere(c) /\ ClosedFirst(c, pool[Home[w]]) /\ UNCHANGED dbVars
  BY DEF AddressInv, ApplySync
<1>3. \A v \in Workers, n \in Nodes : pool'[Home[v]][n].routable => Present(n)
  BY <1>1, <1>2, HomeType DEF AddressInv, PoolRegistered, RowThere
<1>4. CASE c.op = "sync"
  BY <1>1, <1>2, <1>3, <1>4, FinishAddress DEF dbVars
<1>5. CASE c.op # "sync"
  <2>1. PICK t : /\ Update(w, t) /\ SameBut(c, t) /\ t.cons = c.cons /\ t.out = c.out /\ t.snap = NoSnap
                 /\ t.pc = (CASE c.pc = "proved" -> "checking"
                              [] c.pc = "hooked" -> IF c.op = "check" THEN "commit" ELSE "checked"
                              [] c.pc = "syncing" -> "commit")
    BY <1>5, ApplySyncMove
  <2>2. t.op = c.op /\ t.node = c.node
    BY <2>1 DEF SameBut
  <2>3. t.pc \in {"checking", "commit", "checked"} /\ (t.pc = "checking" => c.pc = "proved")
    BY <1>1, <2>1
  <2>4. Shape(w, t)
    BY <1>1, <1>2, <1>5, <2>1, <2>2, <2>3 DEF Shape
  <2>5. \A n : n \in Nodes => ~NoSnap[n].routable
    BY DEF NoSnap, NoEntry
  <2>6. RowThere(t)
    BY <1>2, <2>1, <2>2, <2>5 DEF RowThere, OnNode
  <2>7. ClosedFirst(t, pool'[Home[w]])
    <3>1. c.node \in Nodes
      BY <1>1, <1>5 DEF IInv, SessionInv
    <3> QED
      BY <1>1, <1>2, <2>1, <2>2, <2>5, <3>1, HomeType DEF ClosedFirst
  <2> QED
    BY <1>2, <1>3, <2>1, <2>2, <2>4, <2>6, <2>7, QuietAddress DEF dbVars, AddressInv, EnrolledOnce
<1> QED
  BY <1>4, <1>5

LEMMA ReadRegistryAddress ==
    ASSUME IInv, AddressInv, SoleHandler \/ NothingDeleted, NEW w \in Workers, ReadRegistry(w)
    PROVE  AddressInv'
<1>1. PICK t : Update(w, t) /\ Fresh(t, "syncing", "sync", NoNode) /\ t.snap = Committed
  BY ReadRegistryMove
<1>2. UNCHANGED <<status, ban, pool>>
  BY DEF ReadRegistry, dbVars
<1>3. t.pc = "syncing" /\ t.op = "sync" /\ t.node = NoNode /\ t.out.st = "keep" /\ ~t.out.pub
  BY <1>1 DEF Fresh, NoWrites
<1>4. \A n \in Nodes : t.snap[n].routable => Present(n)
  BY <1>1, CommittedOpens, RoutableIsPresent DEF Offered, Present
<1>5. Shape(w, t) /\ RowThere(t) /\ ClosedFirst(t, pool'[Home[w]])
  BY <1>3, <1>4 DEF Shape, RowThere, ClosedFirst, OnNode
<1> QED
  BY <1>1, <1>2, <1>3, <1>5, QuietAddress DEF AddressInv, PoolRegistered

\* A step of a handler that writes the row or the ban of its node.
LEMMA WritingAddress ==
    ASSUME IInv, AddressInv, SoleHandler \/ NothingDeleted, NEW w \in Workers,
           NEW n \in Nodes, NEW t, Update(w, t), UNCHANGED pool,
           t.op \in {"none", "sync"}, Shape(w, t), RowThere(t), ClosedFirst(t, pool[Home[w]]),
           \A m \in Nodes : t.snap[m].routable => FALSE,
           \A m \in Nodes \ {n} : status'[m] = status[m] /\ ban'[m] = ban[m],
           \/ Present(n) /\ (status'[n] = "deleted" => "delete" \in Jobs[w] /\ ~pool[Home[w]][n].routable)
                         /\ (status'[n] \in NoRow => status'[n] = "deleted")
           \/ ses[w].op = "enroll" /\ ses[w].node = n /\ status'[n] \notin NoRow /\ ban'[n] = ban[n]
    PROVE  AddressInv'
<1>1. \A v \in Workers : ses'[v] = IF v = w THEN t ELSE ses[v]
  BY DEF Update, IInv
<1>2. status'[n] \in NoRow => SoleHandler
  BY <1>1, RoutableIsPresent DEF NothingDeleted, AddressInv
<1>3. RowThere(ses[w])
  BY DEF AddressInv
<1>4. \A m \in Nodes \ {n} : Present(m) => EndpointOf[m] # EndpointOf[n] \/ status'[n] \in NoRow
  <2> SUFFICES ASSUME NEW m \in Nodes \ {n}, Present(m), EndpointOf[m] = EndpointOf[n], status'[n] \notin NoRow
               PROVE  FALSE
    OBVIOUS
  <2>1. CASE Present(n)
    BY <2>1 DEF AddressInv, RegisteredOnce
  <2>2. CASE ses[w].op = "enroll" /\ ses[w].node = n
    BY <1>3, <2>2 DEF RowThere, Present
  <2> QED
    BY <2>1, <2>2
<1>5. RegisteredOnce'
  BY <1>4 DEF AddressInv, RegisteredOnce, Present
<1>6. BannedEndpointClosed'
  <2> SUFFICES ASSUME NEW m \in Nodes, NEW k \in Nodes, m # k, EndpointOf[m] = EndpointOf[k],
                      ban'[m] \in {"permanent", "temporary"}, status'[k] \notin NoRow
               PROVE  FALSE
    BY DEF BannedEndpointClosed, Present
  <2>1. CASE Present(n)
    <3>1. CASE k = n
      BY <2>1, <3>1 DEF AddressInv, BannedEndpointClosed
    <3>2. CASE m = n
      BY <2>1, <3>2 DEF AddressInv, RegisteredOnce, Present
    <3>3. CASE k # n /\ m # n
      BY <3>3 DEF AddressInv, BannedEndpointClosed, Present
    <3> QED
      BY <3>1, <3>2, <3>3
  <2>2. CASE ses[w].op = "enroll" /\ ses[w].node = n /\ ban'[n] = ban[n]
    <3>1. CASE k = n
      BY <1>3, <2>2, <3>1 DEF RowThere
    <3>2. CASE k # n
      BY <2>2, <3>2 DEF AddressInv, BannedEndpointClosed, Present
    <3> QED
      BY <3>1, <3>2
  <2> QED
    BY <2>1, <2>2
<1>7. \A v \in Workers, m \in Nodes : pool[Home[v]][m].routable => status'[m] \notin NoRow
  <2> SUFFICES ASSUME NEW v \in Workers, NEW m \in Nodes, pool[Home[v]][m].routable
               PROVE  status'[m] \notin NoRow
    OBVIOUS
  <2>1. Present(m)
    BY DEF AddressInv, PoolRegistered
  <2>2. m = n => status'[n] \notin NoRow
    BY <1>2, <2>1 DEF SoleHandler
  <2> QED
    BY <2>1, <2>2 DEF Present
<1>8. EnrolledOnce'
  BY <1>1 DEF AddressInv, EnrolledOnce
<1>9. ASSUME NEW v \in Workers, v # w PROVE RowThere(ses[v])'
  <2>1. NothingDeleted
    BY <1>9 DEF SoleHandler
  <2>2. status'[n] \notin NoRow
    BY <2>1 DEF NothingDeleted
  <2>3. ses'[v] = ses[v] /\ RowThere(ses[v])
    BY <1>1, <1>9 DEF AddressInv
  <2>4. \A m \in Nodes : Present(m) => status'[m] \notin NoRow
    BY <2>2 DEF Present
  <2>5. OnNode(ses[v]) => status'[ses[v].node] \notin NoRow
    <3>1. ASSUME OnNode(ses[v]) PROVE ses[v].node \in Nodes
      BY <3>1 DEF OnNode, IInv, SessionInv, AddressInv, Shape
    <3> QED
      BY <2>3, <2>4, <3>1 DEF RowThere
  <2>6. ASSUME ses[v].op = "enroll", NEW m \in Nodes, EndpointOf[m] = EndpointOf[ses[v].node]
        PROVE  status'[m] \in NoRow /\ ban'[m] \in {"none", "elapsed"}
    <3>1. status[m] \in NoRow /\ ban[m] \in {"none", "elapsed"}
      BY <2>3, <2>6 DEF RowThere
    <3>2. m # n
      BY <1>9, <2>6, <3>1 DEF AddressInv, EnrolledOnce, Present
    <3> QED
      BY <3>1, <3>2
  <2>7. \A m \in Nodes : ses[v].snap[m].routable => status'[m] \notin NoRow
    BY <2>3, <2>4 DEF RowThere
  <2> QED
    BY <2>3, <2>5, <2>6, <2>7 DEF RowThere, OnNode, Present
<1>10. \A v \in Workers : Shape(v, ses[v])' /\ RowThere(ses[v])'
  <2>1. \A v \in Workers : Shape(v, ses[v])'
    BY <1>1 DEF AddressInv, Shape
  <2>2. RowThere(ses[w])'
    BY <1>1 DEF RowThere, OnNode
  <2> QED
    BY <1>9, <2>1, <2>2
<1>11. \A v \in Workers : ClosedFirst(ses'[v], pool'[Home[v]])
  BY <1>1 DEF AddressInv
<1>12. \A v \in Workers : ClosedFirst(ses[v], pool[Home[v]])'
  BY <1>11 DEF ClosedFirst
<1> QED
  BY <1>5, <1>6, <1>7, <1>8, <1>10, <1>12 DEF AddressInv, PoolRegistered, Present

LEMMA ProofFailedAddress ==
    ASSUME IInv, AddressInv, SoleHandler \/ NothingDeleted, NEW w \in Workers, ProofFailed(w)
    PROVE  AddressInv'
<1> DEFINE n == NodeOf(w)
<1>1. n \in Nodes
  BY UnderWay DEF ProofFailed, Writing, At
<1>2. /\ status' = [status EXCEPT ![n] = "quarantined"] /\ UNCHANGED <<ban, pool>>
      /\ Present(n) /\ Update(w, IdleSession)
  BY DEF ProofFailed, Writing, Finish
<1>3. status \in [Nodes -> NodeState \cup NoRow]
  BY DEF IInv, TablesInv
<1>4. status'[n] = "quarantined" /\ \A m \in Nodes \ {n} : status'[m] = status[m]
  BY <1>1, <1>2, <1>3
<1>5. IdleSession.op = "none" /\ \A m \in Nodes : ~IdleSession.snap[m].routable
  BY DEF IdleSession, NoSnap, NoEntry
<1>6. "quarantined" \notin NoRow
  BY DEF NoRow
<1> QED
  BY <1>1, <1>2, <1>4, <1>5, <1>6, IdleAddress, WritingAddress

LEMMA CommitAddress ==
    ASSUME IInv, AddressInv, SoleHandler \/ NothingDeleted, NEW w \in Workers, Commit(w)
    PROVE  AddressInv'
<1> DEFINE c == ses[w]
           n == c.node
<1>1. /\ c.pc = "commit" /\ n \in Nodes /\ UNCHANGED pool
      /\ \A m \in Nodes :
            /\ status'[m] = IF m = n /\ c.out.st # "keep" THEN c.out.st ELSE status[m]
            /\ ban'[m] = IF m = n /\ c.out.ban # "keep" THEN c.out.ban ELSE ban[m]
  BY CommitMove
<1>2. \/ Finish(w)
      \/ \E t : Update(w, t) /\ Fresh(t, "publish", "sync", NoNode) /\ t.snap = NoSnap
  BY CommitMove
<1>3. Shape(w, c) /\ RowThere(c) /\ ClosedFirst(c, pool[Home[w]]) /\ c.out \in Writes
  BY DEF AddressInv, IInv, Session
<1>4. \/ Present(n) /\ (status'[n] = "deleted" => "delete" \in Jobs[w] /\ ~pool[Home[w]][n].routable)
                    /\ (status'[n] \in NoRow => status'[n] = "deleted")
      \/ c.op = "enroll" /\ status'[n] \notin NoRow /\ ban'[n] = ban[n]
  <2>1. CASE OnNode(c)
    <3>1. Present(n)
      BY <1>3, <2>1 DEF RowThere
    <3>2. status'[n] = "deleted" => c.out.st = "deleted"
      BY <1>1, <3>1 DEF Present, NoRow
    <3>3. status'[n] \in NoRow => status'[n] = "deleted"
      BY <1>1, <1>3, <3>1 DEF Present, NoRow, Writes, NodeState
    <3> QED
      BY <1>3, <3>1, <3>2, <3>3 DEF ClosedFirst, Shape
  <2>2. CASE ~OnNode(c)
    <3>1. c.op = "enroll" /\ c.out.st = "consent_challenge_sent" /\ c.out.ban = "keep"
      BY <1>1, <1>3, <2>2 DEF OnNode, Shape
    <3> QED
      BY <1>1, <3>1 DEF NoRow
  <2> QED
    BY <2>1, <2>2
<1>5. PICK t : /\ Update(w, t) /\ t.op \in {"none", "sync"} /\ Shape(w, t) /\ RowThere(t)
               /\ ClosedFirst(t, pool[Home[w]])
               /\ \A m \in Nodes : ~t.snap[m].routable
  <2>1. CASE Finish(w)
    <3>1. IdleSession.op = "none" /\ \A m \in Nodes : ~IdleSession.snap[m].routable
      BY DEF IdleSession, NoSnap, NoEntry
    <3> QED
      BY <2>1, <3>1, IdleAddress DEF Finish
  <2>2. ASSUME NEW t, Update(w, t), Fresh(t, "publish", "sync", NoNode), t.snap = NoSnap
        PROVE  /\ t.op \in {"none", "sync"} /\ Shape(w, t) /\ RowThere(t)
               /\ ClosedFirst(t, pool[Home[w]])
               /\ \A m \in Nodes : ~t.snap[m].routable
    <3>1. t.pc = "publish" /\ t.op = "sync" /\ t.node = NoNode /\ t.out.st = "keep" /\ ~t.out.pub
      BY <2>2 DEF Fresh, NoWrites
    <3>2. \A m \in Nodes : ~t.snap[m].routable
      BY <2>2 DEF NoSnap, NoEntry
    <3> QED
      BY <3>1, <3>2 DEF Shape, RowThere, ClosedFirst, OnNode
  <2> QED
    BY <1>2, <2>1, <2>2
<1> QED
  BY <1>1, <1>4, <1>5, WritingAddress

LEMMA LapseAddress ==
    ASSUME IInv, AddressInv, NEW n \in Nodes, Lapse(n)
    PROVE  AddressInv'
<1>1. UNCHANGED <<status, ban, pool>>
  BY DEF Lapse
<1>2. ASSUME NEW v \in Workers
      PROVE  /\ ses'[v].pc = ses[v].pc /\ ses'[v].op = ses[v].op /\ ses'[v].node = ses[v].node
             /\ ses'[v].out = ses[v].out /\ ses'[v].snap = ses[v].snap
             /\ ses[v] = IdleSession => ses'[v] = IdleSession
  <2> DEFINE t == [ses[v] EXCEPT !.cons = LapseOf(ses[v].cons)]
  <2>1. ses[v] \in Session
    BY DEF IInv
  <2>2. t.pc = ses[v].pc /\ t.op = ses[v].op /\ t.node = ses[v].node /\ t.out = ses[v].out
        /\ t.snap = ses[v].snap
    BY <2>1, Zenon DEF Session
  <2>3. ses'[v] = IF ses[v].node = n THEN t ELSE ses[v]
    BY DEF Lapse
  <2>4. IdleSession.node # n
    BY RegistryAssumption DEF IdleSession
  <2> HIDE DEF t
  <2> QED
    BY <2>2, <2>3, <2>4
<1>3. \A v \in Workers : Shape(v, ses[v])'
  BY <1>2 DEF AddressInv, Shape
<1>4. \A v \in Workers : RowThere(ses[v])'
  BY <1>1, <1>2 DEF AddressInv, RowThere, OnNode, Present
<1>5. \A v \in Workers : ClosedFirst(ses[v], pool[Home[v]])'
  BY <1>1, <1>2 DEF AddressInv, ClosedFirst
<1>6. EnrolledOnce'
  BY <1>2 DEF AddressInv, EnrolledOnce
<1> QED
  BY <1>1, <1>3, <1>4, <1>5, <1>6
     DEF AddressInv, RegisteredOnce, BannedEndpointClosed, PoolRegistered, Present

LEMMA BanElapsesAddress ==
    ASSUME IInv, AddressInv, NEW n \in Nodes, BanElapses(n)
    PROVE  AddressInv'
<1>1. UNCHANGED <<status, pool, ses>>
  BY DEF BanElapses
<1>2. \A m \in Nodes : ban'[m] = IF m = n THEN "elapsed" ELSE ban[m]
  BY DEF BanElapses, IInv, TablesInv
<1>3. \A v \in Workers : Shape(v, ses[v])' /\ RowThere(ses[v])' /\ ClosedFirst(ses[v], pool[Home[v]])'
  BY <1>1, <1>2 DEF AddressInv, Shape, RowThere, ClosedFirst, OnNode, Present
<1> QED
  BY <1>1, <1>2, <1>3
     DEF AddressInv, RegisteredOnce, BannedEndpointClosed, PoolRegistered, EnrolledOnce, Present

LEMMA RestartAddress ==
    ASSUME IInv, AddressInv, SoleHandler \/ NothingDeleted, NEW p \in Procs, Restart(p)
    PROVE  AddressInv'
<1>1. UNCHANGED <<status, ban>> /\ \A v \in Workers : ses'[v] = IF Home[v] = p THEN IdleSession ELSE ses[v]
  BY DEF Restart, dbVars
<1>2. \A q \in Procs : pool'[q] = IF q = p THEN Committed ELSE pool[q]
  BY DEF Restart, IInv, PoolInv
<1>3. \A n \in Nodes : Committed[n].routable => Present(n)
  BY CommittedOpens, RoutableIsPresent DEF Offered, Present
<1>4. PoolRegistered'
  BY <1>1, <1>2, <1>3, HomeType DEF AddressInv, PoolRegistered, Present
<1>5. ASSUME NEW v \in Workers
      PROVE  Shape(v, ses'[v]) /\ RowThere(ses'[v]) /\ ClosedFirst(ses'[v], pool'[Home[v]])
  BY <1>1, <1>2, IdleAddress, HomeType DEF AddressInv
<1>6. \A v \in Workers : Shape(v, ses[v])' /\ RowThere(ses[v])' /\ ClosedFirst(ses[v], pool[Home[v]])'
  BY <1>1, <1>5 DEF Shape, RowThere, ClosedFirst, OnNode, Present
<1>7. EnrolledOnce'
  BY <1>1 DEF AddressInv, EnrolledOnce, IdleSession
<1> QED
  BY <1>1, <1>4, <1>6, <1>7 DEF AddressInv, RegisteredOnce, BannedEndpointClosed, Present

LEMMA AddressInit == Init => AddressInv
<1> SUFFICES ASSUME Init PROVE AddressInv
  OBVIOUS
<1>1. \A n \in Nodes : ~Present(n)
  BY DEF Init, Present, NoRow
<1>2. \A v \in Workers, n \in Nodes : ~pool[Home[v]][n].routable
  BY HomeType DEF Init, NoSnap, NoEntry
<1>3. \A v \in Workers : ses[v] = IdleSession
  BY DEF Init
<1> QED
  BY <1>1, <1>2, <1>3, IdleAddress
     DEF AddressInv, RegisteredOnce, BannedEndpointClosed, PoolRegistered, EnrolledOnce, IdleSession

LEMMA WorkerAddress ==
    ASSUME IInv, AddressInv, SoleHandler \/ NothingDeleted, NEW w \in Workers, WorkerStep(w)
    PROVE  AddressInv'
<1>1. CASE \E n \in Nodes : Enroll(w, n) \/ \E op \in Jobs[w] : Begin(w, op, n)
  BY <1>1, EnrollAddress, BeginAddress
<1>2. CASE AtOnce(w)
  BY <1>2, HandlerAddress
<1>3. CASE ProofFailed(w) \/ ProofPassed(w)
  BY <1>3, ProofFailedAddress, ProofPassedAddress
<1>4. CASE ReadConsent(w) \/ CheckNode(w) \/ Resync(w)
  BY <1>4, ReadConsentAddress, CheckNodeAddress, ResyncAddress
<1>5. CASE ApplySync(w) \/ Commit(w) \/ ReadRegistry(w)
  BY <1>5, ApplySyncAddress, CommitAddress, ReadRegistryAddress
<1>6. CASE ProofInconclusive(w) \/ Vanish(w) \/ Fail(w)
  <2>1. Finish(w) /\ UNCHANGED <<status, ban, pool>>
    BY <1>6 DEF ProofInconclusive, Vanish, Fail, dbVars
  <2> QED
    BY <2>1, FinishAddress DEF AddressInv, PoolRegistered
<1> QED
  BY <1>1, <1>2, <1>3, <1>4, <1>5, <1>6 DEF WorkerStep, AtOnce

LEMMA SameAddress ==
    ASSUME AddressInv, UNCHANGED <<status, ban, pool, ses>>
    PROVE  AddressInv'
BY DEF AddressInv, RegisteredOnce, BannedEndpointClosed, PoolRegistered, EnrolledOnce, Shape,
       RowThere, ClosedFirst, OnNode, Present

LEMMA RequestAddress ==
    ASSUME IInv, AddressInv, SoleHandler \/ NothingDeleted, NEW r \in Requests, RequestStep(r)
    PROVE  AddressInv'
<1>1. CASE UNCHANGED <<dbVars, pool, ses>>
  BY <1>1, SameAddress DEF dbVars
<1>2. CASE \E w \in Workers : Refused(r, w)
  BY <1>2, RefusedAddress
<1> QED
  BY <1>1, <1>2 DEF RequestStep, PickNode, Fanout, Decide, Retry, EndRequest

LEMMA AddressNext == (SoleHandler \/ NothingDeleted) /\ IInv /\ AddressInv /\ [Next]_vars => AddressInv'
<1> SUFFICES ASSUME SoleHandler \/ NothingDeleted, IInv, AddressInv, [Next]_vars PROVE AddressInv'
  OBVIOUS
<1>1. CASE UNCHANGED vars
  BY <1>1, SameAddress DEF vars
<1>2. CASE Environment
  BY <1>2, LapseAddress, BanElapsesAddress, RestartAddress DEF Environment
<1> QED
  BY <1>1, <1>2, WorkerAddress, RequestAddress DEF Next

\* What register relies on when it looks for the endpoint among the rows and the
\* bans (is_endpoint_blocked) before it adds a row: while nobody deletes a row under
\* a ban that is being written, no later id gets the banned address.
THEOREM BannedAddressesClosed ==
    ASSUME SoleHandler \/ NothingDeleted
    PROVE  Spec => []BannedEndpointClosed
<1>1. AddressInv => BannedEndpointClosed
  BY DEF AddressInv
<1>2. IInv /\ AddressInv /\ [Next]_vars => AddressInv'
  BY AddressNext
<1> QED
  BY <1>1, <1>2, AddressInit, Invariance, PTL DEF Spec

-----------------------------------------------------------------------------
(* The pool between handlers                                                *)

AllAtHome == \A p \in Procs, w \in Workers : Home[w] = p

\* A pool entry and the rows it stands for, up to the exceptions.
Agrees(open, st, co) ==
    /\ st \in RoutableStates /\ co = "verified" => open
    /\ open => \/ st \in RoutableStates /\ co \in {"verified", "lapsed"}
               \/ st \in {"quarantined", "blacklisted"} /\ co = "failed"

\* A snapshot entry: only a lapse since tells it from the rows.
Fits(open, st, co) ==
    /\ st \in RoutableStates /\ co = "verified" => open
    /\ open => st \in RoutableStates /\ co \in {"verified", "lapsed"}

\* The rows of its node as the session will leave them.
StToBe(s, st) == IF s.out.st = "keep" THEN st[s.node] ELSE s.out.st
CoToBe(s, co) ==
    IF s.out.co = "keep" THEN co[s.node]
    ELSE IF s.out.co # "renew" THEN s.out.co
    ELSE IF co[s.node] \in StillVerified THEN "verified" ELSE co[s.node]

\* What it has loaded is what the tables hold: nobody else writes.
Reads(s, st, co) ==
    /\ s.cons # "unread" => s.cons = co[s.node] /\ s.op # "sync"
    /\ s.op \in {"check", "force"} => s.row = st[s.node]
    /\ s.out.co = "renew" => s.cons \in StillVerified
    /\ s.op \notin {"none", "sync", "check", "force"} /\ s.pc # "begun" => s.out.st # "keep"

\* A background check writes nothing before its verdict but the end of a lapsed consent.
Checks(s, co) ==
    s.op = "check" =>
        /\ s.out.co = "expired" => co[s.node] = "lapsed"
        /\ s.pc = "checking" => /\ s.out.st = "keep"
                                /\ s.out.co \in {"keep", "expired"}
                                /\ s.cons = "unread" => s.out.co = "keep"

\* What the next pass will put into the pool.
Snapped(s, st, co) ==
    /\ s.pc \in {"proved", "hooked", "syncing"} =>
          \A n \in Nodes \ {s.node} : Fits(s.snap[n].routable, st[n], co[n])
    /\ s.pc = "syncing" /\ s.op # "sync" =>
          Fits(s.snap[s.node].routable, StToBe(s, st), CoToBe(s, co))
    /\ s.pc = "hooked" /\ s.op = "check" /\ ~s.out.pub =>
          Agrees(s.snap[s.node].routable, StToBe(s, st), CoToBe(s, co))

\* What the pool holds of the node: what the registry holds when the handler begins,
\* what it will hold when the handler is about to commit.
Pooled(s, pl, st, co) ==
    /\ s.pc = "commit" /\ ~s.out.pub =>
          Agrees(pl[s.node].routable, StToBe(s, st), CoToBe(s, co))
    /\ (s.pc = "begun" /\ s.op # "autoban") \/ (s.pc = "checking" /\ s.op = "check") =>
          Agrees(pl[s.node].routable, st[s.node], co[s.node])

SoleInv(s, pl, st, co) ==
    Reads(s, st, co) /\ Checks(s, co) /\ Snapped(s, st, co) /\ Pooled(s, pl, st, co)

OthersFit(s, pl, st, co) ==
    s.op # "sync" => \A n \in Nodes \ {s.node} : Agrees(pl[n].routable, st[n], co[n])

\* The nodes no handler is on.
OthersAgree ==
    \A p \in Procs, n \in Nodes :
        (\A w \in Workers : ses[w].node # n /\ ses[w].op # "sync")
        => Agrees(pool[p][n].routable, status[n], consent[n])

SettledInv ==
    /\ OthersAgree
    /\ \A w \in Workers : SoleInv(ses[w], pool[Home[w]], status, consent)

SoleServer == SoleHandler /\ AllAtHome /\ ~Faults
AllInv == IInv /\ AllCarry /\ AddressInv /\ SettledInv

LEMMA FitsAgrees == \A b, st, co : Fits(b, st, co) => Agrees(b, st, co)
BY DEF Fits, Agrees

\* A lapse leaves agreement as it is.
LEMMA LapseAgrees ==
    \A b, st, co : /\ Agrees(b, st, co) => Agrees(b, st, LapseOf(co))
                   /\ Fits(b, st, co) => Fits(b, st, LapseOf(co))
BY DEF Fits, Agrees, LapseOf

LEMMA SoleFit ==
    ASSUME SoleServer, AllInv, NEW w \in Workers
    PROVE  /\ OthersFit(ses[w], pool[Home[w]], status, consent)
           /\ SoleInv(ses[w], pool[Home[w]], status, consent)
           /\ Shape(w, ses[w]) /\ RowThere(ses[w]) /\ SessionInv(ses[w], proved) /\ Carries(ses[w])
<1>1. Home[w] \in Procs /\ \A v \in Workers : v = w
  BY HomeType DEF SoleServer, SoleHandler
<1> QED
  BY <1>1 DEF AllInv, SettledInv, OthersAgree, OthersFit, AddressInv, IInv, AllCarry

\* The step of the sole worker.
LEMMA SoleStep ==
    ASSUME SoleServer, AllInv, NEW w \in Workers, NEW t, Update(w, t),
           OthersFit(t, pool'[Home[w]], status', consent'),
           SoleInv(t, pool'[Home[w]], status', consent')
    PROVE  SettledInv'
<1>1. \A v \in Workers : v = w /\ ses'[v] = t
  BY DEF SoleServer, SoleHandler, Update, AllInv, IInv
<1>2. OthersAgree'
  <2> SUFFICES ASSUME NEW p \in Procs, NEW n \in Nodes, t.node # n, t.op # "sync"
               PROVE  Agrees(pool'[p][n].routable, status'[n], consent'[n])
    BY <1>1 DEF OthersAgree
  <2>1. p = Home[w]
    BY DEF SoleServer, AllAtHome
  <2> QED
    BY <2>1 DEF OthersFit
<1> QED
  BY <1>1, <1>2 DEF SettledInv

\* Idle again, with a pool that agrees everywhere.
LEMMA SoleFinish ==
    ASSUME SoleServer, AllInv, NEW w \in Workers, Finish(w),
           \A n \in Nodes : Agrees(pool'[Home[w]][n].routable, status'[n], consent'[n])
    PROVE  SettledInv'
<1>1. SoleInv(IdleSession, pool'[Home[w]], status', consent')
  BY DEF SoleInv, Reads, Checks, Snapped, Pooled, IdleSession, NoWrites
<1>2. OthersFit(IdleSession, pool'[Home[w]], status', consent')
  BY DEF OthersFit
<1> QED
  BY <1>1, <1>2, SoleStep DEF Finish

\* While no handler is under way the pool agrees with the registry.
LEMMA IdleFits ==
    ASSUME SoleServer, AllInv, NEW w \in Workers, ses[w].pc = "idle"
    PROVE  \A n \in Nodes : Agrees(pool[Home[w]][n].routable, status[n], consent[n])
<1>1. ses[w].op = "none" /\ ses[w].node = NoNode
  BY SoleFit DEF Shape, IdleSession
<1> QED
  BY <1>1, SoleFit, RegistryAssumption DEF OthersFit

\* The view of a session that has loaded the rows as they are is what it will leave.
LEMMA ViewFits ==
    ASSUME NEW t, ViewOpens(t), Reads(t, status, consent),
           t.out.st # "keep" \/ t.op \in {"check", "force"}
    PROVE  /\ \A n \in Nodes \ {t.node} : Fits(t.snap[n].routable, status[n], consent[n])
           /\ t.node \in Nodes =>
                 Fits(t.snap[t.node].routable, StToBe(t, status), CoToBe(t, consent))
<1>1. RowSeen(t) = StToBe(t, status)
  BY DEF RowSeen, StToBe, Reads
<1>2. ConsentSeen(t) = CoToBe(t, consent)
  BY DEF ConsentSeen, CoToBe, Reads, StillVerified
<1> QED
  BY <1>1, <1>2 DEF ViewOpens, Fits

\* A session about to resynchronise.
LEMMA SyncingFits ==
    ASSUME NEW t, ViewOpens(t), Reads(t, status, consent), Checks(t, consent),
           t.pc = "syncing", t.node \in Nodes,
           t.out.st # "keep" \/ t.op \in {"check", "force"}, NEW pl
    PROVE  SoleInv(t, pl, status, consent)
BY ViewFits DEF SoleInv, Snapped, Pooled

LEMMA EnrollSettled ==
    ASSUME SoleServer, AllInv, NEW w \in Workers, NEW n \in Nodes, Enroll(w, n)
    PROVE  SettledInv'
<1>1. PICK t : /\ Update(w, t) /\ ViewOpens(t)
               /\ t.pc = "syncing" /\ t.op = "enroll" /\ t.node = n /\ t.cons = "unread"
               /\ Puts(t.out, "consent_challenge_sent", "challenge_sent", "keep")
  BY EnrollMove DEF AllInv
<1>2. UNCHANGED <<status, consent, pool>> /\ ses[w].pc = "idle"
  BY DEF Enroll, dbVars, CanStart
<1>3. t.out.st = "consent_challenge_sent" /\ t.out.co = "challenge_sent"
  BY <1>1 DEF Puts
<1>4. Reads(t, status, consent) /\ Checks(t, consent)
  BY <1>1, <1>3 DEF Reads, Checks
<1>5. SoleInv(t, pool[Home[w]], status, consent)
  BY <1>1, <1>3, <1>4, SyncingFits
<1>6. OthersFit(t, pool[Home[w]], status, consent)
  BY <1>2, IdleFits DEF OthersFit
<1> QED
  BY <1>1, <1>2, <1>5, <1>6, SoleStep

LEMMA BeginSettled ==
    ASSUME SoleServer, AllInv, NEW w \in Workers, NEW n \in Nodes, NEW op \in Jobs[w], Begin(w, op, n)
    PROVE  SettledInv'
<1>1. PICK t : /\ Update(w, t)
               /\ t.pc = (IF op \in LoadsRow THEN "checking" ELSE "begun")
               /\ t.op = op /\ t.node = n /\ t.out = NoWrites
               /\ op \in LoadsRow => t.row = status[n]
               /\ t.cons = (IF op \in LoadsConsent THEN consent[n] ELSE "unread")
  BY BeginMove
<1>2. UNCHANGED <<status, consent, pool>> /\ ses[w].pc = "idle"
  BY DEF Begin, dbVars, CanStart
<1>3. t.out.st = "keep" /\ t.out.co = "keep" /\ ~t.out.pub
  BY <1>1 DEF NoWrites
<1>4. Reads(t, status, consent) /\ Checks(t, consent) /\ Snapped(t, status, consent)
  BY <1>1, <1>3 DEF Reads, Checks, Snapped, LoadsRow, Begin, MayBegin
<1>5. Pooled(t, pool[Home[w]], status, consent)
  BY <1>1, <1>2, IdleFits DEF Pooled
<1>6. OthersFit(t, pool[Home[w]], status, consent)
  BY <1>2, IdleFits DEF OthersFit
<1> QED
  BY <1>1, <1>2, <1>4, <1>5, <1>6, SoleStep DEF SoleInv

LEMMA RefusedSettled ==
    ASSUME SoleServer, AllInv, NEW w \in Workers, NEW r \in Requests, Refused(r, w)
    PROVE  SettledInv'
<1> DEFINE n == req[r].node
<1>1. n \in Nodes /\ PoolCloses(n) /\ UNCHANGED dbVars /\ ses[w].pc = "idle"
  BY RefusedMove DEF AllInv
<1>2. PICK t : Update(w, t) /\ Fresh(t, "begun", "autoban", n) /\ t.snap = NoSnap
  BY RefusedMove DEF AllInv
<1>3. t.pc = "begun" /\ t.op = "autoban" /\ t.node = n /\ t.cons = "unread" /\ t.out.co = "keep"
  BY <1>2 DEF Fresh, NoWrites
<1>4. SoleInv(t, pool'[Home[w]], status', consent')
  BY <1>3 DEF SoleInv, Reads, Checks, Snapped, Pooled
<1>5. Home[w] \in Procs
  BY HomeType
<1>6. \A m \in Nodes \ {n} : pool'[Home[w]][m] = pool[Home[w]][m]
  BY <1>1, <1>5 DEF PoolCloses
<1>7. OthersFit(t, pool'[Home[w]], status', consent')
  BY <1>1, <1>3, <1>6, IdleFits DEF OthersFit, dbVars
<1> QED
  BY <1>2, <1>4, <1>7, SoleStep

\* A step that leaves the tables alone and at most closes its own node in the pool.
LEMMA KeptFits ==
    ASSUME SoleServer, AllInv, NEW w \in Workers, NEW t, SameBut(ses[w], t), ses[w].op # "sync",
           UNCHANGED dbVars, PoolCloses(NodeOf(w))
    PROVE  OthersFit(t, pool'[Home[w]], status', consent')
<1>1. Home[w] \in Procs /\ t.node = NodeOf(w) /\ NodeOf(w) = ses[w].node
  BY HomeType DEF SameBut, NodeOf
<1>2. \A m \in Nodes \ {t.node} : pool'[Home[w]][m] = pool[Home[w]][m]
  BY <1>1 DEF PoolCloses
<1> QED
  BY <1>1, <1>2, SoleFit DEF OthersFit, dbVars

LEMMA HandlerSettled ==
    ASSUME SoleServer, AllInv, NEW w \in Workers, AtOnce(w)
    PROVE  SettledInv'
<1> DEFINE c == ses[w]
<1>1. /\ UNCHANGED dbVars /\ PoolCloses(NodeOf(w))
      /\ c.pc = "begun" /\ NodeOf(w) \in Nodes /\ c.op \in HandlerOps
      /\ c.op \notin Closers => UNCHANGED pool
      /\ \/ Finish(w) /\ c.op = "lift"
         \/ \E out : WriteOut(w, out) /\ HandlerPuts(w, out)
  BY HandlerWrites DEF AllInv
<1>2. /\ OthersFit(c, pool[Home[w]], status, consent) /\ SoleInv(c, pool[Home[w]], status, consent)
      /\ Present(NodeOf(w)) /\ NodeOf(w) = c.node
  BY <1>1, SoleFit DEF RowThere, OnNode, NodeOf, HandlerOps
<1>3. CASE Finish(w) /\ c.op = "lift"
  <2>1. UNCHANGED <<status, consent, pool>>
    BY <1>1, <1>3 DEF Closers, dbVars
  <2>2. Agrees(pool[Home[w]][c.node].routable, status[c.node], consent[c.node])
    BY <1>1, <1>2, <1>3 DEF SoleInv, Pooled
  <2>3. \A n \in Nodes : Agrees(pool[Home[w]][n].routable, status[n], consent[n])
    BY <1>2, <1>3, <2>2 DEF OthersFit
  <2> QED
    BY <1>3, <2>1, <2>3, SoleFinish
<1>4. ASSUME NEW out, WriteOut(w, out), HandlerPuts(w, out) PROVE SettledInv'
  <2>1. out \in Writes /\ out.co # "renew"
    BY <1>4 DEF HandlerPuts, Puts
  <2>2. out.st # "keep"
    BY <1>2, <1>4 DEF HandlerPuts, Puts, StatusIfPresent
  <2>3. PICK t : Update(w, t) /\ Wrote(c, t, out)
    BY <1>4, <2>1, WriteOutFields DEF AllInv
  <2>4. /\ t.pc = "syncing" /\ t.op = c.op /\ t.node = c.node /\ t.row = c.row /\ t.cons = c.cons
        /\ t.out = out /\ ViewOpens(t) /\ SameBut(c, t)
    BY <2>3 DEF Wrote, SameBut
  <2>5. Reads(t, status, consent) /\ Checks(t, consent)
    BY <1>1, <1>2, <2>1, <2>2, <2>4 DEF SoleInv, Reads, Checks, HandlerOps
  <2>6. SoleInv(t, pool'[Home[w]], status, consent)
    BY <1>1, <1>2, <2>2, <2>4, <2>5, SyncingFits
  <2>7. OthersFit(t, pool'[Home[w]], status', consent')
    BY <1>1, <2>4, KeptFits DEF HandlerOps
  <2> QED
    BY <1>1, <2>3, <2>6, <2>7, SoleStep DEF dbVars
<1> QED
  BY <1>1, <1>3, <1>4

LEMMA ProofFailedSettled ==
    ASSUME SoleServer, AllInv, NEW w \in Workers, ProofFailed(w)
    PROVE  SettledInv'
<1> DEFINE c == ses[w]
           n == NodeOf(w)
<1>1. c.pc = "begun" /\ c.op = "verify" /\ n = c.node /\ Finish(w) /\ UNCHANGED pool
  BY DEF ProofFailed, Writing, At, NodeOf
<1>2. n \in Nodes
  BY <1>1, UnderWay DEF AllInv
<1>3. status'[n] = "quarantined" /\ \A m \in Nodes \ {n} : status'[m] = status[m]
  BY <1>2 DEF ProofFailed, AllInv, IInv, TablesInv
<1>4. consent'[n] = "failed" /\ \A m \in Nodes \ {n} : consent'[m] = consent[m]
  <2>1. consent'[n] = (IF c.cons = "failed" THEN consent[n] ELSE "failed")
        /\ \A m \in Nodes \ {n} : consent'[m] = consent[m]
    BY <1>2 DEF ProofFailed, AllInv, IInv, TablesInv
  <2>2. c.cons = "failed" => consent[n] = "failed"
    BY <1>1, SoleFit DEF SoleInv, Reads
  <2> QED
    BY <2>1, <2>2
<1>5. "quarantined" \notin RoutableStates
  BY DEF RoutableStates
<1>6. \A m \in Nodes : Agrees(pool'[Home[w]][m].routable, status'[m], consent'[m])
  <2>1. Agrees(pool'[Home[w]][n].routable, status'[n], consent'[n])
    BY <1>3, <1>4, <1>5 DEF Agrees
  <2>2. \A m \in Nodes \ {n} : Agrees(pool[Home[w]][m].routable, status[m], consent[m])
    BY <1>1, SoleFit DEF OthersFit
  <2> QED
    BY <1>1, <1>3, <1>4, <2>1, <2>2
<1> QED
  BY <1>1, <1>6, SoleFinish

LEMMA ProofPassedSettled ==
    ASSUME SoleServer, AllInv, NEW w \in Workers, ProofPassed(w)
    PROVE  SettledInv'
<1> DEFINE c == ses[w]
<1>1. PICK t : /\ Update(w, t) /\ ViewOpens(t) /\ SameBut(c, t)
               /\ t.pc = "proved" /\ t.cons = c.cons /\ t.out.st = "verified"
               /\ t.out.co = (IF c.cons \in StillVerified THEN "renew" ELSE "verified")
  BY ProofPassedMove DEF AllInv
<1>2. c.op = "verify" /\ UNCHANGED dbVars /\ UNCHANGED pool
  BY DEF ProofPassed, Writing, At
<1>3. t.op = "verify" /\ t.node = c.node
  BY <1>1, <1>2 DEF SameBut
<1>4. SoleInv(c, pool[Home[w]], status, consent)
  BY SoleFit
<1>5. Reads(t, status, consent) /\ Checks(t, consent)
  BY <1>1, <1>3, <1>4 DEF SoleInv, Reads, Checks
<1>6. Snapped(t, status, consent) /\ Pooled(t, pool[Home[w]], status, consent)
  BY <1>1, <1>3, <1>5, ViewFits DEF Snapped, Pooled
<1>7. OthersFit(t, pool'[Home[w]], status', consent')
  BY <1>1, <1>2, PoolKeptCloses, KeptFits
<1> QED
  BY <1>1, <1>2, <1>5, <1>6, <1>7, SoleStep DEF dbVars, SoleInv

LEMMA ReadConsentSettled ==
    ASSUME SoleServer, AllInv, NEW w \in Workers, ReadConsent(w)
    PROVE  SettledInv'
<1> DEFINE c == ses[w]
           co == consent[NodeOf(w)]
<1>1. PICK t : /\ Update(w, t) /\ SameBut(c, t) /\ t.pc = "checking" /\ t.cons = co
               /\ t.out.co = (IF co = "lapsed" THEN "expired" ELSE "keep")
               /\ t.out.st = c.out.st
  BY ReadConsentMove DEF AllInv
<1>2. c.op \in {"check", "force"} /\ c.pc = "checking" /\ UNCHANGED dbVars /\ UNCHANGED pool
  BY DEF ReadConsent
<1>3. t.op = c.op /\ t.node = c.node /\ t.row = c.row /\ c.node = NodeOf(w) /\ NodeOf(w) \in Nodes
  BY <1>1, <1>2, UnderWay DEF SameBut, NodeOf, AllInv
<1>4. SoleInv(c, pool[Home[w]], status, consent) /\ co \in ConsentStatus
  BY <1>3, SoleFit DEF AllInv, IInv, TablesInv
<1>5. Reads(t, status, consent) /\ Checks(t, consent)
  BY <1>1, <1>2, <1>3, <1>4 DEF SoleInv, Reads, Checks, ConsentStatus
<1>6. Snapped(t, status, consent) /\ Pooled(t, pool[Home[w]], status, consent)
  BY <1>1, <1>2, <1>3, <1>4 DEF SoleInv, Snapped, Pooled
<1>7. OthersFit(t, pool'[Home[w]], status', consent')
  BY <1>1, <1>2, PoolKeptCloses, KeptFits
<1> QED
  BY <1>1, <1>2, <1>5, <1>6, <1>7, SoleStep DEF dbVars, SoleInv

LEMMA CheckNodeSettled ==
    ASSUME SoleServer, AllInv, NEW w \in Workers, CheckNode(w)
    PROVE  SettledInv'
<1> DEFINE c == ses[w]
<1>1. PICK verdict \in Verdicts(c) :
      \E target \in CheckTargets(RowSeen(c), verdict) : \E t :
         LET moved == target \notin {"keep", RowSeen(c)}
             banned == target = "blacklisted" IN
         /\ Update(w, t) /\ SameBut(c, t) /\ t.cons = c.cons
         /\ t.pc = (IF moved THEN "hooked" ELSE IF c.op = "check" THEN "commit" ELSE "checked")
         /\ t.snap = (IF moved THEN Committed ELSE NoSnap)
         /\ t.out.st = (IF moved THEN target ELSE c.out.st)
         /\ t.out.co = (IF banned /\ ConsentSeen(c) \in StillVerified THEN "failed" ELSE c.out.co)
         /\ t.out.pub <=> c.op = "check" /\ target \notin {"keep", "blacklisted"}
  BY CheckNodeMove DEF AllInv
<1>2. PICK target \in CheckTargets(RowSeen(c), verdict) : \E t :
         LET moved == target \notin {"keep", RowSeen(c)}
             banned == target = "blacklisted" IN
         /\ Update(w, t) /\ SameBut(c, t) /\ t.cons = c.cons
         /\ t.pc = (IF moved THEN "hooked" ELSE IF c.op = "check" THEN "commit" ELSE "checked")
         /\ t.snap = (IF moved THEN Committed ELSE NoSnap)
         /\ t.out.st = (IF moved THEN target ELSE c.out.st)
         /\ t.out.co = (IF banned /\ ConsentSeen(c) \in StillVerified THEN "failed" ELSE c.out.co)
         /\ t.out.pub <=> c.op = "check" /\ target \notin {"keep", "blacklisted"}
  BY <1>1
<1> DEFINE moved == target \notin {"keep", RowSeen(c)}
           banned == target = "blacklisted"
<1>3. PICK t :
         /\ Update(w, t) /\ SameBut(c, t) /\ t.cons = c.cons
         /\ t.pc = (IF moved THEN "hooked" ELSE IF c.op = "check" THEN "commit" ELSE "checked")
         /\ t.snap = (IF moved THEN Committed ELSE NoSnap)
         /\ t.out.st = (IF moved THEN target ELSE c.out.st)
         /\ t.out.co = (IF banned /\ ConsentSeen(c) \in StillVerified THEN "failed" ELSE c.out.co)
         /\ t.out.pub <=> c.op = "check" /\ target \notin {"keep", "blacklisted"}
  BY <1>2
<1>4. c.pc = "checking" /\ UNCHANGED dbVars /\ UNCHANGED pool
  BY DEF CheckNode
<1>5. t.op = c.op /\ t.node = c.node /\ t.row = c.row /\ c.node \in Nodes
  BY <1>3, <1>4, UnderWay DEF SameBut, NodeOf, AllInv
<1>6. /\ Reads(c, status, consent) /\ Checks(c, consent) /\ Pooled(c, pool[Home[w]], status, consent)
      /\ c.op \in {"check", "force", "verify"} /\ Carries(c)
  BY <1>4, SoleFit DEF SoleInv, Shape
<1>7. Reads(t, status, consent)
  BY <1>3, <1>4, <1>5, <1>6 DEF Reads
<1>8. Checks(t, consent)
  BY <1>3, <1>5, <1>6 DEF Checks
<1>9. c.op = "check" => RowSeen(c) = status[c.node] /\ c.row = status[c.node]
                        /\ c.out.st = "keep" /\ c.out.co \in {"keep", "expired"}
  BY <1>4, <1>6 DEF Checks, Reads, RowSeen
<1>10. c.op = "check" /\ c.out.co = "keep" => ConsentSeen(c) = consent[c.node]
  BY <1>6 DEF Reads, ConsentSeen
<1>11. Snapped(t, status, consent)
  <2>1. \A n \in Nodes : t.pc = "hooked" => (t.snap[n].routable <=> Offered(n))
    BY <1>3, CommittedOpens
  <2>2. t.pc = "hooked" => \A n \in Nodes : Fits(t.snap[n].routable, status[n], consent[n])
    BY <2>1 DEF Fits, Offered
  <2>3. ASSUME t.pc = "hooked", t.op = "check", ~t.out.pub
        PROVE  Agrees(t.snap[t.node].routable, StToBe(t, status), CoToBe(t, consent))
    <3>1. target = "blacklisted" /\ t.out.st = "blacklisted"
      BY <1>3, <1>5, <2>3
    <3>2. t.snap[t.node].routable => consent[t.node] = "verified"
      BY <1>5, <2>1, <2>3 DEF Offered
    <3>3. consent[t.node] = "verified" => t.out.co = "failed"
      BY <1>3, <1>5, <1>6, <1>9, <1>10, <2>3, <3>1 DEF Checks, StillVerified
    <3>4. "blacklisted" \notin RoutableStates
      BY DEF RoutableStates
    <3> QED
      BY <3>1, <3>2, <3>3, <3>4 DEF Agrees, StToBe, CoToBe
  <2> QED
    BY <1>3, <2>2, <2>3 DEF Snapped
<1>12. Pooled(t, pool[Home[w]], status, consent)
  <2>1. ASSUME t.pc = "commit", ~t.out.pub
        PROVE  Agrees(pool[Home[w]][t.node].routable, StToBe(t, status), CoToBe(t, consent))
    <3>1. c.op = "check" /\ target \in {"keep", "blacklisted"} /\ target \in {"keep", RowSeen(c)}
      <4>1. ~moved /\ c.op = "check"
        BY <1>3, <2>1
      <4>2. ~(c.op = "check" /\ target \notin {"keep", "blacklisted"})
        BY <1>3, <2>1, Zenon
      <4> QED
        BY <4>1, <4>2
    <3>2. c.row # "blacklisted"
      BY <1>6, <3>1 DEF Carries, ActiveHealthCheckStates, RoutableStates
    <3>3. target = "keep"
      BY <1>9, <3>1, <3>2
    <3>4. verdict # "broken"
      BY <3>3 DEF CheckTargets
    <3>5. c.out.co = "keep"
      <4>1. c.out.co = "expired" => c.cons # "unread" /\ ConsentSeen(c) = "expired"
        BY <1>4, <1>6, <3>1 DEF Checks, ConsentSeen
      <4>2. c.out.co = "expired" => verdict = "broken"
        BY <4>1 DEF Verdicts
      <4> QED
        BY <1>9, <3>1, <3>4, <4>2
    <3>6. t.out.st = "keep" /\ t.out.co = "keep"
      BY <1>3, <1>9, <3>1, <3>3, <3>5
    <3>7. Agrees(pool[Home[w]][c.node].routable, status[c.node], consent[c.node])
      BY <1>4, <1>6, <3>1 DEF Pooled
    <3> QED
      BY <1>5, <3>6, <3>7 DEF StToBe, CoToBe
  <2> QED
    BY <1>3, <2>1 DEF Pooled
<1>13. OthersFit(t, pool'[Home[w]], status', consent')
  BY <1>3, <1>4, <1>6, PoolKeptCloses, KeptFits
<1> QED
  BY <1>3, <1>4, <1>7, <1>8, <1>11, <1>12, <1>13, SoleStep DEF dbVars, SoleInv

LEMMA ResyncSettled ==
    ASSUME SoleServer, AllInv, NEW w \in Workers, Resync(w)
    PROVE  SettledInv'
<1> DEFINE c == ses[w]
<1>1. PICK t : Update(w, t) /\ Wrote(c, t, c.out)
  BY ResyncMove DEF AllInv
<1>2. PoolCloses(NodeOf(w)) /\ NodeOf(w) \in Nodes /\ c.pc = "checked" /\ UNCHANGED dbVars
  BY ResyncMove DEF Resync, AllInv
<1>3. /\ t.pc = "syncing" /\ t.op = c.op /\ t.node = NodeOf(w) /\ t.row = c.row /\ t.cons = c.cons
      /\ t.out = c.out /\ ViewOpens(t) /\ SameBut(c, t) /\ NodeOf(w) = c.node
  BY <1>1 DEF Wrote, SameBut, NodeOf
<1>4. SoleInv(c, pool[Home[w]], status, consent) /\ c.op \notin {"none", "sync"}
  BY <1>2, SoleFit DEF Shape
<1>5. Reads(t, status, consent) /\ Checks(t, consent)
  BY <1>2, <1>3, <1>4 DEF SoleInv, Reads, Checks
<1>6. t.out.st # "keep" \/ t.op \in {"check", "force"}
  BY <1>2, <1>3, <1>4 DEF SoleInv, Reads
<1>7. SoleInv(t, pool'[Home[w]], status, consent)
  BY <1>2, <1>3, <1>5, <1>6, SyncingFits
<1>8. OthersFit(t, pool'[Home[w]], status', consent')
  BY <1>2, <1>3, <1>4, KeptFits
<1> QED
  BY <1>1, <1>2, <1>7, <1>8, SoleStep DEF dbVars

LEMMA ApplySyncSettled ==
    ASSUME SoleServer, AllInv, NEW w \in Workers, ApplySync(w)
    PROVE  SettledInv'
<1> DEFINE c == ses[w]
<1>1. /\ pool'[Home[w]] = c.snap /\ c.pc \in {"proved", "hooked", "syncing"}
      /\ c.op = "sync" => Finish(w)
  BY ApplySyncMove, HomeType DEF AllInv
<1>2. UNCHANGED <<status, consent>>
  BY DEF ApplySync, dbVars
<1>3. SoleInv(c, pool[Home[w]], status, consent) /\ Shape(w, c) /\ SessionInv(c, proved)
  BY SoleFit
<1>4. \A n \in Nodes \ {c.node} : Agrees(c.snap[n].routable, status[n], consent[n])
  BY <1>1, <1>3, FitsAgrees DEF SoleInv, Snapped
<1>5. CASE c.op = "sync"
  <2>1. c.node = NoNode
    BY <1>3, <1>5 DEF Shape
  <2>2. \A n \in Nodes : Agrees(c.snap[n].routable, status[n], consent[n])
    BY <1>4, <2>1, RegistryAssumption
  <2> QED
    BY <1>1, <1>2, <1>5, <2>2, SoleFinish
<1>6. CASE c.op # "sync"
  <2>1. PICK t : /\ Update(w, t) /\ SameBut(c, t) /\ t.cons = c.cons /\ t.out = c.out /\ t.snap = NoSnap
                 /\ t.pc = (CASE c.pc = "proved" -> "checking"
                              [] c.pc = "hooked" -> IF c.op = "check" THEN "commit" ELSE "checked"
                              [] c.pc = "syncing" -> "commit")
    BY <1>6, ApplySyncMove DEF AllInv
  <2>2. t.op = c.op /\ t.node = c.node /\ t.row = c.row
    BY <2>1 DEF SameBut
  <2>3. /\ t.pc \in {"checking", "commit", "checked"}
        /\ t.pc = "checking" => c.op = "verify"
        /\ t.pc = "commit" => c.pc = "syncing" \/ (c.pc = "hooked" /\ c.op = "check")
    <3>1. c.pc = "proved" => c.op = "verify"
      BY <1>3 DEF Shape
    <3> QED
      BY <1>1, <2>1, <3>1
  <2>4. Reads(t, status, consent) /\ Checks(t, consent)
    BY <1>1, <1>3, <2>1, <2>2, <2>3 DEF SoleInv, Reads, Checks
  <2>5. StToBe(t, status) = StToBe(c, status) /\ CoToBe(t, consent) = CoToBe(c, consent)
    BY <2>1, <2>2 DEF StToBe, CoToBe
  <2>6. t.pc = "commit" /\ ~t.out.pub =>
            Agrees(c.snap[t.node].routable, StToBe(t, status), CoToBe(t, consent))
    BY <1>3, <1>6, <2>1, <2>2, <2>3, <2>5, FitsAgrees DEF SoleInv, Snapped
  <2>7. Snapped(t, status, consent) /\ Pooled(t, c.snap, status, consent)
    BY <2>2, <2>3, <2>6 DEF Snapped, Pooled
  <2>8. OthersFit(t, c.snap, status, consent)
    BY <1>4, <2>2 DEF OthersFit
  <2> QED
    BY <1>1, <1>2, <2>1, <2>4, <2>7, <2>8, SoleStep DEF SoleInv
<1> QED
  BY <1>5, <1>6

LEMMA CommitSettled ==
    ASSUME SoleServer, AllInv, NEW w \in Workers, Commit(w)
    PROVE  SettledInv'
<1> DEFINE c == ses[w]
           n == c.node
<1>1. /\ c.pc = "commit" /\ n \in Nodes /\ UNCHANGED pool
      /\ \A m \in Nodes :
            /\ status'[m] = IF m = n /\ c.out.st # "keep" THEN c.out.st ELSE status[m]
            /\ consent'[m] = IF m # n \/ c.out.co = "keep" THEN consent[m]
                             ELSE IF c.out.co # "renew" THEN c.out.co
                             ELSE IF consent[m] \in StillVerified THEN "verified" ELSE consent[m]
      /\ \/ Finish(w) /\ ~c.out.pub
         \/ \E t : Update(w, t) /\ Fresh(t, "publish", "sync", NoNode) /\ t.snap = NoSnap
  BY CommitMove DEF AllInv
<1>2. status'[n] = StToBe(c, status) /\ consent'[n] = CoToBe(c, consent)
  BY <1>1 DEF StToBe, CoToBe
<1>3. CASE Finish(w) /\ ~c.out.pub
  <2>1. c.op # "sync"
    BY <1>1, SoleFit DEF Shape
  <2>2. Agrees(pool[Home[w]][n].routable, status'[n], consent'[n])
    BY <1>1, <1>2, <1>3, SoleFit DEF SoleInv, Pooled
  <2>3. \A m \in Nodes \ {n} : Agrees(pool[Home[w]][m].routable, status[m], consent[m])
    BY <2>1, SoleFit DEF OthersFit
  <2>4. \A m \in Nodes : Agrees(pool'[Home[w]][m].routable, status'[m], consent'[m])
    BY <1>1, <2>2, <2>3
  <2> QED
    BY <1>3, <2>4, SoleFinish
<1>4. ASSUME NEW t, Update(w, t), Fresh(t, "publish", "sync", NoNode) PROVE SettledInv'
  <2>1. t.pc = "publish" /\ t.op = "sync" /\ t.cons = "unread" /\ t.out.co = "keep"
    BY <1>4 DEF Fresh, NoWrites
  <2>2. SoleInv(t, pool'[Home[w]], status', consent')
    BY <2>1 DEF SoleInv, Reads, Checks, Snapped, Pooled
  <2>3. OthersFit(t, pool'[Home[w]], status', consent')
    BY <2>1 DEF OthersFit
  <2> QED
    BY <1>4, <2>2, <2>3, SoleStep
<1> QED
  BY <1>1, <1>3, <1>4

LEMMA ReadRegistrySettled ==
    ASSUME SoleServer, AllInv, NEW w \in Workers, ReadRegistry(w)
    PROVE  SettledInv'
<1>1. PICK t : Update(w, t) /\ Fresh(t, "syncing", "sync", NoNode) /\ t.snap = Committed
  BY ReadRegistryMove
<1>2. UNCHANGED <<status, consent>>
  BY DEF ReadRegistry, dbVars
<1>3. t.pc = "syncing" /\ t.op = "sync" /\ t.cons = "unread" /\ t.out.co = "keep"
  BY <1>1 DEF Fresh, NoWrites
<1>4. \A n \in Nodes : Fits(t.snap[n].routable, status[n], consent[n])
  BY <1>1, CommittedOpens DEF Fits, Offered
<1>5. SoleInv(t, pool'[Home[w]], status', consent')
  BY <1>2, <1>3, <1>4 DEF SoleInv, Reads, Checks, Snapped, Pooled
<1>6. OthersFit(t, pool'[Home[w]], status', consent')
  BY <1>3 DEF OthersFit
<1> QED
  BY <1>1, <1>5, <1>6, SoleStep

\* A verification whose node did not answer, and the handlers that cannot end so: the
\* row is there as long as the sole handler does not delete it.
LEMMA GivenUpSettled ==
    ASSUME SoleServer, AllInv, NEW w \in Workers, ProofInconclusive(w) \/ Vanish(w) \/ Fail(w)
    PROVE  SettledInv'
<1> DEFINE c == ses[w]
<1>1. ~Fail(w)
  BY DEF Fail, SoleServer
<1>2. ~Vanish(w)
  <2> SUFFICES ASSUME Vanish(w) PROVE FALSE
    OBVIOUS
  <2>1. c.pc \in {"begun", "checking"} /\ c.out.st = "keep" /\ ~Present(c.node)
    BY DEF Vanish, NoWrites, Present, NodeOf
  <2>2. Shape(w, c) /\ RowThere(c)
    BY SoleFit
  <2>3. OnNode(c)
    BY <2>1, <2>2 DEF Shape, OnNode
  <2> QED
    BY <2>1, <2>2, <2>3 DEF RowThere
<1>3. c.pc = "begun" /\ c.op = "verify" /\ Finish(w) /\ UNCHANGED <<status, consent, pool>>
  BY <1>1, <1>2 DEF ProofInconclusive, At, dbVars
<1>4. Agrees(pool[Home[w]][c.node].routable, status[c.node], consent[c.node])
  BY <1>3, SoleFit DEF SoleInv, Pooled
<1>5. \A n \in Nodes : Agrees(pool[Home[w]][n].routable, status[n], consent[n])
  BY <1>3, <1>4, SoleFit DEF OthersFit
<1> QED
  BY <1>3, <1>5, SoleFinish

\* A lapse leaves every place that holds the consent in agreement.
LEMMA LapseSettled ==
    ASSUME SoleServer, AllInv, NEW n \in Nodes, Lapse(n)
    PROVE  SettledInv'
<1>1. UNCHANGED <<status, pool>> /\ consent[n] = "verified"
  BY DEF Lapse
<1>2. \A m \in Nodes : consent'[m] = IF m = n THEN "lapsed" ELSE consent[m]
  BY DEF Lapse, LapseOf, AllInv, IInv, TablesInv
<1>3. \A m \in Nodes : consent'[m] \in {consent[m], LapseOf(consent[m])}
  BY <1>1, <1>2 DEF LapseOf
<1>4. ASSUME NEW v \in Workers
      PROVE  /\ ses'[v].pc = ses[v].pc /\ SameBut(ses[v], ses'[v])
             /\ ses'[v].out = ses[v].out /\ ses'[v].snap = ses[v].snap
             /\ ses'[v].cons = IF ses[v].node = n THEN LapseOf(ses[v].cons) ELSE ses[v].cons
  <2> DEFINE t == [ses[v] EXCEPT !.cons = LapseOf(ses[v].cons)]
  <2>1. ses[v] \in Session
    BY DEF AllInv, IInv
  <2>2. t.pc = ses[v].pc /\ SameBut(ses[v], t) /\ t.out = ses[v].out
        /\ t.snap = ses[v].snap /\ t.cons = LapseOf(ses[v].cons)
    BY <2>1, Zenon DEF Session, SameBut
  <2>3. ses'[v] = IF ses[v].node = n THEN t ELSE ses[v]
    BY DEF Lapse
  <2> HIDE DEF t
  <2> QED
    BY <2>2, <2>3 DEF SameBut
<1>5. OthersAgree'
  <2> SUFFICES ASSUME NEW p \in Procs, NEW m \in Nodes,
                      \A w \in Workers : ses[w].node # m /\ ses[w].op # "sync"
               PROVE  Agrees(pool[p][m].routable, status[m], consent'[m])
    BY <1>1, <1>4 DEF OthersAgree, SameBut
  <2>1. Agrees(pool[p][m].routable, status[m], consent[m])
    BY DEF AllInv, SettledInv, OthersAgree
  <2> QED
    BY <1>3, <2>1, LapseAgrees
<1>6. ASSUME NEW w \in Workers
      PROVE  SoleInv(ses'[w], pool[Home[w]], status, consent')
  <2> DEFINE c == ses[w]
             t == ses'[w]
  <2>1. SoleInv(c, pool[Home[w]], status, consent) /\ Shape(w, c) /\ SessionInv(c, proved)
    BY SoleFit
  <2>2. t.pc = c.pc /\ t.op = c.op /\ t.node = c.node /\ t.row = c.row /\ t.out = c.out /\ t.snap = c.snap
        /\ t.cons = IF c.node = n THEN LapseOf(c.cons) ELSE c.cons
    BY <1>4 DEF SameBut
  <2> HIDE DEF c, t
  <2>3. c.cons # "unread" => c.node \in Nodes
    <3>1. c.cons # "unread" => c.op \notin {"none", "sync"} /\ c.pc \notin {"idle", "publish"}
      BY <2>1 DEF SoleInv, Reads, Shape, IdleSession
    <3> QED
      BY <2>1, <3>1 DEF SessionInv
  <2>4. c.cons # "unread" => t.cons = consent'[c.node]
    <3>1. c.cons # "unread" => c.cons = consent[c.node]
      BY <2>1 DEF SoleInv, Reads
    <3> QED
      BY <1>1, <1>2, <2>2, <2>3, <3>1 DEF LapseOf
  <2>5. c.cons = "unread" => t.cons = "unread"
    BY <2>2 DEF LapseOf
  <2>6. c.cons \in StillVerified => t.cons \in StillVerified
    BY <2>2 DEF LapseOf, StillVerified
  <2>7. Reads(t, status, consent')
    BY <2>1, <2>2, <2>4, <2>5, <2>6 DEF SoleInv, Reads
  <2>8. t.cons = "unread" => c.cons = "unread"
    BY <2>2 DEF LapseOf
  <2>9. Checks(t, consent')
    <3>1. c.op = "check" => c.node \in Nodes
      BY <2>1 DEF Shape, SessionInv
    <3> QED
      BY <1>1, <1>2, <2>1, <2>2, <2>8, <3>1 DEF SoleInv, Checks
  <2>10. StToBe(t, status) = StToBe(c, status)
    BY <2>2 DEF StToBe
  <2>11. c.node \in Nodes => CoToBe(t, consent') \in {CoToBe(c, consent), LapseOf(CoToBe(c, consent))}
    BY <1>1, <1>2, <2>2 DEF CoToBe, LapseOf, StillVerified
  <2>12. c.pc \in {"hooked", "commit", "begun", "checking"} \/ (c.pc = "syncing" /\ c.op # "sync")
         => c.node \in Nodes
    BY <2>1 DEF SessionInv
  <2>13. Snapped(t, status, consent')
    <3>1. ASSUME c.pc \in {"proved", "hooked", "syncing"}, NEW m \in Nodes \ {c.node}
          PROVE  Fits(c.snap[m].routable, status[m], consent'[m])
      <4>1. Fits(c.snap[m].routable, status[m], consent[m])
        BY <2>1, <3>1 DEF SoleInv, Snapped
      <4> QED
        BY <1>3, <4>1, LapseAgrees
    <3>2. ASSUME c.pc = "syncing", c.op # "sync"
          PROVE  Fits(c.snap[c.node].routable, StToBe(t, status), CoToBe(t, consent'))
      <4>1. Fits(c.snap[c.node].routable, StToBe(c, status), CoToBe(c, consent))
        BY <2>1, <3>2 DEF SoleInv, Snapped
      <4> QED
        BY <2>10, <2>11, <2>12, <3>2, <4>1, LapseAgrees
    <3>3. ASSUME c.pc = "hooked", c.op = "check", ~c.out.pub
          PROVE  Agrees(c.snap[c.node].routable, StToBe(t, status), CoToBe(t, consent'))
      <4>1. Agrees(c.snap[c.node].routable, StToBe(c, status), CoToBe(c, consent))
        BY <2>1, <3>3 DEF SoleInv, Snapped
      <4> QED
        BY <2>10, <2>11, <2>12, <3>3, <4>1, LapseAgrees
    <3> QED
      BY <2>2, <3>1, <3>2, <3>3 DEF Snapped
  <2>14. Pooled(t, pool[Home[w]], status, consent')
    <3>1. ASSUME c.pc = "commit", ~c.out.pub
          PROVE  Agrees(pool[Home[w]][c.node].routable, StToBe(t, status), CoToBe(t, consent'))
      <4>1. Agrees(pool[Home[w]][c.node].routable, StToBe(c, status), CoToBe(c, consent))
        BY <2>1, <3>1 DEF SoleInv, Pooled
      <4> QED
        BY <2>10, <2>11, <2>12, <3>1, <4>1, LapseAgrees
    <3>2. ASSUME (c.pc = "begun" /\ c.op # "autoban") \/ (c.pc = "checking" /\ c.op = "check")
          PROVE  Agrees(pool[Home[w]][c.node].routable, status[c.node], consent'[c.node])
      <4>1. Agrees(pool[Home[w]][c.node].routable, status[c.node], consent[c.node])
        BY <2>1, <3>2 DEF SoleInv, Pooled
      <4> QED
        BY <1>3, <2>12, <3>2, <4>1, LapseAgrees
    <3> QED
      BY <2>2, <3>1, <3>2 DEF Pooled
  <2> QED
    BY <2>7, <2>9, <2>13, <2>14 DEF SoleInv, t
<1> QED
  BY <1>1, <1>5, <1>6 DEF SettledInv

LEMMA SettledInit == Init => SettledInv
<1> SUFFICES ASSUME Init PROVE SettledInv
  OBVIOUS
<1>1. OthersAgree
  BY DEF Init, OthersAgree, Agrees, NoSnap, NoEntry
<1>2. \A w \in Workers : SoleInv(ses[w], pool[Home[w]], status, consent)
  BY DEF Init, SoleInv, Reads, Checks, Snapped, Pooled, IdleSession, NoWrites
<1> QED
  BY <1>1, <1>2 DEF SettledInv

LEMMA WorkerSettled ==
    ASSUME SoleServer, AllInv, NEW w \in Workers, WorkerStep(w)
    PROVE  SettledInv'
<1>1. CASE \E n \in Nodes : Enroll(w, n) \/ \E op \in Jobs[w] : Begin(w, op, n)
  BY <1>1, EnrollSettled, BeginSettled
<1>2. CASE AtOnce(w)
  BY <1>2, HandlerSettled
<1>3. CASE ProofFailed(w) \/ ProofPassed(w)
  BY <1>3, ProofFailedSettled, ProofPassedSettled
<1>4. CASE ReadConsent(w) \/ CheckNode(w) \/ Resync(w)
  BY <1>4, ReadConsentSettled, CheckNodeSettled, ResyncSettled
<1>5. CASE ApplySync(w) \/ Commit(w) \/ ReadRegistry(w)
  BY <1>5, ApplySyncSettled, CommitSettled, ReadRegistrySettled
<1>6. CASE ProofInconclusive(w) \/ Vanish(w) \/ Fail(w)
  BY <1>6, GivenUpSettled
<1> QED
  BY <1>1, <1>2, <1>3, <1>4, <1>5, <1>6 DEF WorkerStep, AtOnce

LEMMA SameSettled ==
    ASSUME SettledInv, UNCHANGED <<status, consent, pool, ses>>
    PROVE  SettledInv'
BY DEF SettledInv, OthersAgree, SoleInv, Reads, Checks, Snapped, Pooled, StToBe, CoToBe

LEMMA SettledNext == SoleServer /\ AllInv /\ [Next]_vars => SettledInv'
<1> SUFFICES ASSUME SoleServer, AllInv, [Next]_vars PROVE SettledInv'
  OBVIOUS
<1>1. CASE UNCHANGED <<status, consent, pool, ses>>
  BY <1>1, SameSettled DEF AllInv
<1>2. ASSUME NEW r \in Requests, RequestStep(r) PROVE SettledInv'
  BY <1>1, <1>2, RefusedSettled DEF RequestStep, PickNode, Fanout, Decide, Retry, EndRequest, dbVars
<1>3. CASE Environment
  BY <1>1, <1>3, LapseSettled DEF Environment, BanElapses, Restart, SoleServer
<1> QED
  BY <1>1, <1>2, <1>3, WorkerSettled DEF Next, vars

\* Every handler writes its row and then calls sync_pool, or removes or adds the
\* runtime itself: with one handler at a time, in one process that neither fails nor
\* restarts, the pool is the registry again when the handler is done.
THEOREM SettledPoolsAgree ==
    ASSUME SoleServer
    PROVE  Spec => []SettledPoolAgrees
<1>1. ASSUME AllInv PROVE SettledPoolAgrees
  <2> SUFFICES ASSUME Settled, NEW p \in Procs, NEW n \in Nodes
               PROVE  /\ Offered(n) => pool[p][n].routable
                      /\ pool[p][n].routable /\ ~Offered(n) =>
                            \/ consent[n] = "lapsed" /\ status[n] \in RoutableStates
                            \/ consent[n] = "failed" /\ status[n] = "quarantined"
                            \/ consent[n] = "failed" /\ status[n] = "blacklisted"
    BY DEF SettledPoolAgrees
  <2>1. \A w \in Workers : ses[w].node # n /\ ses[w].op # "sync"
    <3> SUFFICES ASSUME NEW w \in Workers PROVE ses[w].node # n /\ ses[w].op # "sync"
      OBVIOUS
    <3>1. ses[w].pc = "idle" /\ Shape(w, ses[w])
      BY <1>1, SoleFit DEF Settled
    <3> QED
      BY <3>1, RegistryAssumption DEF Shape, IdleSession
  <2>2. Agrees(pool[p][n].routable, status[n], consent[n])
    BY <1>1, <2>1 DEF AllInv, SettledInv, OthersAgree
  <2> QED
    BY <2>2 DEF Agrees, Offered
<1>2. AllInv /\ [Next]_vars => AllInv'
  <2>1. SoleHandler \/ NothingDeleted
    BY DEF SoleServer
  <2> QED
    BY <2>1, NextInv, CarryNext, AddressNext, SettledNext DEF AllInv
<1>3. Init => AllInv
  BY InitInv, CarryInit, AddressInit, SettledInit DEF AllInv
<1> QED
  BY <1>1, <1>2, <1>3, PTL DEF Spec

-----------------------------------------------------------------------------
(* What a deletion leaves *)

\* The columns of the row and of the consent are left as they are.
LeavesRow(s) == s.out.st = "keep" /\ s.out.co = "keep"

\* A handler writes a row that is there, or takes it away with its consent.
WritesWhatIsThere(s) ==
    /\ \/ s.node \in Nodes
       \/ s.op \in {"none", "sync"} /\ LeavesRow(s)
    /\ s.op \notin {"none", "enroll", "sync"} => status[s.node] # "unregistered"
    /\ s.out.st = "deleted" => s.op = "delete"
    /\ s.pc = "checking" => s.op \in {"check", "force", "verify"}
    /\ s.pc = "proved" => s.op = "verify"
    /\ s.op = "verify" /\ s.pc \in {"proved", "checking"} => s.out.st # "keep"
    /\ \/ LeavesRow(s)
       \/ s.out.st = "deleted" /\ s.out.co = "none"
       \/ s.out.st # "deleted" /\ status[s.node] # "deleted"

\* Beside a handler that is to commit a deletion no other writes the row.
Apart(s, t) == s.node = t.node /\ s.out.st = "deleted" => LeavesRow(t)

RowsInv ==
    /\ \A n \in Nodes : status[n] = "deleted" => consent[n] = "none"
    /\ \A n \in proved : status[n] # "unregistered"
    /\ \A w \in Workers : WritesWhatIsThere(ses[w])
    /\ \A v, w \in Workers : v # w => Apart(ses[v], ses[w])

\* A session that may stand beside those of the others.
Alone(w, t) == \A v \in Workers \ {w} : Apart(ses[v], t) /\ Apart(t, ses[v])

LEMMA NoWritesLeave == \A s : s.out = NoWrites => LeavesRow(s)
BY DEF LeavesRow, NoWrites

\* The row lock.
LEMMA LockedAlone ==
    ASSUME NEW w \in Workers, NEW t, Lockable(w, t.node)
    PROVE  Alone(w, t)
<1>1. ASSUME NEW v \in Workers \ {w}, ses[v].node = t.node PROVE LeavesRow(ses[v])
  BY <1>1, NoWritesLeave DEF Lockable, Holds
<1> QED
  BY <1>1 DEF Alone, Apart, LeavesRow

LEMMA SameWritesAlone ==
    ASSUME RowsInv, NEW w \in Workers, NEW t, t.node = ses[w].node,
           t.out.st = ses[w].out.st, t.out.co = ses[w].out.co
    PROVE  Alone(w, t)
BY DEF RowsInv, Alone, Apart, LeavesRow

LEMMA LeavingAlone ==
    ASSUME NEW w \in Workers, NEW t, LeavesRow(t)
    PROVE  Alone(w, t)
BY DEF Alone, Apart, LeavesRow

\* The tables as they were.
LEMMA QuietRows ==
    ASSUME IInv, RowsInv, NEW w \in Workers, NEW t, Update(w, t), UNCHANGED <<status, consent>>,
           proved' = proved \/ \E n \in Nodes : Present(n) /\ proved' = proved \cup {n},
           WritesWhatIsThere(t), Alone(w, t)
    PROVE  RowsInv'
<1>1. \A v \in Workers : ses'[v] = IF v = w THEN t ELSE ses[v]
  BY DEF Update, IInv
<1>2. \A n \in proved' : status'[n] # "unregistered"
  BY DEF RowsInv, Present, NoRow
<1>3. \A v \in Workers : WritesWhatIsThere(ses[v])'
  BY <1>1 DEF RowsInv, WritesWhatIsThere, LeavesRow
<1>4. \A u, v \in Workers : u # v => Apart(ses[u], ses[v])'
  BY <1>1 DEF RowsInv, Alone, Apart, LeavesRow
<1> QED
  BY <1>2, <1>3, <1>4 DEF RowsInv

\* A session that has written nothing.
LEMMA FreshRows ==
    ASSUME NEW t, t.out = NoWrites, t.pc \notin {"checking", "proved"} \/ t.op \in {"check", "force"},
           t.pc # "proved", t.node \in Nodes \/ t.op \in {"none", "sync"},
           t.op \notin {"none", "enroll", "sync"} => status[t.node] # "unregistered"
    PROVE  WritesWhatIsThere(t) /\ LeavesRow(t)
BY NoWritesLeave DEF WritesWhatIsThere, LeavesRow

LEMMA IdleRows == WritesWhatIsThere(IdleSession) /\ LeavesRow(IdleSession)
<1>1. IdleSession.out = NoWrites /\ IdleSession.pc = "idle" /\ IdleSession.op = "none"
  BY DEF IdleSession
<1> QED
  BY <1>1, FreshRows

LEMMA FinishRows ==
    ASSUME IInv, RowsInv, NEW w \in Workers, Finish(w), UNCHANGED <<status, consent, proved>>
    PROVE  RowsInv'
BY IdleRows, LeavingAlone, QuietRows DEF Finish

LEMMA EnrollRows ==
    ASSUME IInv, RowsInv, NEW w \in Workers, NEW n \in Nodes, Enroll(w, n)
    PROVE  RowsInv'
<1>1. PICK t : /\ Update(w, t) /\ t.pc = "syncing" /\ t.op = "enroll" /\ t.node = n
               /\ Puts(t.out, "consent_challenge_sent", "challenge_sent", "keep")
  BY EnrollMove
<1>2. UNCHANGED <<status, consent, proved>> /\ status[n] = "unregistered" /\ EndpointFree(n)
  BY DEF Enroll, dbVars, Keep
<1>3. WritesWhatIsThere(t)
  BY <1>1, <1>2 DEF WritesWhatIsThere, Puts
<1>4. ASSUME NEW v \in Workers, ses[v].node = n PROVE ses[v].out.st # "deleted"
  <2>1. ses[v].op # "enroll"
    BY <1>2, <1>4 DEF EndpointFree
  <2> QED
    BY <1>2, <1>4, <2>1 DEF RowsInv, WritesWhatIsThere
<1>5. Alone(w, t)
  BY <1>1, <1>4 DEF Alone, Apart, Puts
<1> QED
  BY <1>1, <1>2, <1>3, <1>5, QuietRows

LEMMA BeginRows ==
    ASSUME IInv, RowsInv, NEW w \in Workers, NEW op, NEW n \in Nodes, Begin(w, op, n)
    PROVE  RowsInv'
<1>1. PICK t : /\ Update(w, t) /\ t.pc = (IF op \in LoadsRow THEN "checking" ELSE "begun")
               /\ t.op = op /\ t.node = n /\ t.out = NoWrites
  BY BeginMove
<1>2. UNCHANGED <<status, consent, proved>> /\ Present(n)
  BY DEF Begin, dbVars, Keep
<1>3. WritesWhatIsThere(t) /\ LeavesRow(t)
  BY <1>1, <1>2, FreshRows DEF LoadsRow, Present, NoRow
<1> QED
  BY <1>1, <1>2, <1>3, LeavingAlone, QuietRows

LEMMA RefusedRows ==
    ASSUME IInv, RowsInv, NEW r \in Requests, NEW w \in Workers, Refused(r, w)
    PROVE  RowsInv'
<1>1. PICK t : Update(w, t) /\ Fresh(t, "begun", "autoban", req[r].node)
  BY RefusedMove
<1>2. UNCHANGED <<status, consent, proved>>
  BY DEF Refused, dbVars, Keep
<1>3. req[r].node \in Nodes /\ status[req[r].node] # "unregistered"
  <2>1. req[r].node \in Nodes /\ req[r].node \in proved
    BY DEF Refused, IInv, RequestInv
  <2> QED
    BY <2>1 DEF RowsInv
<1>4. WritesWhatIsThere(t) /\ LeavesRow(t)
  BY <1>1, <1>3, FreshRows DEF Fresh
<1> QED
  BY <1>1, <1>2, <1>4, LeavingAlone, QuietRows

\* The handlers that write at once hold the lock; those that go on without the row
\* write no column of it but in a deletion.
LEMMA HandlerRows ==
    ASSUME IInv, RowsInv, NEW w \in Workers, AtOnce(w)
    PROVE  RowsInv'
<1> DEFINE n == NodeOf(w)
<1>1. UNCHANGED <<status, consent, proved>> /\ Lockable(w, n)
  BY DEF AtOnce, Revoke, Expire, Blacklist, Lift, SetDraining, Delete, AutoBlacklist, Writing,
         MayHaveVanished, dbVars, Keep
<1>2. ses[w].op \in HandlerOps /\ n \in Nodes
  BY HandlerWrites
<1>3. ses[w].op \in {"revoke", "expire"} => Present(n)
  BY DEF AtOnce, Revoke, Expire, Blacklist, Lift, SetDraining, Delete, AutoBlacklist, Writing,
         MayHaveVanished, At
<1>4. WritesWhatIsThere(ses[w])
  BY DEF RowsInv
<1>5. ASSUME NEW out, WriteOut(w, out), HandlerPuts(w, out) PROVE RowsInv'
  <2>1. out \in Writes
    BY <1>5 DEF HandlerPuts, Puts
  <2>2. PICK t : Update(w, t) /\ Wrote(ses[w], t, out)
    BY <1>5, <2>1, WriteOutFields
  <2>3. t.pc = "syncing" /\ t.op = ses[w].op /\ t.node = n /\ t.out = out
    BY <2>2 DEF Wrote, SameBut, NodeOf
  <2>4. \/ LeavesRow(t)
        \/ t.out.st = "deleted" /\ t.out.co = "none" /\ t.op = "delete"
        \/ t.out.st # "deleted" /\ Present(n)
    <3>1. CASE Present(n)
      BY <1>5, <2>3, <3>1 DEF HandlerPuts, Puts, StatusIfPresent
    <3>2. CASE ~Present(n)
      <4>1. consent[n] \notin StillVerified
        BY <1>2, <1>4, <3>2 DEF RowsInv, WritesWhatIsThere, HandlerOps, NodeOf, Present, NoRow, StillVerified
      <4> QED
        BY <1>3, <1>5, <2>3, <3>2, <4>1 DEF HandlerPuts, Puts, StatusIfPresent, LeavesRow
    <3> QED
      BY <3>1, <3>2
  <2>5. WritesWhatIsThere(t)
    BY <1>2, <1>4, <2>3, <2>4 DEF WritesWhatIsThere, LeavesRow, HandlerOps, NodeOf, Present, NoRow
  <2> QED
    BY <1>1, <2>2, <2>3, <2>5, LockedAlone, QuietRows
<1>6. Finish(w) => RowsInv'
  BY <1>1, FinishRows
<1> QED
  BY <1>5, <1>6, HandlerWrites

LEMMA ProofPassedRows ==
    ASSUME IInv, RowsInv, NEW w \in Workers, ProofPassed(w)
    PROVE  RowsInv'
<1>1. PICK t : /\ Update(w, t) /\ SameBut(ses[w], t) /\ t.pc = "proved" /\ t.out.st = "verified"
  BY ProofPassedMove
<1>2. /\ UNCHANGED <<status, consent>> /\ proved' = proved \cup {NodeOf(w)}
      /\ Lockable(w, NodeOf(w)) /\ Present(NodeOf(w)) /\ ses[w].op = "verify"
      /\ NodeOf(w) \in Nodes
  BY UnderWay DEF ProofPassed, Writing, At, dbVars
<1>3. WritesWhatIsThere(t)
  BY <1>1, <1>2 DEF WritesWhatIsThere, SameBut, NodeOf, Present, NoRow
<1>4. Alone(w, t)
  BY <1>1, <1>2, LockedAlone DEF SameBut, NodeOf
<1> QED
  BY <1>1, <1>2, <1>3, <1>4, QuietRows

LEMMA ReadConsentRows ==
    ASSUME IInv, RowsInv, NEW w \in Workers, ReadConsent(w)
    PROVE  RowsInv'
<1> DEFINE c == ses[w]
           co == consent[c.node]
<1>1. PICK t : /\ Update(w, t) /\ SameBut(c, t) /\ t.pc = "checking"
               /\ t.out.co = (IF co = "lapsed" THEN "expired" ELSE "keep")
               /\ t.out.st = c.out.st
  BY ReadConsentMove DEF NodeOf
<1>2. /\ UNCHANGED <<status, consent, proved>> /\ c.pc = "checking" /\ c.op \in {"check", "force"}
      /\ co = "lapsed" => Lockable(w, c.node)
      /\ c.node \in Nodes
  BY UnderWay DEF ReadConsent, dbVars, Keep, NodeOf
<1>3. WritesWhatIsThere(c)
  BY DEF RowsInv
<1>4. co = "lapsed" => status[c.node] # "deleted"
  BY <1>2 DEF RowsInv
<1>5. WritesWhatIsThere(t)
  BY <1>1, <1>2, <1>3, <1>4 DEF WritesWhatIsThere, LeavesRow, SameBut
<1>6. Alone(w, t)
  <2>1. CASE co = "lapsed"
    BY <1>1, <1>2, <2>1, LockedAlone DEF SameBut
  <2>2. CASE co # "lapsed"
    BY <1>1, <1>2, <1>3, <2>2 DEF RowsInv, WritesWhatIsThere, Alone, Apart, LeavesRow, SameBut
  <2> QED
    BY <2>1, <2>2
<1> QED
  BY <1>1, <1>2, <1>5, <1>6, QuietRows

\* check_node: a round or a forced check finds the row still there when it writes it;
\* the one nested in a verification has written it before.
LEMMA CheckNodeRows ==
    ASSUME IInv, RowsInv, NEW w \in Workers, CheckNode(w)
    PROVE  RowsInv'
<1> DEFINE c == ses[w]
<1>1. PICK verdict \in Verdicts(c) :
      \E target \in CheckTargets(RowSeen(c), verdict) : \E t :
         LET moved == target \notin {"keep", RowSeen(c)} IN
         /\ Update(w, t) /\ SameBut(c, t)
         /\ t.pc = (IF moved THEN "hooked" ELSE IF c.op = "check" THEN "commit" ELSE "checked")
         /\ t.out.st = (IF moved THEN target ELSE c.out.st)
  BY CheckNodeMove
<1>2. PICK target \in CheckTargets(RowSeen(c), verdict) : \E t :
         /\ Update(w, t) /\ SameBut(c, t)
         /\ t.pc \in {"hooked", "commit", "checked"}
         /\ t.out.st \in {target, c.out.st}
         /\ target = "keep" => t.out.st = c.out.st
  BY <1>1
<1>3. PICK t :
         /\ Update(w, t) /\ SameBut(c, t)
         /\ t.pc \in {"hooked", "commit", "checked"}
         /\ t.out.st \in {target, c.out.st}
         /\ target = "keep" => t.out.st = c.out.st
  BY <1>2
<1>4. /\ UNCHANGED <<status, consent, proved>> /\ c.pc = "checking"
      /\ c.op = "verify" \/ status[c.node] \notin NoRow
      /\ Lockable(w, c.node) /\ c.node \in Nodes
  BY UnderWay DEF CheckNode, dbVars, Keep, NodeOf
<1>5. WritesWhatIsThere(c)
  BY DEF RowsInv
<1>6. c.op \in {"check", "force", "verify"} /\ c.out.st # "deleted"
  BY <1>4, <1>5 DEF WritesWhatIsThere
<1>7. status[c.node] # "deleted"
  BY <1>4, <1>5, <1>6 DEF WritesWhatIsThere, LeavesRow, NoRow
<1>8. target \in NodeState \cup {"keep"}
  <2>1. RowSeen(c) \in NodeState
    BY <1>4 DEF IInv, SessionInv
  <2> QED
    BY <2>1 DEF CheckTargets, NodeState
<1>9. t.out.st # "deleted"
  BY <1>3, <1>6, <1>8 DEF NodeState
<1>10. WritesWhatIsThere(t)
  BY <1>3, <1>5, <1>6, <1>7, <1>9 DEF WritesWhatIsThere, SameBut
<1>11. Alone(w, t)
  BY <1>3, <1>4, LockedAlone DEF SameBut
<1> QED
  BY <1>3, <1>4, <1>10, <1>11, QuietRows

LEMMA PassRows ==
    ASSUME IInv, RowsInv, NEW w \in Workers, Resync(w) \/ ApplySync(w) \/ ReadRegistry(w)
    PROVE  RowsInv'
<1> DEFINE c == ses[w]
<1>1. UNCHANGED <<status, consent, proved>>
  BY DEF Resync, ApplySync, ReadRegistry, dbVars, Keep
<1>2. WritesWhatIsThere(c)
  BY DEF RowsInv
<1>3. ASSUME NEW t, Update(w, t), SameBut(c, t), t.out = c.out, t.pc # "proved",
             t.pc = "checking" => c.pc = "proved"
      PROVE  RowsInv'
  <2>1. WritesWhatIsThere(t)
    BY <1>2, <1>3 DEF WritesWhatIsThere, LeavesRow, SameBut
  <2>2. Alone(w, t)
    BY <1>3, SameWritesAlone DEF SameBut
  <2> QED
    BY <1>1, <1>3, <2>1, <2>2, QuietRows
<1>4. CASE Resync(w)
  BY <1>3, <1>4, ResyncMove DEF Wrote
<1>5. CASE ApplySync(w)
  <2>1. CASE c.op = "sync"
    BY <1>1, <1>5, <2>1, ApplySyncMove, FinishRows
  <2>2. CASE c.op # "sync"
    <3>1. c.pc \in {"proved", "hooked", "syncing"}
      BY <1>5 DEF ApplySync
    <3>2. PICK t : /\ Update(w, t) /\ SameBut(c, t) /\ t.out = c.out
                   /\ t.pc = (CASE c.pc = "proved" -> "checking"
                                [] c.pc = "hooked" -> IF c.op = "check" THEN "commit" ELSE "checked"
                                [] c.pc = "syncing" -> "commit")
      BY <1>5, <2>2, ApplySyncMove
    <3> QED
      BY <1>3, <3>1, <3>2
  <2> QED
    BY <2>1, <2>2
<1>6. CASE ReadRegistry(w)
  <2>1. PICK t : Update(w, t) /\ Fresh(t, "syncing", "sync", NoNode)
    BY <1>6, ReadRegistryMove
  <2>2. WritesWhatIsThere(t) /\ LeavesRow(t)
    BY <2>1, FreshRows DEF Fresh
  <2> QED
    BY <1>1, <2>1, <2>2, LeavingAlone, QuietRows
<1> QED
  BY <1>4, <1>5, <1>6

LEMMA ProofFailedRows ==
    ASSUME IInv, RowsInv, NEW w \in Workers, ProofFailed(w)
    PROVE  RowsInv'
<1> DEFINE n == NodeOf(w)
<1>1. /\ n \in Nodes /\ Present(n) /\ UNCHANGED proved
      /\ status' = [status EXCEPT ![n] = "quarantined"]
      /\ \E co : consent' = [consent EXCEPT ![n] = co]
  BY UnderWay DEF ProofFailed, Writing, At, Keep
<1>2. \A v \in Workers : ses'[v] = IF v = w THEN IdleSession ELSE ses[v]
  BY DEF ProofFailed, Finish, Update, IInv
<1>3. /\ status'[n] = "quarantined" /\ \A m \in Nodes \ {n} : status'[m] = status[m] /\ consent'[m] = consent[m]
  BY <1>1 DEF IInv, TablesInv
<1>4. ASSUME NEW v \in Workers PROVE WritesWhatIsThere(ses[v])'
  <2>1. WritesWhatIsThere(ses[v])
    BY DEF RowsInv
  <2> QED
    BY <1>2, <1>3, <2>1, IdleRows DEF WritesWhatIsThere, LeavesRow
<1>5. \A u, v \in Workers : u # v => Apart(ses[u], ses[v])'
  BY <1>2, IdleRows DEF RowsInv, Apart, LeavesRow
<1>6. \A m \in Nodes : status'[m] = "deleted" => consent'[m] = "none"
  BY <1>3 DEF RowsInv
<1>7. \A m \in proved' : status'[m] # "unregistered"
  BY <1>1, <1>3 DEF RowsInv, IInv
<1> QED
  BY <1>4, <1>5, <1>6, <1>7 DEF RowsInv

\* What a commit does to a row that is there, and to one that is not.
LEMMA CommitRows ==
    ASSUME IInv, RowsInv, NEW w \in Workers, Commit(w)
    PROVE  RowsInv'
<1> DEFINE c == ses[w]
           n == c.node
<1>1. /\ n \in Nodes
      /\ \A m \in Nodes \ {n} : status'[m] = status[m] /\ consent'[m] = consent[m]
      /\ status'[n] = IF c.out.st # "keep" THEN c.out.st ELSE status[n]
      /\ c.out.co \in {"keep", "none"} => consent'[n] = IF c.out.co = "keep" THEN consent[n] ELSE "none"
  BY CommitMove
<1>2. PICK t : Update(w, t) /\ WritesWhatIsThere(t)' /\ LeavesRow(t)
  <2>1. IdleSession.op = "none" /\ IdleSession.pc = "idle" /\ IdleSession.out = NoWrites
    BY DEF IdleSession
  <2>2. PICK t : Update(w, t) /\ t.op \in {"none", "sync"} /\ t.pc \in {"idle", "publish"} /\ t.out = NoWrites
    BY <2>1, CommitMove DEF Finish, Fresh
  <2>3. LeavesRow(t)
    BY <2>2, NoWritesLeave
  <2>4. WritesWhatIsThere(t)'
    BY <2>2, <2>3 DEF WritesWhatIsThere, LeavesRow
  <2> QED
    BY <2>2, <2>3, <2>4
<1>3. \A v \in Workers : ses'[v] = IF v = w THEN t ELSE ses[v]
  BY <1>2 DEF Update, IInv
<1>4. WritesWhatIsThere(c) /\ c.out \in Writes
  BY DEF RowsInv, IInv, Session
<1>5. \A m \in Nodes : status[m] # "unregistered" => status'[m] # "unregistered"
  BY <1>1, <1>4 DEF Writes, NodeState
<1>6. \A m \in Nodes : status'[m] = "deleted" => consent'[m] = "none"
  BY <1>1, <1>4 DEF RowsInv, WritesWhatIsThere, LeavesRow
<1>7. ASSUME NEW v \in Workers \ {w} PROVE WritesWhatIsThere(ses[v])'
  <2>1. WritesWhatIsThere(ses[v]) /\ Apart(c, ses[v])
    BY DEF RowsInv
  <2>2. ses[v].node = n => LeavesRow(ses[v]) \/ c.out.st # "deleted"
    BY <2>1 DEF Apart
  <2>3. ASSUME ses[v].node \in Nodes, ~LeavesRow(ses[v]), status[ses[v].node] # "deleted"
        PROVE  status'[ses[v].node] # "deleted"
    BY <1>1, <2>2, <2>3
  <2>4. ses'[v] = ses[v]
    BY <1>3
  <2> QED
    BY <1>5, <2>1, <2>3, <2>4 DEF WritesWhatIsThere, LeavesRow
<1>8. \A v \in Workers : WritesWhatIsThere(ses[v])'
  BY <1>2, <1>3, <1>7 DEF WritesWhatIsThere, LeavesRow
<1>9. \A u, v \in Workers : u # v => Apart(ses[u], ses[v])'
  BY <1>2, <1>3 DEF RowsInv, Apart, LeavesRow
<1>10. \A m \in proved' : status'[m] # "unregistered"
  BY <1>5 DEF RowsInv, IInv, Commit, Keep
<1> QED
  BY <1>6, <1>8, <1>9, <1>10 DEF RowsInv

LEMMA LapseRows ==
    ASSUME IInv, RowsInv, NEW n \in Nodes, Lapse(n)
    PROVE  RowsInv'
<1>1. UNCHANGED <<status, proved>>
  BY DEF Lapse, Keep
<1>2. ASSUME NEW v \in Workers
      PROVE  /\ ses'[v].pc = ses[v].pc /\ ses'[v].op = ses[v].op /\ ses'[v].node = ses[v].node
             /\ ses'[v].out = ses[v].out
  <2> DEFINE t == [ses[v] EXCEPT !.cons = LapseOf(ses[v].cons)]
  <2>1. ses[v] \in Session
    BY DEF IInv
  <2>2. t.pc = ses[v].pc /\ t.op = ses[v].op /\ t.node = ses[v].node /\ t.out = ses[v].out
    BY <2>1, Zenon DEF Session
  <2>3. ses'[v] = IF ses[v].node = n THEN t ELSE ses[v]
    BY DEF Lapse
  <2> HIDE DEF t
  <2> QED
    BY <2>2, <2>3
<1>3. \A v \in Workers : WritesWhatIsThere(ses[v])'
  BY <1>1, <1>2 DEF RowsInv, WritesWhatIsThere, LeavesRow
<1>4. \A u, v \in Workers : u # v => Apart(ses[u], ses[v])'
  BY <1>2 DEF RowsInv, Apart, LeavesRow
<1>5. \A m \in Nodes : status'[m] = "deleted" => consent'[m] = "none"
  BY <1>1 DEF RowsInv, Lapse, IInv, TablesInv
<1> QED
  BY <1>1, <1>3, <1>4, <1>5 DEF RowsInv

LEMMA SameRows ==
    ASSUME RowsInv, UNCHANGED <<status, consent, ses, proved>>
    PROVE  RowsInv'
BY DEF RowsInv, WritesWhatIsThere, Apart, LeavesRow

LEMMA RestartRows ==
    ASSUME IInv, RowsInv, NEW p \in Procs, Restart(p)
    PROVE  RowsInv'
<1>1. /\ UNCHANGED <<status, consent, proved>>
      /\ \A v \in Workers : ses'[v] = IF Home[v] = p THEN IdleSession ELSE ses[v]
  BY DEF Restart, dbVars, Keep
<1>2. \A v \in Workers : WritesWhatIsThere(ses[v])'
  BY <1>1, IdleRows DEF RowsInv, WritesWhatIsThere, LeavesRow
<1>3. \A u, v \in Workers : u # v => Apart(ses[u], ses[v])'
  BY <1>1, IdleRows DEF RowsInv, Apart, LeavesRow
<1> QED
  BY <1>1, <1>2, <1>3 DEF RowsInv

LEMMA RowsInit == Init => RowsInv
<1> SUFFICES ASSUME Init PROVE RowsInv
  OBVIOUS
<1>1. \A v \in Workers : ses[v] = IdleSession
  BY DEF Init
<1> QED
  BY <1>1, IdleRows DEF Init, RowsInv, Apart

LEMMA WorkerRows ==
    ASSUME IInv, RowsInv, NEW w \in Workers, WorkerStep(w)
    PROVE  RowsInv'
<1>1. CASE \E n \in Nodes : Enroll(w, n) \/ \E op \in Jobs[w] : Begin(w, op, n)
  BY <1>1, EnrollRows, BeginRows
<1>2. CASE AtOnce(w)
  BY <1>2, HandlerRows
<1>3. CASE ProofFailed(w) \/ ProofPassed(w)
  BY <1>3, ProofFailedRows, ProofPassedRows
<1>4. CASE ReadConsent(w) \/ CheckNode(w)
  BY <1>4, ReadConsentRows, CheckNodeRows
<1>5. CASE Resync(w) \/ ApplySync(w) \/ ReadRegistry(w)
  BY <1>5, PassRows
<1>6. CASE Commit(w)
  BY <1>6, CommitRows
<1>7. CASE ProofInconclusive(w) \/ Vanish(w) \/ Fail(w)
  <2>1. Finish(w) /\ UNCHANGED <<status, consent, proved>>
    BY <1>7 DEF ProofInconclusive, Vanish, Fail, dbVars, Keep
  <2> QED
    BY <2>1, FinishRows
<1> QED
  BY <1>1, <1>2, <1>3, <1>4, <1>5, <1>6, <1>7 DEF WorkerStep, AtOnce

LEMMA RequestRows ==
    ASSUME IInv, RowsInv, NEW r \in Requests, RequestStep(r)
    PROVE  RowsInv'
<1>1. CASE UNCHANGED <<dbVars, ses, proved>>
  BY <1>1, SameRows DEF dbVars
<1>2. CASE \E w \in Workers : Refused(r, w)
  BY <1>2, RefusedRows
<1> QED
  BY <1>1, <1>2 DEF RequestStep, PickNode, Fanout, Decide, Retry, EndRequest, Keep

LEMMA RowsNext == IInv /\ RowsInv /\ [Next]_vars => RowsInv'
<1> SUFFICES ASSUME IInv, RowsInv, [Next]_vars PROVE RowsInv'
  OBVIOUS
<1>1. CASE UNCHANGED vars
  BY <1>1, SameRows DEF vars
<1>2. ASSUME NEW n \in Nodes, BanElapses(n) PROVE RowsInv'
  BY <1>2, SameRows DEF BanElapses, Keep
<1>3. CASE Environment
  BY <1>2, <1>3, LapseRows, RestartRows DEF Environment
<1> QED
  BY <1>1, <1>3, WorkerRows, RequestRows DEF Next

\* delete_cascade takes the row and its consents away together, and no handler that
\* had loaded them brings either back: set_status finds no row, a flush of a loaded
\* one raises, and two sessions never hold writes of one row.
THEOREM DeletionsLast == Spec => DeletedStaysDeleted
<1> DEFINE Step == \A n \in Nodes : status[n] = "deleted" =>
                       status'[n] = "deleted" /\ consent'[n] = "none"
<1>1. ASSUME IInv, RowsInv, [Next]_vars PROVE Step
  <2> SUFFICES ASSUME NEW n \in Nodes, status[n] = "deleted", status'[n] # "deleted"
               PROVE  FALSE
    BY <1>1, RowsNext DEF RowsInv
  <2>1. ASSUME NEW w \in Workers, Commit(w) PROVE FALSE
    <3>1. WritesWhatIsThere(ses[w]) /\ status'[n] = IF n = ses[w].node /\ ses[w].out.st # "keep"
                                                    THEN ses[w].out.st ELSE status[n]
      BY <1>1, <2>1, CommitMove DEF RowsInv
    <3> QED
      BY <3>1 DEF WritesWhatIsThere, LeavesRow
  <2>2. ASSUME NEW w \in Workers, ProofFailed(w) PROVE FALSE
    <3>1. Present(NodeOf(w)) /\ status' = [status EXCEPT ![NodeOf(w)] = "quarantined"]
      BY <2>2 DEF ProofFailed, Writing
    <3> QED
      BY <1>1, <3>1 DEF Present, NoRow, IInv, TablesInv
  <2>3. ASSUME NEW w \in Workers, WorkerStep(w), ~Commit(w), ~ProofFailed(w) PROVE UNCHANGED status
    BY <2>3 DEF WorkerStep, dbVars, Enroll, Begin, Revoke, Expire, Blacklist, Lift, SetDraining, Delete,
       AutoBlacklist, ProofInconclusive, ProofPassed, ReadConsent, CheckNode, Resync, ApplySync,
       ReadRegistry, Vanish, Fail
  <2>4. ASSUME NEW r \in Requests, RequestStep(r) PROVE UNCHANGED status
    BY <2>4 DEF RequestStep, dbVars, PickNode, Fanout, Decide, Retry, EndRequest, Refused
  <2>5. CASE Environment
    BY <2>5 DEF Environment, Lapse, BanElapses, Restart, dbVars
  <2> QED
    BY <1>1, <2>1, <2>2, <2>3, <2>4, <2>5 DEF Next, vars
<1>2. Spec => []RowsInv
  BY Invariance, RowsInit, RowsNext, PTL DEF Spec
<1>3. Spec => [][Step]_vars
  BY <1>1, <1>2, Invariance, PTL DEF Spec
<1> QED
  BY <1>3 DEF DeletedStaysDeleted

=============================================================================

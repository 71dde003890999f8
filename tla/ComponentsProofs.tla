-------------------------- MODULE ComponentsProofs --------------------------
(***************************************************************************)
(* Proofs about the components that share no state with the others and     *)
(* are not large enough for a module of their own: ApiKeys, Settings,      *)
(* Upstream, Balancer and Streaming, each under its own specification and  *)
(* for any value of its constants.                                         *)
(***************************************************************************)
EXTENDS ComponentsMC, DiscoveryProofs, HealthCheckProofs, OwnershipProofs,
        TLAPS, FiniteSetTheorems, SequenceTheorems, WellFoundedInduction

-----------------------------------------------------------------------------
(* Induction, on sets of numbers                                            *)

\* Every set of numbers but the empty one has a least member: intervals 1 .. n are
\* finite sets, and inclusion is well-founded on them.
LEMMA Least ==
    ASSUME NEW T \in SUBSET Nat, T # {}
    PROVE  \E m \in T : \A k \in T : m <= k
<1> DEFINE upTo == {1 .. n : n \in T}
<1>1. IsWellFoundedOn(StrictSubsetOrdering(Nat), FiniteSubsetsOf(Nat))
  BY FS_StrictSubsetOrderingWellFounded
<1>2. upTo \subseteq FiniteSubsetsOf(Nat) /\ upTo # {}
  <2>1. \A n \in T : IsFiniteSet(1 .. n) /\ 1 .. n \in SUBSET Nat
    BY FS_Interval
  <2> QED
    BY <2>1 DEF FiniteSubsetsOf
<1> HIDE DEF upTo
<1>3. PICK x \in upTo : \A y \in upTo : ~ (<<y, x>> \in StrictSubsetOrdering(Nat))
  BY <1>1, <1>2, WFMin
<1>4. PICK m \in T : x = 1 .. m
  BY DEF upTo
<1>5. ASSUME NEW k \in T, k < m PROVE FALSE
  <2>1. 1 .. k \in upTo
    BY DEF upTo
  <2>2. 1 .. k \subseteq 1 .. m /\ 1 .. k # 1 .. m
    <3>1. m \in 1 .. m /\ m \notin 1 .. k
      BY <1>5
    <3> QED BY <3>1, <1>5
  <2>3. 1 .. k \in SUBSET Nat /\ 1 .. m \in SUBSET Nat
    OBVIOUS
  <2>4. <<1 .. k, x>> \in StrictSubsetOrdering(Nat)
    BY <1>4, <2>2, <2>3, Zenon DEF StrictSubsetOrdering
  <2> QED
    BY <1>3, <2>1, <2>4, Zenon
<1> QED
  BY <1>5

\* A set of numbers with 0, and with the successor of each of its members, has all.
LEMMA Induct ==
    ASSUME NEW S \in SUBSET Nat, 0 \in S, \A n \in S : n + 1 \in S
    PROVE  S = Nat
<1>1. SUFFICES ASSUME Nat \ S # {} PROVE FALSE
  OBVIOUS
<1>2. PICK m \in Nat \ S : \A k \in Nat \ S : m <= k
  BY <1>1, Least
<1>3. m - 1 \in Nat /\ m - 1 \in S
  BY <1>2
<1> QED
  BY <1>2, <1>3

-----------------------------------------------------------------------------
(* Keys                                                                     *)

LEMMA ChosenOfRights ==
    ASSUME NEW rights \in SUBSET UserScopes
    PROVE  /\ Chosen(rights) \subseteq UserScopes /\ Chosen(rights) # {}
           /\ rights # {} => Chosen(rights) = rights
BY KeysAssumption DEF Chosen

LEMMA ChosenNamesScopes ==
    ASSUME NEW wanted PROVE Chosen(wanted) \subseteq UserScopes \cup AdminScopes /\ Chosen(wanted) # {}
BY KeysAssumption DEF Chosen

LEMMA NewRowType ==
    ASSUME KeysTypeOK, NEW wanted, NEW ttl \in Nat, NEW from \in KeyIds \cup {NoKey},
           Chosen(wanted) \subseteq UserScopes
    PROVE  NewRow(wanted, ttl, from) \in Rows
BY KeysAssumption DEF KeysTypeOK, NewRow, Rows, Never

\* A key that was rotated was issued, and what it was issued with it handed on.
KeysInv == KeysTypeOK /\ RightsAsGranted /\ RotatedKeyEnds

LEMMA KeysInitInv == KeysInit => KeysInv
BY KeysAssumption DEF KeysInit, KeysInv, KeysTypeOK, RightsAsGranted, RotatedKeyEnds, Rotated,
   Rows, NoKeyRow, Never

LEMMA IssueInv ==
    ASSUME KeysInv, NEW k \in KeyIds, NEW wanted \in Asked, NEW ttl \in Ttls, Issue(k, wanted, ttl)
    PROVE  KeysInv'
<1> DEFINE new == NewRow(wanted, ttl, NoKey)
<1>1. Chosen(wanted) \subseteq UserScopes /\ Chosen(wanted) # {} /\ ttl \in Nat
  BY ChosenNamesScopes, KeysAssumption DEF Issue
<1>2. new \in Rows /\ new.issued /\ new.scopes = Chosen(wanted) /\ new.from = NoKey
  BY <1>1, NewRowType DEF KeysInv, NewRow
<1> HIDE DEF new
<1>3. key' = [key EXCEPT ![k] = new] /\ clock' = clock /\ ~key[k].issued
  BY DEF Issue, new
<1>4. KeysTypeOK'
  BY <1>2, <1>3 DEF KeysInv, KeysTypeOK
<1>5. RightsAsGranted'
  BY <1>1, <1>2, <1>3, KeysAssumption DEF KeysInv, KeysTypeOK, RightsAsGranted, Issue, Rows
<1>6. \A j \in KeyIds : Rotated(j)' => Rotated(j) /\ j # k
  BY <1>2, <1>3, KeysAssumption DEF KeysInv, KeysTypeOK, RightsAsGranted, Rotated, Rows
<1>7. RotatedKeyEnds'
  BY <1>3, <1>6 DEF KeysInv, KeysTypeOK, RotatedKeyEnds
<1> QED
  BY <1>4, <1>5, <1>7 DEF KeysInv

LEMMA RotateInv ==
    ASSUME KeysInv, NEW k \in KeyIds, NEW new \in KeyIds, Rotate(k, new) PROVE KeysInv'
<1> DEFINE next == NewRow(key[k].scopes, 0, k)
           old == [key[k] EXCEPT !.ends = clock + Grace]
<1>1. key[k] \in Rows /\ key[k].issued /\ ~key[new].issued /\ k # new
  BY DEF KeysInv, KeysTypeOK, Rotate
<1>2. key[k].scopes \in SUBSET UserScopes /\ key[k].scopes # {}
  BY <1>1 DEF Rows, KeysInv, RightsAsGranted
<1>3. next \in Rows /\ next.issued /\ next.scopes = key[k].scopes /\ next.from = k
  BY <1>2, ChosenOfRights, NewRowType DEF KeysInv, NewRow
<1>4. /\ old \in Rows /\ old.issued /\ old.scopes = key[k].scopes /\ old.from = key[k].from
      /\ old.ends = clock + Grace /\ old.ends # Never /\ clock \in Nat
  BY <1>1, KeysAssumption DEF KeysInv, KeysTypeOK, Rows, Never
<1>5. key' = [key EXCEPT ![new] = next, ![k] = old] /\ clock' = clock
  BY <1>1 DEF Rotate, KeysInv, KeysTypeOK
<1> HIDE DEF next, old
<1>6. KeysTypeOK'
  BY <1>3, <1>4, <1>5 DEF KeysInv, KeysTypeOK
<1>7. /\ key'[new] = next /\ key'[k] = old
      /\ \A j \in KeyIds \ {k, new} : key'[j] = key[j]
  BY <1>1, <1>5 DEF KeysInv, KeysTypeOK
<1>8. \A j \in KeyIds : key[j].issued => key'[j].issued /\ key'[j].scopes = key[j].scopes
                                          /\ key'[j].from = key[j].from
  BY <1>1, <1>4, <1>7
<1>9. RightsAsGranted'
  <2> SUFFICES ASSUME NEW j \in KeyIds, key'[j].issued
               PROVE  /\ key'[j].scopes # {} /\ key'[j].scopes \cap AdminScopes = {}
                      /\ key'[j].from # NoKey =>
                            key'[key'[j].from].issued /\ key'[j].scopes = key'[key'[j].from].scopes
    BY DEF RightsAsGranted
  <2>1. CASE j = new
    BY <2>1, <1>1, <1>2, <1>3, <1>7, <1>8, KeysAssumption
  <2>2. CASE j # new
    <3>1. key[j].issued
      BY <2>2, <1>1, <1>7
    <3>2. key[j].from \in KeyIds \cup {NoKey}
      BY DEF KeysInv, KeysTypeOK, Rows
    <3> QED
      BY <3>1, <3>2, <1>8 DEF KeysInv, RightsAsGranted
  <2> QED
    BY <2>1, <2>2
<1>10. \A j \in KeyIds : j # k /\ Rotated(j)' => Rotated(j) /\ j # new
  <2> SUFFICES ASSUME NEW j \in KeyIds, j # k, NEW s \in KeyIds, key'[s].issued, key'[s].from = j
               PROVE  Rotated(j) /\ j # new
    BY DEF Rotated
  <2>1. s # new
    BY <1>3, <1>7
  <2>2. key[s].issued /\ key[s].from = j
    BY <2>1, <1>1, <1>7, <1>8
  <2> QED
    BY <2>2, <1>1, KeysAssumption DEF Rotated, KeysInv, RightsAsGranted
<1>11. RotatedKeyEnds'
  <2> SUFFICES ASSUME NEW j \in KeyIds, Rotated(j)'
               PROVE  key'[j].ends # Never /\ key'[j].ends <= clock + Grace
    BY <1>5 DEF RotatedKeyEnds
  <2>1. CASE j = k
    BY <2>1, <1>4, <1>7, KeysAssumption
  <2>2. CASE j # k
    BY <2>2, <1>7, <1>10 DEF KeysInv, RotatedKeyEnds
  <2> QED
    BY <2>1, <2>2
<1> QED
  BY <1>6, <1>9, <1>11 DEF KeysInv

LEMMA RevokeInv == ASSUME KeysInv, NEW k \in KeyIds, Revoke(k) PROVE KeysInv'
<1>1. /\ clock' = clock /\ key' \in [KeyIds -> Rows]
      /\ \A j \in KeyIds : /\ key'[j].issued = key[j].issued /\ key'[j].scopes = key[j].scopes
                           /\ key'[j].ends = key[j].ends /\ key'[j].from = key[j].from
  BY DEF Revoke, KeysInv, KeysTypeOK, Rows
<1>2. \A j \in KeyIds : key[j].from \in KeyIds \cup {NoKey}
  BY DEF KeysInv, KeysTypeOK, Rows
<1>3. RightsAsGranted'
  BY <1>1, <1>2 DEF KeysInv, RightsAsGranted
<1>4. \A j \in KeyIds : Rotated(j)' => Rotated(j)
  BY <1>1 DEF Rotated
<1> QED
  BY <1>1, <1>3, <1>4 DEF KeysInv, KeysTypeOK, RotatedKeyEnds

LEMMA KeyTickInv == ASSUME KeysInv, KeyTick PROVE KeysInv'
<1>1. clock \in Nat /\ clock' = clock + 1 /\ key' = key /\ Grace \in Nat
  BY KeysAssumption DEF KeyTick, KeysInv, KeysTypeOK
<1>2. \A k \in KeyIds : key[k].ends \in Nat
  BY DEF KeysInv, KeysTypeOK, Rows
<1>3. RotatedKeyEnds'
  BY <1>1, <1>2 DEF KeysInv, RotatedKeyEnds, Rotated
<1> QED
  BY <1>1, <1>3 DEF KeysInv, KeysTypeOK, RightsAsGranted

LEMMA KeysNextInv == KeysInv /\ [KeysNext]_keysVars => KeysInv'
<1> SUFFICES ASSUME KeysInv, [KeysNext]_keysVars PROVE KeysInv'
  OBVIOUS
<1>1. CASE KeysNext
  BY <1>1, IssueInv, RotateInv, RevokeInv, KeyTickInv DEF KeysNext
<1>2. CASE UNCHANGED keysVars
  BY <1>2 DEF keysVars, KeysInv, KeysTypeOK, RightsAsGranted, RotatedKeyEnds, Rotated
<1> QED
  BY <1>1, <1>2

\* The rows of the keys are well-formed, and the two properties below hold together: a
\* successor takes over what its predecessor was soundly given.
THEOREM KeysAreSound == KeysSpec => []KeysInv
BY KeysInitInv, KeysNextInv, PTL DEF KeysSpec

\* However keys are rotated, in chains or more than once, every rotated key ends within
\* the grace period (rotate_key).
THEOREM RotatedKeysEnd == KeysSpec => []RotatedKeyEnds
BY KeysAreSound, PTL DEF KeysInv

\* Every chain of rotations carries the rights of its first key, and none of an
\* administrator (issue_key, rotate_key).
THEOREM RightsCarriedOn == KeysSpec => []RightsAsGranted
BY KeysAreSound, PTL DEF KeysInv

\* Only a rotation makes a refused key acceptable again, and never a revoked one
\* (authenticate, rotate_key, revoke_key).
THEOREM RefusalsStand == KeysSpec => RefusalStands
<1> DEFINE Step == \A k \in KeyIds : Revived(k) =>
               ~key[k].revoked /\ \E s \in KeyIds : ~key[s].issued /\ key'[s].issued /\ key'[s].from = k
<1>1. ASSUME KeysInv, [KeysNext]_keysVars PROVE Step
  <2> SUFFICES ASSUME NEW k \in KeyIds, Revived(k)
               PROVE  ~key[k].revoked /\ \E s \in KeyIds : ~key[s].issued /\ key'[s].issued /\ key'[s].from = k
    OBVIOUS
  <2>1. key \in [KeyIds -> Rows] /\ clock \in Nat /\ key[k] \in Rows
    BY <1>1 DEF KeysInv, KeysTypeOK
  <2>2. ASSUME key'[k] = key[k], clock' = clock PROVE FALSE
    BY <2>2 DEF Revived, Accepts
  <2>3. ASSUME NEW j \in KeyIds, NEW wanted \in Asked, NEW ttl \in Ttls, Issue(j, wanted, ttl) PROVE FALSE
    BY <2>1, <2>2, <2>3 DEF Issue, Revived
  <2>4. ASSUME NEW j \in KeyIds, NEW new \in KeyIds, Rotate(j, new)
        PROVE  ~key[k].revoked /\ \E s \in KeyIds : ~key[s].issued /\ key'[s].issued /\ key'[s].from = k
    <3>1. k # new
      BY <2>4 DEF Rotate, Revived
    <3>2. k = j
      BY <2>1, <2>2, <2>4, <3>1 DEF Rotate
    <3>3. key'[k].revoked = key[k].revoked /\ key'[new].issued /\ key'[new].from = k /\ ~key[new].issued
      BY <2>1, <2>4, <3>1, <3>2 DEF Rotate, NewRow
    <3> QED
      BY <3>3 DEF Revived, Accepts
  <2>5. ASSUME NEW j \in KeyIds, Revoke(j) PROVE FALSE
    BY <2>1, <2>2, <2>5 DEF Revoke, Revived, Accepts, Rows
  <2>6. ASSUME KeyTick PROVE FALSE
    BY <2>1, <2>6 DEF KeyTick, Revived, Accepts, Rows, Never
  <2>7. ASSUME UNCHANGED keysVars PROVE FALSE
    BY <2>2, <2>7 DEF keysVars
  <2> QED
    BY <1>1, <2>3, <2>4, <2>5, <2>6, <2>7 DEF KeysNext
<1>2. KeysSpec => []KeysInv
  BY KeysInitInv, KeysNextInv, PTL DEF KeysSpec
<1>3. KeysSpec => [][Step]_keysVars
  BY <1>1, <1>2, PTL DEF KeysSpec
<1> QED
  BY <1>3 DEF RefusalStands

-----------------------------------------------------------------------------
(* Settings                                                                 *)

\* The settings of a running process have every name, and those of its environment their
\* value there.
SettingsInv == SettingsTypeOK /\ SafeInForce /\ EnvironmentPrevails

LEMMA OverlaidFull ==
    ASSUME NEW layer \in Layers, NEW env \in Layers
    PROVE  /\ Overlaid(layer, env) \in Full
           /\ \A x \in DOMAIN env : x \in Names /\ Overlaid(layer, env)[x] = env[x]
<1>1. \A l \in Layers : DOMAIN l \subseteq Names /\ \A x \in DOMAIN l : l[x] \in 0 .. 2
  BY DEF Layers
<1>2. \A x \in Names : Default(x) \in 0 .. 2
  BY DEF Default
<1> QED
  BY <1>1, <1>2 DEF Overlaid, Full

LEMMA SettingsInitInv == SettingsInit => SettingsInv
BY DEF SettingsInit, SettingsInv, SettingsTypeOK, SafeInForce, EnvironmentPrevails, Running

LEMMA LoadedSettings ==
    ASSUME SettingsInv, NEW g \in Gateways, Loads(g)
    PROVE  /\ Overlaid(file, environ[g]) \in Full
           /\ SectionRules(Overlaid(file, environ[g]))
           /\ \A x \in DOMAIN environ[g] : x \in Names /\ Overlaid(file, environ[g])[x] = environ[g][x]
<1>1. file \in Layers /\ environ[g] \in Layers
  BY SettingsAssumption DEF SettingsInv, SettingsTypeOK, Loads
<1> QED
  BY <1>1, OverlaidFull DEF Loads, Valid

\* A process that comes to run with settings of this kind keeps the invariant.
LEMMA PutInForce ==
    ASSUME SettingsInv, NEW g \in Gateways, NEW s \in Full, SectionRules(s),
           \A x \in DOMAIN environ[g] : s[x] = environ[g][x],
           force' = [force EXCEPT ![g] = s], UNCHANGED <<file, environ>>
    PROVE  SettingsInv'
<1>1. force' \in [Gateways -> Full \cup {NotRunning}] /\ force'[g] = s
      /\ \A h \in Gateways \ {g} : force'[h] = force[h]
  BY DEF SettingsInv, SettingsTypeOK
<1> QED
  BY <1>1 DEF SettingsInv, SettingsTypeOK, SafeInForce, EnvironmentPrevails, Running

LEMMA StartGatewayInv == ASSUME SettingsInv, NEW g \in Gateways, StartGateway(g) PROVE SettingsInv'
BY LoadedSettings, PutInForce DEF StartGateway

LEMMA ReloadGatewayInv == ASSUME SettingsInv, NEW g \in Gateways, ReloadGateway(g) PROVE SettingsInv'
<1> DEFINE loaded == Overlaid(file, environ[g])
           s == [x \in Names |-> IF x \in Hot THEN loaded[x] ELSE force[g][x]]
<1>1. loaded \in Full /\ SectionRules(loaded)
      /\ \A x \in DOMAIN environ[g] : x \in Names /\ loaded[x] = environ[g][x]
  BY LoadedSettings DEF ReloadGateway
<1>2. force[g] \in Full /\ SectionRules(force[g]) /\ \A x \in DOMAIN environ[g] : force[g][x] = environ[g][x]
  BY DEF ReloadGateway, Running, SettingsInv, SettingsTypeOK, SafeInForce, EnvironmentPrevails
<1>3. s \in Full
  BY <1>1, <1>2 DEF Full
<1>4. SectionRules(s)
  BY <1>1, <1>2 DEF SectionRules, Names, Hot, Cold
<1>5. \A x \in DOMAIN environ[g] : s[x] = environ[g][x]
  BY <1>1, <1>2
<1>6. force' = [force EXCEPT ![g] = s] /\ UNCHANGED <<file, environ>>
  BY DEF ReloadGateway
<1> QED
  BY <1>3, <1>4, <1>5, <1>6, PutInForce

LEMMA StopGatewayInv == ASSUME SettingsInv, NEW g \in Gateways, StopGateway(g) PROVE SettingsInv'
<1>1. force' \in [Gateways -> Full \cup {NotRunning}] /\ force'[g] = NotRunning
      /\ \A h \in Gateways \ {g} : force'[h] = force[h]
  BY DEF StopGateway, SettingsInv, SettingsTypeOK
<1> QED
  BY <1>1 DEF StopGateway, SettingsInv, SettingsTypeOK, SafeInForce, EnvironmentPrevails, Running

LEMMA PrepareInv == ASSUME SettingsInv, NEW g \in Gateways, Prepare(g) PROVE SettingsInv'
<1>1. environ' \in [Gateways -> Environs] /\ \A h \in Gateways \ {g} : environ'[h] = environ[h]
  BY DEF Prepare, SettingsInv, SettingsTypeOK
<1> QED
  BY <1>1 DEF Prepare, SettingsInv, SettingsTypeOK, SafeInForce, EnvironmentPrevails, Running

LEMMA SettingsNextInv == SettingsInv /\ [SettingsNext]_settingsVars => SettingsInv'
<1> SUFFICES ASSUME SettingsInv, [SettingsNext]_settingsVars PROVE SettingsInv'
  OBVIOUS
<1>1. CASE Edit
  BY <1>1 DEF Edit, SettingsInv, SettingsTypeOK, SafeInForce, EnvironmentPrevails, Running
<1>2. CASE UNCHANGED settingsVars
  BY <1>2 DEF settingsVars, SettingsInv, SettingsTypeOK, SafeInForce, EnvironmentPrevails, Running
<1> QED
  BY <1>1, <1>2, StartGatewayInv, ReloadGatewayInv, StopGatewayInv, PrepareInv DEF SettingsNext

\* The settings are well-formed, and the two properties below hold together.
THEOREM SettingsAreSound == SettingsSpec => []SettingsInv
BY SettingsInitInv, SettingsNextInv, PTL DEF SettingsSpec

\* Whatever is edited, started and reloaded in whatever order, no process runs with a rule
\* of a single section broken (validate, reload_config).
THEOREM RulesInForce == SettingsSpec => []SafeInForce
BY SettingsAreSound, PTL DEF SettingsInv

\* And what its environment sets stays in force (load_settings, reload_config).
THEOREM EnvironmentInForce == SettingsSpec => []EnvironmentPrevails
BY SettingsAreSound, PTL DEF SettingsInv

-----------------------------------------------------------------------------
(* The call to the nodes: no generation begins twice, no server is tried    *)
(* twice                                                                    *)

\* Before a server begins none has; what was tried is left out, and counted.
NoneBegan == HasSideEffects /\ call.pc \in {"new", "choosing", "refused", "sent"} => began = <<>>
TriedLeftOut ==
    \A i \in DOMAIN tried :
        tried[i] \in call.exclude \/ (call.pc \in {"refused", "sent", "begun"} /\ tried[i] = call.server)
       \/ call.pc \in {"answered", "failed"}
AttemptsCounted ==
    /\ call.pc = "new" => tried = <<>>
    /\ call.pc # "new" => Len(tried) + call.left = Attempts
    /\ call.pc = "choosing" => call.left > 0
    /\ call.pc \in {"refused", "sent", "begun"} => call.server \in Servers

UpstreamInv ==
    /\ UpstreamTypeOK /\ StartedOnce /\ NoneBegan
    /\ IsInjective(tried) /\ TriedLeftOut /\ AttemptsCounted

LEMMA AttemptsType == ASSUME UpstreamTypeOK PROVE Attempts \in Nat \ {0} /\ Attempts <= 1 + lb.retries
BY UpstreamAssumption DEF UpstreamTypeOK, Attempts

LEMMA UpstreamInitInv == UpstreamInit => UpstreamInv
<1> SUFFICES ASSUME UpstreamInit PROVE UpstreamInv
  OBVIOUS
<1>1. call.pc = "new" /\ call \in CallState /\ tried = <<>> /\ began = <<>>
  BY DEF UpstreamInit, CallState
<1>2. <<>> \in Seq(Servers) /\ Len(began) = 0 /\ DOMAIN tried = {}
  BY <1>1
<1>3. UpstreamTypeOK
  BY <1>1, <1>2 DEF UpstreamInit, UpstreamTypeOK
<1> QED
  BY <1>1, <1>2, <1>3 DEF UpstreamInv, StartedOnce, NoneBegan, IsInjective, TriedLeftOut, AttemptsCounted

LEMMA SubmitInv == ASSUME UpstreamInv, Submit PROVE UpstreamInv'
<1>1. call' = [call EXCEPT !.pc = "choosing", !.left = Attempts] /\ Attempts \in Nat \ {0}
      /\ call \in CallState /\ call.pc = "new"
      /\ UNCHANGED <<kind, lb, closed, tried, began>>
  BY AttemptsType DEF UpstreamInv, UpstreamTypeOK, Submit
<1>2. call'.pc = "choosing" /\ call'.left = Attempts /\ call'.exclude = call.exclude /\ call' \in CallState
  BY <1>1 DEF CallState
<1>3. Attempts' = Attempts /\ HasSideEffects' = HasSideEffects
  BY <1>1 DEF Attempts, HasSideEffects
<1> QED
  BY <1>1, <1>2, <1>3 DEF UpstreamInv, UpstreamTypeOK, StartedOnce, NoneBegan, TriedLeftOut, AttemptsCounted

\* A step that ends the call.
LEMMA EndInv ==
    ASSUME UpstreamInv, call.pc # "new", NEW pc \in {"answered", "failed"}, End(pc),
           UNCHANGED <<kind, lb, closed, tried, began>>
    PROVE  UpstreamInv'
<1>1. call' \in CallState /\ call'.pc = pc /\ call'.left = call.left
  BY DEF End, UpstreamInv, UpstreamTypeOK, CallState
<1>2. Attempts' = Attempts /\ HasSideEffects' = HasSideEffects
  BY DEF Attempts, HasSideEffects
<1> QED
  BY <1>1, <1>2 DEF UpstreamInv, UpstreamTypeOK, StartedOnce, NoneBegan, TriedLeftOut, AttemptsCounted

\* Another attempt: after it none may have begun, if there are side effects.
LEMMA AgainInv ==
    ASSUME UpstreamInv, call.pc \in {"sent", "begun"}, call.left > 0, Again,
           HasSideEffects => began = <<>>,
           UNCHANGED <<kind, lb, closed, tried, began>>
    PROVE  UpstreamInv'
<1>1. call \in CallState /\ call.server \in Servers
  BY DEF UpstreamInv, UpstreamTypeOK, AttemptsCounted
<1>2. /\ call' \in CallState /\ call'.pc = "choosing" /\ call'.left = call.left
      /\ call'.exclude = call.exclude \cup {call.server}
  BY <1>1 DEF Again, CallState
<1>3. Attempts' = Attempts /\ HasSideEffects' = HasSideEffects
  BY DEF Attempts, HasSideEffects
<1>4. TriedLeftOut'
  BY <1>2 DEF UpstreamInv, TriedLeftOut
<1> QED
  BY <1>2, <1>3, <1>4 DEF UpstreamInv, UpstreamTypeOK, StartedOnce, NoneBegan, AttemptsCounted

LEMMA SendInv == ASSUME UpstreamInv, Send PROVE UpstreamInv'
<1>1. PICK s \in Servers \ call.exclude, unserving \in SUBSET (Servers \ call.exclude) :
          /\ call' = [pc |-> IF closed THEN "refused" ELSE "sent", server |-> s, left |-> call.left - 1,
                      exclude |-> call.exclude \cup unserving]
          /\ tried' = Append(tried, s)
  BY DEF Send
<1>2. /\ call.pc = "choosing" /\ call \in CallState /\ call.left \in Nat /\ call.left > 0
      /\ tried \in Seq(Servers) /\ Len(tried) \in Nat
      /\ UNCHANGED <<kind, lb, closed, began>>
  BY DEF Send, UpstreamInv, UpstreamTypeOK, AttemptsCounted, CallState
<1>3. /\ call' \in CallState /\ call'.pc \in {"refused", "sent"} /\ call'.server = s
      /\ call'.left = call.left - 1 /\ call'.exclude = call.exclude \cup unserving
  BY <1>1, <1>2 DEF CallState
<1>4. /\ tried' \in Seq(Servers) /\ Len(tried') = Len(tried) + 1
      /\ DOMAIN tried = 1 .. Len(tried) /\ DOMAIN tried' = 1 .. Len(tried) + 1
      /\ tried'[Len(tried) + 1] = s /\ \A i \in DOMAIN tried : tried'[i] = tried[i]
  BY <1>1, <1>2
<1>5. Attempts' = Attempts /\ HasSideEffects' = HasSideEffects /\ Attempts \in Nat
  BY <1>2, AttemptsType DEF Attempts, HasSideEffects, UpstreamInv
<1>6. \A i \in DOMAIN tried : tried[i] \in call.exclude
  BY <1>2 DEF UpstreamInv, TriedLeftOut
<1>7. IsInjective(tried')
  <2> SUFFICES ASSUME NEW i \in DOMAIN tried', NEW j \in DOMAIN tried', tried'[i] = tried'[j] PROVE i = j
    BY DEF IsInjective
  <2>1. CASE i \in DOMAIN tried /\ j \in DOMAIN tried
    BY <2>1, <1>4 DEF UpstreamInv, IsInjective
  <2>2. CASE i = Len(tried) + 1 \/ j = Len(tried) + 1
    BY <2>2, <1>4, <1>6
  <2> QED
    BY <2>1, <2>2, <1>2, <1>4
<1>8. TriedLeftOut'
  <2> SUFFICES ASSUME NEW i \in DOMAIN tried' PROVE tried'[i] \in call'.exclude \/ tried'[i] = call'.server
    BY <1>3 DEF TriedLeftOut
  <2> QED
    BY <1>2, <1>3, <1>4, <1>6
<1>9. AttemptsCounted'
  BY <1>2, <1>3, <1>4, <1>5 DEF UpstreamInv, AttemptsCounted
<1> QED
  BY <1>2, <1>3, <1>4, <1>5, <1>7, <1>8, <1>9 DEF UpstreamInv, UpstreamTypeOK, StartedOnce, NoneBegan

LEMMA BeginInv == ASSUME UpstreamInv, Begin PROVE UpstreamInv'
<1>1. /\ call.pc = "sent" /\ call \in CallState /\ call.server \in Servers /\ began \in Seq(Servers)
      /\ call' = [call EXCEPT !.pc = "begun"] /\ began' = Append(began, call.server)
      /\ UNCHANGED <<kind, lb, closed, tried>>
  BY DEF Begin, End, UpstreamInv, UpstreamTypeOK, AttemptsCounted
<1>2. /\ call' \in CallState /\ call'.pc = "begun" /\ call'.left = call.left
      /\ call'.exclude = call.exclude /\ call'.server = call.server
  BY <1>1 DEF CallState
<1>3. began' \in Seq(Servers) /\ (began = <<>> => Len(began') = 1)
  BY <1>1
<1>4. Attempts' = Attempts /\ HasSideEffects' = HasSideEffects
  BY <1>1 DEF Attempts, HasSideEffects
<1>5. TriedLeftOut'
  BY <1>1, <1>2 DEF UpstreamInv, TriedLeftOut
<1> QED
  BY <1>1, <1>2, <1>3, <1>4, <1>5 DEF UpstreamInv, UpstreamTypeOK, StartedOnce, NoneBegan, AttemptsCounted

LEMMA RespondInv == ASSUME UpstreamInv, Respond PROVE UpstreamInv'
<1>1. call.pc = "begun" /\ UNCHANGED <<kind, lb, closed, tried, began>>
  BY DEF Respond
<1>2. CASE call.left > 0 /\ RetryAfterStart /\ Again
  <2>1. ~HasSideEffects
    BY <1>2 DEF RetryAfterStart, HasSideEffects
  <2> QED
    BY <1>1, <1>2, <2>1, AgainInv
<1>3. CASE \E pc \in {"answered", "failed"} : End(pc)
  BY <1>1, <1>3, EndInv
<1> QED
  BY <1>2, <1>3 DEF Respond

LEMMA FaultInv == ASSUME UpstreamInv, Fault PROVE UpstreamInv'
<1>1. call.pc \in {"sent", "begun"} /\ UNCHANGED <<kind, lb, closed, tried, began>>
  BY DEF Fault
<1>2. PICK e \in OfConnection \cup (IF call.pc = "sent" THEN BeforeConnection ELSE {}) :
          IF MapError(e) = "connect" /\ call.left > 0 THEN Again ELSE End("failed")
  BY DEF Fault
<1>3. CASE MapError(e) = "connect" /\ call.left > 0
  <2>1. call.pc = "sent"
    BY <1>2, <1>3 DEF MapError, OfConnection
  <2> QED
    BY <1>1, <1>2, <1>3, <2>1, AgainInv DEF UpstreamInv, NoneBegan
<1>4. CASE ~(MapError(e) = "connect" /\ call.left > 0)
  BY <1>1, <1>2, <1>4, EndInv
<1> QED
  BY <1>3, <1>4

LEMMA UpstreamNextInv == UpstreamInv /\ [UpstreamNext]_upstreamVars => UpstreamInv'
<1> SUFFICES ASSUME UpstreamInv, [UpstreamNext]_upstreamVars PROVE UpstreamInv'
  OBVIOUS
<1>1. CASE NoServerLeft \/ Unavailable
  BY <1>1, EndInv DEF NoServerLeft, Unavailable
<1>2. CASE CloseTransport \/ UNCHANGED upstreamVars
  <2>1. call' = call /\ kind' = kind /\ lb' = lb /\ tried' = tried /\ began' = began /\ closed' \in BOOLEAN
    BY <1>2 DEF CloseTransport, upstreamVars, UpstreamInv, UpstreamTypeOK
  <2>2. Attempts' = Attempts /\ HasSideEffects' = HasSideEffects
    BY <2>1 DEF Attempts, HasSideEffects
  <2> QED
    BY <2>1, <2>2 DEF UpstreamInv, UpstreamTypeOK, StartedOnce, NoneBegan, TriedLeftOut, AttemptsCounted
<1> QED
  BY <1>1, <1>2, SubmitInv, SendInv, BeginInv, RespondInv, FaultInv DEF UpstreamNext

\* A generation, plain or streamed, begins on one node at most: whatever fails, when and
\* how, unless retry_after_upstream_started allows more (request_json, _open_stream).
THEOREM GenerationStartsOnce == UpstreamSpec => []StartedOnce
<1>1. UpstreamSpec => []UpstreamInv
  BY UpstreamInitInv, UpstreamNextInv, PTL DEF UpstreamSpec
<1> QED
  BY <1>1, PTL DEF UpstreamInv

\* A call goes to no node twice and to at most 1 + max_retries nodes (request_json,
\* _open_stream, _acquire).
THEOREM NodesTriedOnce == UpstreamSpec => []TriedOnce
<1>1. UpstreamInv => TriedOnce
  <2> SUFFICES ASSUME UpstreamInv PROVE TriedOnce
    OBVIOUS
  <2>1. Attempts \in Nat \ {0} /\ Attempts <= 1 + lb.retries /\ lb.retries \in Nat
    BY AttemptsType, UpstreamAssumption DEF UpstreamInv, UpstreamTypeOK
  <2>2. call.left \in Nat /\ Len(tried) \in Nat
    BY DEF UpstreamInv, UpstreamTypeOK, CallState
  <2>3. Len(tried) <= Attempts
    BY <2>1, <2>2 DEF UpstreamInv, AttemptsCounted
  <2> QED
    BY <2>1, <2>2, <2>3 DEF UpstreamInv, TriedOnce
<1>2. UpstreamSpec => []UpstreamInv
  BY UpstreamInitInv, UpstreamNextInv, PTL DEF UpstreamSpec
<1> QED
  BY <1>1, <1>2, PTL

-----------------------------------------------------------------------------
(* The balancer                                                             *)


\* The place of a node is its index in the order, and no other node has it.
LEMMA PlaceType ==
    /\ \A n \in Nodes : Place(n) \in Nat
    /\ \A n, m \in Nodes : Place(n) = Place(m) => n = m
<1>1. \A n \in Nodes : \E i \in DOMAIN Order : Order[i] = n
  BY DEF Nodes, ToSet
<1>2. \A n \in Nodes : Place(n) \in DOMAIN Order /\ Order[Place(n)] = n
  BY <1>1, Zenon DEF Place
<1>3. DOMAIN Order \subseteq Nat
  BY BalancerAssumption
<1> QED
  BY <1>2, <1>3

LEMMA NodesFinite == IsFiniteSet(Nodes)
<1>1. PICK k \in Nat : DOMAIN Order = 1 .. k
  BY BalancerAssumption
<1>2. \A n \in Nodes : Place(n) \in 1 .. k
  <2>1. \A n \in Nodes : \E i \in DOMAIN Order : Order[i] = n
    BY DEF Nodes, ToSet
  <2> QED
    BY <1>1, <2>1, Zenon DEF Place
<1> DEFINE f == [n \in Nodes |-> Place(n)]
<1>3. f \in Injection(Nodes, 1 .. k)
  BY <1>2, PlaceType DEF Injection, IsInjective
<1> QED
  BY <1>3, FS_Injection, FS_Interval

LEMMA Fewer ==
    ASSUME NEW S, IsFiniteSet(S), NEW T \in SUBSET S, T # S
    PROVE  Cardinality(T) < Cardinality(S)
<1>1. Cardinality(T) <= Cardinality(S) /\ Cardinality(T) # Cardinality(S)
  BY FS_Subset
<1> QED
  BY <1>1, FS_Subset, FS_CardinalityType

\* The ranks of nodes E are different numbers below their number.
LEMMA Ranks ==
    ASSUME NEW E \in SUBSET Nodes
    PROVE  /\ IsFiniteSet(E)
           /\ \A n \in E : Rank(E, n) \in Nat /\ Rank(E, n) < Cardinality(E)
           /\ \A n, m \in E : Rank(E, n) = Rank(E, m) => n = m
<1> DEFINE before(n) == {m \in E : Place(m) < Place(n)}
<1>1. IsFiniteSet(E)
  BY NodesFinite, FS_Subset
<1>2. \A n : IsFiniteSet(before(n)) /\ Rank(E, n) = Cardinality(before(n)) /\ Rank(E, n) \in Nat
  BY <1>1, FS_Subset, FS_CardinalityType DEF Rank
<1>3. ASSUME NEW n \in E PROVE Rank(E, n) < Cardinality(E)
  <2>1. before(n) \subseteq E /\ before(n) # E
    BY PlaceType
  <2> QED
    BY <1>1, <1>2, <2>1, Fewer
<1>4. ASSUME NEW n \in E, NEW m \in E, Place(n) < Place(m) PROVE Rank(E, n) < Rank(E, m)
  <2>1. before(n) \subseteq before(m) /\ before(n) # before(m)
    BY <1>4, PlaceType
  <2> QED
    BY <1>2, <2>1, Fewer
<1>5. \A n, m \in E : Rank(E, n) = Rank(E, m) => n = m
  <2> SUFFICES ASSUME NEW n \in E, NEW m \in E, n # m PROVE Rank(E, n) # Rank(E, m)
    OBVIOUS
  <2>1. Place(n) < Place(m) \/ Place(m) < Place(n)
    BY PlaceType
  <2> QED
    <3> HIDE DEF before
    <3>1. CASE Place(n) < Place(m)
      <4>1. Rank(E, n) < Rank(E, m) /\ Rank(E, n) \in Nat /\ Rank(E, m) \in Nat
        BY <3>1, <1>2, <1>4
      <4> QED BY <4>1
    <3>2. CASE Place(m) < Place(n)
      <4>1. Rank(E, m) < Rank(E, n) /\ Rank(E, n) \in Nat /\ Rank(E, m) \in Nat
        BY <3>2, <1>2, <1>4
      <4> QED BY <4>1
    <3> QED BY <2>1, <3>1, <3>2
<1> HIDE DEF before
<1> QED
  BY <1>1, <1>2, <1>3, <1>5

LEMMA Modulo ==
    \A c, N \in Nat : N # 0 => /\ c % N \in 0 .. N - 1
                               /\ (c < N => c % N = c)
                               /\ (c = N => c % N = 0)
OBVIOUS


\* How many choices it takes until the cursor E is at n.
Distance(E, cur, n) == IF Rank(E, n) >= cur THEN Rank(E, n) - cur ELSE Rank(E, n) - cur + Cardinality(E)

\* The next node is the nearest; it goes behind all others, which come nearer.
LEMMA Advance ==
    ASSUME NEW E \in SUBSET Nodes, NEW cur \in 0 .. Cardinality(E) - 1,
           NEW next \in Nat, next = IF cur + 1 = Cardinality(E) THEN 0 ELSE cur + 1,
           NEW n \in E, Rank(E, n) = cur
    PROVE  /\ Distance(E, next, n) = Cardinality(E) - 1
           /\ \A m \in E \ {n} : /\ Distance(E, cur, m) \in Nat \ {0} /\ Distance(E, cur, m) < Cardinality(E)
                                 /\ Distance(E, next, m) = Distance(E, cur, m) - 1
           /\ Distance(E, cur, n) = 0
<1>1. Cardinality(E) \in Nat /\ \A m \in E : Rank(E, m) \in Nat /\ Rank(E, m) < Cardinality(E)
  BY Ranks, FS_CardinalityType
<1>2. \A m \in E \ {n} : Rank(E, m) # cur
  BY Ranks
<1> QED
  BY <1>1, <1>2 DEF Distance

\* Nobody is two choices ahead, and who is nearer to the cursor is not ahead at all.
Even(E, cur, t) ==
    \A n, m \in E :
        /\ t[n] <= t[m] + 1
        /\ Distance(E, cur, n) < Distance(E, cur, m) => t[n] <= t[m]

RobinInv ==
    /\ fit \subseteq Nodes
    /\ DOMAIN turns \subseteq Nodes /\ \A n \in DOMAIN turns : turns[n] \in Nat
    /\ cursor \in Nat
    /\ algorithm = "round_robin" /\ DOMAIN turns # {} =>
           cursor < Cardinality(DOMAIN turns) /\ Even(DOMAIN turns, cursor, turns)

LEMMA RobinChooses ==
    ASSUME RobinInv, NEW k \in Keys, Choose(k)
    PROVE  RobinInv'
<1> DEFINE E == Eligible
           c == Counted(E)
<1>1. E \in SUBSET Nodes /\ E # {}
  BY DEF Choose, Eligible, Free, RobinInv
<1>2. DOMAIN c = E /\ \A m \in E : c[m] \in Nat
  BY DEF Counted, RobinInv
<1>3. PICK n \in Selected(E, k) : turns' = [c EXCEPT ![n] = @ + 1]
  BY DEF Choose
<1>4. UNCHANGED <<algorithm, fit>> /\ cursor' = IF algorithm = "round_robin" THEN NextCursor(E) ELSE cursor
  BY DEF Choose
<1>5. IsFiniteSet(E) /\ Cardinality(E) \in Nat /\ Cardinality(E) # 0
  BY <1>1, Ranks, FS_CardinalityType, FS_EmptySet
<1>6. DOMAIN turns' = E /\ \A m \in E : turns'[m] \in Nat /\ turns'[m] = IF m = n THEN c[m] + 1 ELSE c[m]
  BY <1>2, <1>3
<1> DEFINE N == Cardinality(E)
           cur == cursor % N
           next == NextCursor(E)
<1>7. cur \in 0 .. N - 1 /\ next \in Nat /\ next < N /\ next = IF cur + 1 = N THEN 0 ELSE cur + 1
  <2>1. cursor \in Nat /\ N \in Nat /\ N # 0 /\ next = (cur + 1) % N
    BY <1>5 DEF RobinInv, NextCursor
  <2> HIDE DEF N, next
  <2>2. cur \in 0 .. N - 1 /\ cur + 1 \in Nat /\ cur + 1 <= N
    BY <2>1, Modulo
  <2> HIDE DEF cur
  <2>3. (cur + 1 < N => next = cur + 1) /\ (cur + 1 = N => next = 0)
    BY <2>1, <2>2, Modulo
  <2> QED
    BY <2>1, <2>2, <2>3
<1>8. ASSUME algorithm = "round_robin" PROVE Even(E, next, turns')
  <2>1. n \in E /\ Rank(E, n) = cur
    BY <1>3, <1>8 DEF Selected, RoundRobin
  <2>2. Even(E, cur, c)
    <3>1. CASE DOMAIN turns = E
      BY <1>1, <1>5, <1>8, <3>1, Modulo DEF RobinInv, Counted
    <3>2. CASE DOMAIN turns # E
      BY <3>2 DEF Counted, Even
    <3> QED
      BY <3>1, <3>2
  <2> HIDE DEF E, c, N, cur, next
  <2>3. /\ Distance(E, next, n) = N - 1
        /\ \A m \in E \ {n} : /\ Distance(E, cur, m) \in Nat \ {0} /\ Distance(E, cur, m) < N
                              /\ Distance(E, next, m) = Distance(E, cur, m) - 1
        /\ Distance(E, cur, n) = 0
    BY <1>1, <1>7, <2>1, Advance DEF N
  <2> SUFFICES ASSUME NEW x \in E, NEW y \in E
               PROVE  /\ turns'[x] <= turns'[y] + 1
                      /\ Distance(E, next, x) < Distance(E, next, y) => turns'[x] <= turns'[y]
    BY DEF Even
  <2>4. c[x] \in Nat /\ c[y] \in Nat /\ c[x] <= c[y] + 1
        /\ (Distance(E, cur, x) < Distance(E, cur, y) => c[x] <= c[y])
    BY <1>2, <2>2 DEF Even
  <2>5. turns'[x] = (IF x = n THEN c[x] + 1 ELSE c[x]) /\ turns'[y] = (IF y = n THEN c[y] + 1 ELSE c[y])
    BY <1>6
  <2>6. CASE x = y
    BY <2>4, <2>5, <2>6
  <2>7. CASE x = n /\ y # n
    <3>1. c[x] <= c[y]
      BY <2>3, <2>4, <2>7
    <3>2. ~ (Distance(E, next, x) < Distance(E, next, y))
      BY <1>5, <2>3, <2>7 DEF N
    <3> QED
      BY <2>4, <2>5, <2>7, <3>1, <3>2
  <2>8. CASE x # n /\ y = n
    BY <2>4, <2>5, <2>8
  <2>9. CASE x # n /\ y # n
    <3>1. Distance(E, next, x) < Distance(E, next, y) => Distance(E, cur, x) < Distance(E, cur, y)
      BY <1>5, <2>3, <2>9
    <3> QED
      BY <2>4, <2>5, <2>9, <3>1
  <2> QED
    BY <2>6, <2>7, <2>8, <2>9
<1> HIDE DEF E, c, N, cur, next
<1> QED
  BY <1>1, <1>4, <1>6, <1>7, <1>8 DEF RobinInv, N, next

LEMMA RobinInitInv == BalancerInit => RobinInv
BY DEF BalancerInit, RobinInv

LEMMA RobinNext == RobinInv /\ [BalancerNext]_balancerVars => RobinInv'
<1> SUFFICES ASSUME RobinInv, [BalancerNext]_balancerVars PROVE RobinInv'
  OBVIOUS
<1>1. CASE UNCHANGED balancerVars
  BY <1>1 DEF balancerVars, RobinInv, Even, Distance, Rank
<1>2. ASSUME NEW n \in Nodes, Release(n) PROVE RobinInv'
  BY <1>2 DEF Release, RobinInv, Even, Distance, Rank
<1>3. ASSUME NEW n \in Nodes, FitChanges(n) PROVE RobinInv'
  BY <1>3 DEF FitChanges, RobinInv, Even, Distance, Rank
<1>4. ASSUME NEW n \in Nodes, Reweigh(n) PROVE RobinInv'
  <2>1. turns' = <<>> /\ DOMAIN turns' = {} /\ UNCHANGED <<fit, cursor>>
    BY <1>4 DEF Reweigh
  <2> QED
    BY <2>1 DEF RobinInv
<1> QED
  BY <1>1, <1>2, <1>3, <1>4, RobinChooses DEF BalancerNext

\* As long as the same nodes are eligible, round robin calls none of them two times more
\* than another, for any nodes and wherever the cursor was left: who is nearer to the
\* cursor was not called more often (_round_robin).
THEOREM CallsSpreadEvenly == BalancerSpec => []SpreadEvenly
<1>1. RobinInv => SpreadEvenly
  BY DEF RobinInv, SpreadEvenly, Even
<1> QED
  BY <1>1, RobinInitInv, RobinNext, PTL DEF BalancerSpec

\* The weights are positive, so a free node has a point on the ring.
WeightInv == fit \subseteq Nodes /\ weight \in [Nodes -> Nat \ {0}]

LEMMA HalvedWeight ==
    ASSUME NEW b \in Nat \ {0}
    PROVE  Max({1, b \div 2}) \in Nat \ {0} /\ Max({1, b \div 2}) <= b
<1> DEFINE S == {1, b \div 2}
<1>1. S \subseteq Nat /\ 1 \in S
  OBVIOUS
<1>2. \E x \in S : \A y \in S : x >= y
  OBVIOUS
<1>3. Max(S) \in S /\ \A y \in S : Max(S) >= y
  BY <1>2, Zenon DEF Max
<1> QED
  BY <1>1, <1>3

LEMMA WeightNext == WeightInv /\ [BalancerNext]_balancerVars => WeightInv'
<1> SUFFICES ASSUME WeightInv, [BalancerNext]_balancerVars PROVE WeightInv'
  OBVIOUS
<1>1. ASSUME NEW n \in Nodes, Reweigh(n) PROVE WeightInv'
  <2>1. Base[n] \in Nat \ {0}
    BY BalancerAssumption
  <2>2. Max({1, Base[n] \div 2}) \in Nat \ {0}
    BY <2>1, HalvedWeight
  <2> QED
    BY <1>1, <2>1, <2>2 DEF Reweigh, WeightInv
<1>2. ASSUME NEW k \in Keys, Choose(k) PROVE WeightInv'
  BY <1>2 DEF Choose, WeightInv
<1> QED
  BY <1>1, <1>2 DEF BalancerNext, Release, FitChanges, WeightInv, balancerVars

\* A free node has a point, and a key is at home at the first point of a free node.
FirstPoint ==
    \A k \in Keys : Free(fit) # {} =>
        LET P == FreePoints(Eligible, k) IN
        /\ P # {} /\ P \in SUBSET Nat
        /\ Min(P) \in P /\ \A i \in P : Min(P) <= i
        /\ Home(Eligible, k) = {Ring[k][Min(P)][1]}
        /\ P = {i \in DOMAIN Ring[k] : Ring[k][i][1] \in Free(fit) /\ Ring[k][i][2] <= weight[Ring[k][i][1]]}

LEMMA FirstPointFree == WeightInv => FirstPoint
<1> SUFFICES ASSUME WeightInv, NEW k \in Keys, Free(fit) # {}
    PROVE  LET P == FreePoints(Eligible, k) IN
           /\ P # {} /\ P \in SUBSET Nat
           /\ Min(P) \in P /\ \A i \in P : Min(P) <= i
           /\ Home(Eligible, k) = {Ring[k][Min(P)][1]}
           /\ P = {i \in DOMAIN Ring[k] : Ring[k][i][1] \in Free(fit) /\ Ring[k][i][2] <= weight[Ring[k][i][1]]}
  BY DEF FirstPoint
<1> DEFINE P == FreePoints(Eligible, k)
<1>1. Free(Eligible) = Free(fit)
  BY DEF Eligible, Free
<1>2. P = {i \in DOMAIN Ring[k] : Ring[k][i][1] \in Free(fit) /\ Ring[k][i][2] <= weight[Ring[k][i][1]]}
  BY <1>1 DEF FreePoints
<1>3. DOMAIN Ring[k] \subseteq Nat /\ ToSet(Ring[k]) = UNION {{n} \X (1 .. Base[n]) : n \in Nodes}
  BY BalancerAssumption
<1>4. PICK n \in Free(fit) : n \in Nodes /\ 1 <= weight[n]
  BY DEF Free, WeightInv
<1>5. <<n, 1>> \in ToSet(Ring[k])
  BY <1>3, <1>4, BalancerAssumption
<1>6. PICK i \in DOMAIN Ring[k] : Ring[k][i] = <<n, 1>>
  BY <1>5 DEF ToSet
<1>7. i \in P
  BY <1>2, <1>4, <1>6
<1> HIDE DEF P
<1>8. P # {} /\ P \in SUBSET Nat
  BY <1>2, <1>3, <1>7
<1>9. Min(P) \in P /\ \A j \in P : Min(P) <= j
  <2>1. \E x \in P : \A y \in P : x <= y
    BY <1>8, Least
  <2> QED
    BY <2>1, Zenon DEF Min
<1>10. Home(Eligible, k) = {Ring[k][Min(P)][1]}
  BY <1>8 DEF Home, P
<1> QED
  BY <1>2, <1>8, <1>9, <1>10 DEF P

\* A hash key moves only when its node is gone or full, or one before it on the ring has
\* come, for any nodes, weights, keys and rings: a key's home is at the least of its
\* points, and the least of a set only changes with it (_consistent_hash).
THEOREM KeysStickToNodes == BalancerSpec => HashSticks
<1> DEFINE Sticks == algorithm = "consistent_hash" /\ weight' = weight =>
        \A k \in Keys :
            /\ Free(fit) # {} /\ Free(fit)' # {}
            /\ Home(Eligible, k)' # Home(Eligible, k)
            => \/ Home(Eligible, k) \cap Free(fit)' = {}
               \/ Home(Eligible, k)' \cap Free(fit) = {}
<1>1. BalancerInit => WeightInv
  BY BalancerAssumption DEF BalancerInit, WeightInv
<1>2. ASSUME FirstPoint, FirstPoint' PROVE Sticks
  <2> SUFFICES ASSUME weight' = weight, NEW k \in Keys, Free(fit) # {}, Free(fit)' # {},
                      Home(Eligible, k) \cap Free(fit)' # {}, Home(Eligible, k)' \cap Free(fit) # {}
               PROVE  Home(Eligible, k)' = Home(Eligible, k)
    OBVIOUS
  <2> DEFINE P == FreePoints(Eligible, k)
             Q == FreePoints(Eligible, k)'
  <2>1. /\ P # {} /\ P \in SUBSET Nat
        /\ Min(P) \in P /\ \A i \in P : Min(P) <= i
        /\ Home(Eligible, k) = {Ring[k][Min(P)][1]}
        /\ P = {i \in DOMAIN Ring[k] : Ring[k][i][1] \in Free(fit) /\ Ring[k][i][2] <= weight[Ring[k][i][1]]}
    BY <1>2 DEF FirstPoint
  <2>2. /\ Q # {} /\ Q \in SUBSET Nat
        /\ Min(Q) \in Q /\ \A i \in Q : Min(Q) <= i
        /\ Home(Eligible, k)' = {Ring[k][Min(Q)][1]}
        /\ Q = {i \in DOMAIN Ring[k] : Ring[k][i][1] \in Free(fit)' /\ Ring[k][i][2] <= weight[Ring[k][i][1]]}
    BY <1>2 DEF FirstPoint
  <2> HIDE DEF P, Q
  <2>3. Min(P) \in Q
    BY <2>1, <2>2
  <2>4. Min(Q) \in P
    BY <2>1, <2>2
  <2>5. Min(P) <= Min(Q) /\ Min(Q) <= Min(P)
    BY <2>1, <2>2, <2>3, <2>4, Zenon
  <2>6. Min(P) \in Nat /\ Min(Q) \in Nat
    BY <2>1, <2>2, Zenon
  <2>7. Min(P) = Min(Q)
    BY <2>5, <2>6
  <2> QED
    BY <2>1, <2>2, <2>7
<1>3. BalancerSpec => []WeightInv
  BY <1>1, WeightNext, PTL DEF BalancerSpec
<1>4. BalancerSpec => [][Sticks]_balancerVars
  BY <1>2, <1>3, FirstPointFree, PTL DEF BalancerSpec
<1> QED
  BY <1>4 DEF HashSticks

-----------------------------------------------------------------------------
(* Sums over a set *)

\* Removing one member after the other, the one the sums take, reaches every subset.
LEMMA SubsetInduct ==
    ASSUME NEW U, IsFiniteSet(U), NEW F, {} \in F,
           \A S \in SUBSET U : S # {} /\ S \ {CHOOSE x \in S : TRUE} \in F => S \in F
    PROVE  \A S \in SUBSET U : S \in F
<1> DEFINE small == {n \in Nat : \A S \in SUBSET U : Cardinality(S) = n => S \in F}
<1>1. 0 \in small
  <2>1. \A S \in SUBSET U : Cardinality(S) = 0 => S = {}
    BY FS_Subset, FS_EmptySet
  <2> QED
    BY <2>1
<1>2. ASSUME NEW n \in small PROVE n + 1 \in small
  <2> SUFFICES ASSUME NEW S \in SUBSET U, Cardinality(S) = n + 1 PROVE S \in F
    OBVIOUS
  <2> DEFINE c == CHOOSE x \in S : TRUE
  <2>1. IsFiniteSet(S) /\ S # {}
    BY FS_Subset, FS_EmptySet
  <2>2. c \in S
    BY <2>1
  <2> HIDE DEF c
  <2>3. Cardinality(S \ {c}) = n
    <3>1. n \in Nat /\ n + 1 - 1 = n
      OBVIOUS
    <3>2. Cardinality(S \ {c}) = Cardinality(S) - 1
      BY <2>1, <2>2, FS_RemoveElement, Zenon
    <3> HIDE DEF small
    <3> QED
      BY <3>1, <3>2
  <2>4. S \ {c} \in F
    BY <2>3
  <2> QED
    BY <2>1, <2>4 DEF c
<1> HIDE DEF small
<1>3. small = Nat
  <2>1. small \in SUBSET Nat
    BY DEF small
  <2> QED
    BY <1>1, <1>2, <2>1, Induct
<1>4. \A S \in SUBSET U : Cardinality(S) \in Nat
  BY FS_Subset, FS_CardinalityType
<1> QED
  BY <1>3, <1>4 DEF small

\* g has the sums of f over the subsets of T.
Sums(f, g, T) ==
    g = [s \in SUBSET T |-> IF s = {} THEN 0
                            ELSE f[CHOOSE x \in s : TRUE] + g[s \ {CHOOSE x \in s : TRUE}]]

LEMMA SumIsSums == \A f, T : SumOver(f, T) = (CHOOSE g : Sums(f, g, T))[T]
BY DEF SumOver, MapThenSumSet, MapThenFoldSet, Sums

LEMMA SumsExist ==
    ASSUME NEW f, NEW U, IsFiniteSet(U)
    PROVE  \E g : Sums(f, g, U)
<1> DEFINE upTo(n) == {s \in SUBSET U : Cardinality(s) <= n}
           Is(g, n) == g = [s \in upTo(n) |-> IF s = {} THEN 0
                            ELSE f[CHOOSE x \in s : TRUE] + g[s \ {CHOOSE x \in s : TRUE}]]
           R == {n \in Nat : \E g : Is(g, n)}
<1>0. \A s \in SUBSET U : IsFiniteSet(s) /\ Cardinality(s) \in Nat /\ (Cardinality(s) = 0 <=> s = {})
  BY FS_Subset, FS_CardinalityType, FS_EmptySet
<1>1. 0 \in R
  <2> DEFINE g == [s \in upTo(0) |-> 0]
  <2>1. \A s \in upTo(0) : s = {}
    BY <1>0
  <2>2. Is(g, 0)
    BY <2>1
  <2> QED
    BY <2>2
<1>2. ASSUME NEW n \in R PROVE n + 1 \in R
  <2>1. PICK g : Is(g, n)
    OBVIOUS
  <2> DEFINE h == [s \in upTo(n + 1) |->
                    IF Cardinality(s) = n + 1
                    THEN f[CHOOSE x \in s : TRUE] + g[s \ {CHOOSE x \in s : TRUE}] ELSE g[s]]
  <2>2. n \in Nat
    OBVIOUS
  <2>3. ASSUME NEW s \in upTo(n + 1)
        PROVE  h[s] = IF s = {} THEN 0 ELSE f[CHOOSE x \in s : TRUE] + h[s \ {CHOOSE x \in s : TRUE}]
    <3> DEFINE c == CHOOSE x \in s : TRUE
               r == s \ {c}
    <3>1. s \in SUBSET U /\ IsFiniteSet(s) /\ Cardinality(s) \in Nat /\ Cardinality(s) <= n + 1
      BY <1>0
    <3>2. ASSUME s # {} PROVE r \in upTo(n + 1) /\ Cardinality(r) = Cardinality(s) - 1
      <4>1. c \in s
        BY <3>2
      <4> HIDE DEF c
      <4>2. Cardinality(r) = Cardinality(s) - 1
        BY <3>1, <4>1, FS_RemoveElement
      <4> QED
        BY <1>0, <3>1, <4>2
    <3>3. CASE s = {}
      <4>1. Cardinality(s) = 0
        BY <1>0, <3>3
      <4>2. s \in upTo(n) /\ h[s] = g[s]
        BY <2>2, <4>1
      <4> QED
        BY <2>1, <3>3, <4>2
    <3>4. CASE s # {} /\ Cardinality(s) = n + 1
      <4>1. Cardinality(r) # n + 1 /\ r \in upTo(n + 1)
        BY <2>2, <3>2, <3>4
      <4>2. h[r] = g[r] /\ h[s] = f[c] + g[r]
        BY <3>4, <4>1
      <4> HIDE DEF h
      <4> QED
        BY <3>4, <4>2
    <3>5. CASE s # {} /\ Cardinality(s) # n + 1
      <4>1. s \in upTo(n) /\ Cardinality(r) # n + 1 /\ r \in upTo(n + 1)
        BY <2>2, <3>1, <3>2, <3>5
      <4>2. h[r] = g[r] /\ h[s] = g[s]
        BY <3>5, <4>1
      <4>3. g[s] = f[c] + g[r]
        BY <2>1, <3>5, <4>1
      <4> HIDE DEF h
      <4> QED
        BY <3>5, <4>2, <4>3
    <3> QED
      BY <3>3, <3>4, <3>5
  <2> DEFINE next(s) == IF s = {} THEN 0 ELSE f[CHOOSE x \in s : TRUE] + h[s \ {CHOOSE x \in s : TRUE}]
  <2>4. h = [s \in upTo(n + 1) |-> h[s]]
    OBVIOUS
  <2>5. \A s \in upTo(n + 1) : h[s] = next(s)
    BY <2>3
  <2> HIDE DEF h, next
  <2>6. h = [s \in upTo(n + 1) |-> next(s)]
    BY <2>4, <2>5
  <2>7. Is(h, n + 1)
    BY <2>6, Zenon DEF next
  <2> HIDE DEF Is
  <2> QED
    BY <2>2, <2>7
<1> HIDE DEF Is
<1>3. R = Nat
  BY <1>1, <1>2, Induct
<1>4. PICK g : Is(g, Cardinality(U))
  BY <1>0, <1>3
<1>5. upTo(Cardinality(U)) = SUBSET U
  BY FS_Subset
<1> QED
  BY <1>4, <1>5 DEF Is, Sums

\* The sums over one set and over another agree on what is in both.
LEMMA SumsAgree ==
    ASSUME NEW f, NEW T, NEW U, IsFiniteSet(U), U \subseteq T, NEW g, NEW h, Sums(f, g, T), Sums(f, h, U)
    PROVE  g[U] = h[U]
<1> DEFINE F == {S \in SUBSET U : g[S] = h[S]}
<1>1. \A S \in SUBSET U :
         /\ g[S] = IF S = {} THEN 0 ELSE f[CHOOSE x \in S : TRUE] + g[S \ {CHOOSE x \in S : TRUE}]
         /\ h[S] = IF S = {} THEN 0 ELSE f[CHOOSE x \in S : TRUE] + h[S \ {CHOOSE x \in S : TRUE}]
  BY DEF Sums
<1>2. {} \in F
  BY <1>1
<1>3. ASSUME NEW S \in SUBSET U, S # {}, S \ {CHOOSE x \in S : TRUE} \in F PROVE S \in F
  BY <1>1, <1>3
<1> HIDE DEF F
<1>4. U \in F
  BY <1>2, <1>3, SubsetInduct
<1> QED
  BY <1>4 DEF F

LEMMA SumUnfolds ==
    ASSUME NEW f, NEW S, IsFiniteSet(S)
    PROVE  /\ S = {} => SumOver(f, S) = 0
           /\ S # {} => SumOver(f, S) = f[CHOOSE x \in S : TRUE] + SumOver(f, S \ {CHOOSE x \in S : TRUE})
<1> DEFINE U == S \ {CHOOSE x \in S : TRUE}
           g == CHOOSE g : Sums(f, g, S)
           h == CHOOSE h : Sums(f, h, U)
<1>1. IsFiniteSet(U)
  BY FS_Subset
<1> HIDE DEF U
<1>2. Sums(f, g, S) /\ Sums(f, h, U)
  BY <1>1, SumsExist
<1>3. SumOver(f, S) = g[S] /\ SumOver(f, U) = h[U]
  BY SumIsSums
<1> HIDE DEF g, h
<1>4. g[S] = IF S = {} THEN 0 ELSE f[CHOOSE x \in S : TRUE] + g[U]
  BY <1>2 DEF Sums, U
<1>5. g[U] = h[U]
  <2>1. U \subseteq S
    BY DEF U
  <2> QED
    BY <1>1, <1>2, <2>1, SumsAgree
<1> QED
  BY <1>3, <1>4, <1>5 DEF U

LEMMA SumEmpty == \A f : SumOver(f, {}) = 0
<1> TAKE f
<1>1. IsFiniteSet({})
  BY FS_EmptySet
<1> QED
  BY <1>1, SumUnfolds

LEMMA SumInteger ==
    ASSUME NEW S, IsFiniteSet(S), NEW f, \A x \in S : f[x] \in Int
    PROVE  SumOver(f, S) \in Int
<1> DEFINE F == {T \in SUBSET S : SumOver(f, T) \in Int}
<1>1. {} \in F
  BY SumEmpty
<1>2. ASSUME NEW T \in SUBSET S, T # {}, T \ {CHOOSE x \in T : TRUE} \in F PROVE T \in F
  <2> DEFINE c == CHOOSE x \in T : TRUE
  <2>1. IsFiniteSet(T) /\ c \in T
    BY <1>2, FS_Subset
  <2>2. SumOver(f, T) = f[c] + SumOver(f, T \ {c})
    BY <1>2, <2>1, SumUnfolds
  <2>3. SumOver(f, T \ {c}) \in Int
    BY <1>2
  <2> HIDE DEF c
  <2>4. SumOver(f, T) \in Int
    BY <2>1, <2>2, <2>3
  <2> QED
    BY <2>4
<1> HIDE DEF F
<1>3. S \in F
  BY <1>1, <1>2, SubsetInduct
<1> QED
  BY <1>3 DEF F

\* Sums add up.
LEMMA SumAdds ==
    ASSUME NEW S, IsFiniteSet(S), NEW f, NEW g, NEW h,
           \A x \in S : f[x] \in Int /\ g[x] \in Int /\ h[x] = f[x] + g[x]
    PROVE  SumOver(h, S) = SumOver(f, S) + SumOver(g, S)
<1> DEFINE F == {T \in SUBSET S : SumOver(h, T) = SumOver(f, T) + SumOver(g, T)}
<1>1. {} \in F
  BY SumEmpty
<1>2. ASSUME NEW T \in SUBSET S, T # {}, T \ {CHOOSE x \in T : TRUE} \in F PROVE T \in F
  <2> DEFINE c == CHOOSE x \in T : TRUE
             R == T \ {c}
  <2>1. IsFiniteSet(T) /\ IsFiniteSet(R) /\ c \in T
    BY <1>2, FS_Subset
  <2>2. /\ SumOver(f, T) = f[c] + SumOver(f, R) /\ SumOver(g, T) = g[c] + SumOver(g, R)
        /\ SumOver(h, T) = h[c] + SumOver(h, R)
    BY <1>2, <2>1, SumUnfolds
  <2>3. SumOver(h, R) = SumOver(f, R) + SumOver(g, R)
    BY <1>2
  <2>4. SumOver(f, R) \in Int /\ SumOver(g, R) \in Int
    <3>1. \A x \in R : f[x] \in Int /\ g[x] \in Int
      OBVIOUS
    <3> HIDE DEF R
    <3> QED
      BY <2>1, <3>1, SumInteger
  <2>5. f[c] \in Int /\ g[c] \in Int /\ h[c] = f[c] + g[c]
    BY <2>1
  <2> HIDE DEF c, R
  <2>6. SumOver(h, T) = SumOver(f, T) + SumOver(g, T)
    BY <2>2, <2>3, <2>4, <2>5
  <2> QED
    BY <2>6
<1> HIDE DEF F
<1>3. S \in F
  BY <1>1, <1>2, SubsetInduct
<1> QED
  BY <1>3 DEF F

\* The sum of what only one member has.
LEMMA SumOne ==
    ASSUME NEW S, IsFiniteSet(S), NEW f, NEW n \in S, NEW d \in Int,
           \A x \in S : f[x] = IF x = n THEN d ELSE 0
    PROVE  SumOver(f, S) = d
<1> DEFINE F == {T \in SUBSET S : SumOver(f, T) = IF n \in T THEN d ELSE 0}
<1>1. {} \in F
  BY SumEmpty
<1>2. ASSUME NEW T \in SUBSET S, T # {}, T \ {CHOOSE x \in T : TRUE} \in F PROVE T \in F
  <2> DEFINE c == CHOOSE x \in T : TRUE
             R == T \ {c}
  <2>1. IsFiniteSet(T) /\ c \in T /\ c \in S
    BY <1>2, FS_Subset
  <2>2. SumOver(f, T) = f[c] + SumOver(f, R)
    BY <1>2, <2>1, SumUnfolds
  <2>3. SumOver(f, R) = IF n \in R THEN d ELSE 0
    BY <1>2
  <2> HIDE DEF c
  <2>4. SumOver(f, T) = IF n \in T THEN d ELSE 0
    BY <2>1, <2>2, <2>3
  <2> QED
    BY <2>4
<1> HIDE DEF F
<1>3. S \in F
  BY <1>1, <1>2, SubsetInduct
<1> QED
  BY <1>3 DEF F

\* If all have at least b, the sum is at least b for each.
LEMMA SumLeast ==
    ASSUME NEW S, IsFiniteSet(S), NEW f, NEW b \in Int, \A x \in S : f[x] \in Int /\ f[x] >= b
    PROVE  SumOver(f, S) >= Cardinality(S) * b
<1> DEFINE F == {T \in SUBSET S : SumOver(f, T) >= Cardinality(T) * b}
<1>1. {} \in F
  <2>1. SumOver(f, {}) = 0 /\ Cardinality({}) = 0 /\ 0 * b = 0
    BY SumEmpty, FS_EmptySet
  <2> QED
    BY <2>1
<1>2. ASSUME NEW T \in SUBSET S, T # {}, T \ {CHOOSE x \in T : TRUE} \in F PROVE T \in F
  <2> DEFINE c == CHOOSE x \in T : TRUE
             R == T \ {c}
  <2>1. IsFiniteSet(T) /\ IsFiniteSet(R) /\ c \in T /\ \A x \in R : f[x] \in Int
    BY <1>2, FS_Subset
  <2>2. SumOver(f, T) = f[c] + SumOver(f, R)
    BY <1>2, <2>1, SumUnfolds
  <2>3. SumOver(f, R) >= Cardinality(R) * b
    BY <1>2
  <2>4. f[c] \in Int /\ f[c] >= b
    BY <2>1
  <2> HIDE DEF c, F
  <2>5. Cardinality(T) = Cardinality(R) + 1 /\ Cardinality(R) \in Nat
    BY <2>1, FS_RemoveElement, FS_CardinalityType
  <2> HIDE DEF R
  <2>6. SumOver(f, R) \in Int
    BY <2>1, SumInteger
  <2>7. (Cardinality(R) + 1) * b = Cardinality(R) * b + b
    BY <2>5
  <2>8. Cardinality(R) * b \in Int
    BY <2>5
  <2>9. SumOver(f, T) >= Cardinality(T) * b
    BY <2>2, <2>3, <2>4, <2>5, <2>6, <2>7, <2>8
  <2> QED
    BY <2>9 DEF F
<1> HIDE DEF F
<1>3. S \in F
  BY <1>1, <1>2, SubsetInduct
<1> QED
  BY <1>3 DEF F

\* Numbers that add up to nothing are as small as the others are large.
LEMMA SumBounds ==
    ASSUME NEW S, IsFiniteSet(S), NEW f, NEW b \in Nat, NEW n \in S,
           \A x \in S : f[x] \in Int /\ f[x] >= -b,
           SumOver(f, S) = 0
    PROVE  f[n] <= (Cardinality(S) - 1) * b
<1> DEFINE one == [x \in S |-> IF x = n THEN f[n] + b ELSE 0]
           others == [x \in S |-> IF x = n THEN -b ELSE f[x]]
<1>1. \A x \in S : one[x] \in Int /\ others[x] \in Int /\ others[x] >= -b /\ f[x] = one[x] + others[x]
  OBVIOUS
<1>2. SumOver(one, S) = f[n] + b
  <2>1. \A x \in S : one[x] = IF x = n THEN f[n] + b ELSE 0
    OBVIOUS
  <2> HIDE DEF one
  <2> QED
    BY <2>1, SumOne
<1> HIDE DEF one, others
<1>3. SumOver(f, S) = SumOver(one, S) + SumOver(others, S)
  BY <1>1, SumAdds
<1>4. SumOver(others, S) >= Cardinality(S) * (-b) /\ SumOver(others, S) \in Int
  <2>1. -b \in Int
    OBVIOUS
  <2> QED
    BY <1>1, <2>1, SumLeast, SumInteger
<1>5. Cardinality(S) \in Nat
  BY FS_CardinalityType
<1>6. Cardinality(S) * (-b) = -(Cardinality(S) * b) /\ (Cardinality(S) - 1) * b = Cardinality(S) * b - b
  BY <1>5
<1>7. Cardinality(S) * b \in Int
  BY <1>5
<1> QED
  BY <1>2, <1>3, <1>4, <1>6, <1>7

LEMMA SumZero ==
    ASSUME NEW S, IsFiniteSet(S), NEW f, \A x \in S : f[x] = 0
    PROVE  SumOver(f, S) = 0
<1>1. SumOver(f, S) = SumOver(f, S) + SumOver(f, S)
  <2>1. \A x \in S : f[x] \in Int /\ f[x] = f[x] + f[x]
    OBVIOUS
  <2> QED
    BY <2>1, SumAdds
<1>2. SumOver(f, S) \in Int
  <2>1. \A x \in S : f[x] \in Int
    OBVIOUS
  <2> QED
    BY <2>1, SumInteger
<1>3. \A s \in Int : s = s + s => s = 0
  OBVIOUS
<1> QED
  BY <1>1, <1>2, <1>3

LEMMA Distributes == \A i, j, k \in Int : (i + j) * k = i * k + j * k /\ i * k \in Int
OBVIOUS

\* The account of a node with t of g calls, a weight w of T, and its current then and now.
Square(t, g, T, w, s, c) == t * T - g * w = s - c

LEMMA Charging ==
    ASSUME NEW t \in Int, NEW g \in Int, NEW T \in Int, NEW w \in Int, NEW d \in Int,
           NEW s \in Int, NEW c \in Int, Square(t, g, T, w, s, c)
    PROVE  Square(t + d, g + 1, T, w, s, c + w - d * T)
<1>1. (t + d) * T = t * T + d * T
  BY Distributes
<1>2. (g + 1) * w = g * w + w
  <2>1. (g + 1) * w = g * w + 1 * w
    BY Distributes
  <2> QED
    BY <2>1
<1>3. t * T \in Int /\ d * T \in Int /\ g * w \in Int
  BY Distributes
<1> DEFINE x == t * T
           y == d * T
           z == g * w
<1>4. x - z = s - c /\ x \in Int /\ y \in Int /\ z \in Int
  BY <1>3 DEF Square
<1>5. (t + d) * T = x + y /\ (g + 1) * w = z + w
  BY <1>1, <1>2
<1> HIDE DEF x, y, z
<1>6. x + y - (z + w) = s - (c + w - y)
  BY <1>4
<1> QED
  BY <1>5, <1>6 DEF y, Square

-----------------------------------------------------------------------------
(* The weighted round robin *)

\* The heaviest nodes E may be, all together.
Heaviest(E) == SumOver(Base, E)

\* Currents as choices leave them: they add up to nothing, and no node is a round in debt.
Balanced(E, c) ==
    /\ E \subseteq Nodes
    /\ \A n \in E : c[n] \in Int /\ c[n] > -Heaviest(E)
    /\ SumOver(c, E) = 0

\* What a node has had over its share is what its current has lost since the counting began.
Accounted(E, t, start, c) ==
    \A n \in E : t[n] * Total(E) - SumOver(t, E) * weight[n] = start[n] - c[n]

SharesInv ==
    /\ WeightInv /\ \A n \in Nodes : weight[n] <= Base[n]
    /\ DOMAIN turns \subseteq Nodes /\ \A n \in DOMAIN turns : turns[n] \in Nat
    /\ algorithm = "weighted_round_robin" =>
           /\ Balanced(DOMAIN currents, currents)
           /\ DOMAIN turns # {} =>
                  /\ DOMAIN turns = DOMAIN currents
                  /\ \E start : /\ Balanced(DOMAIN turns, start)
                                /\ Accounted(DOMAIN turns, turns, start, currents)

LEMMA Totals ==
    ASSUME SharesInv, NEW E \in SUBSET Nodes, E # {}
    PROVE  /\ IsFiniteSet(E) /\ Cardinality(E) \in Nat \ {0}
           /\ Total(E) \in Nat \ {0} /\ Heaviest(E) \in Nat \ {0} /\ Total(E) <= Heaviest(E)
<1>1. IsFiniteSet(E) /\ Cardinality(E) \in Nat /\ Cardinality(E) # 0
  BY Ranks, FS_CardinalityType, FS_EmptySet
<1>2. \A n \in E : weight[n] \in Nat \ {0} /\ Base[n] \in Nat \ {0} /\ weight[n] <= Base[n]
  BY BalancerAssumption DEF SharesInv, WeightInv
<1> DEFINE lost == [n \in E |-> Base[n] - weight[n]]
<1>3. \A n \in E : lost[n] \in Int /\ lost[n] >= 0 /\ Base[n] = weight[n] + lost[n]
  BY <1>2
<1> HIDE DEF lost
<1>4. Heaviest(E) = Total(E) + SumOver(lost, E)
  BY <1>1, <1>2, <1>3, SumAdds DEF Heaviest, Total
<1>5. SumOver(lost, E) \in Int /\ SumOver(lost, E) >= 0
  <2>1. SumOver(lost, E) >= Cardinality(E) * 0
    BY <1>1, <1>3, SumLeast
  <2> QED
    BY <1>1, <1>3, <2>1, SumInteger
<1>6. Total(E) \in Int /\ Total(E) >= 1
  <2>1. \A n \in E : weight[n] \in Int /\ weight[n] >= 1
    BY <1>2
  <2>2. SumOver(weight, E) >= Cardinality(E) * 1 /\ SumOver(weight, E) \in Int
    BY <1>1, <2>1, SumLeast, SumInteger
  <2> QED
    BY <1>1, <2>2 DEF Total
<1> QED
  BY <1>1, <1>4, <1>5, <1>6

\* Each gains its weight, together a round, and one that has most pays the round: the sum
\* is nothing again, and who pays had something, since not all can have had nothing.
LEMMA ChargeBalances ==
    ASSUME SharesInv, NEW E \in SUBSET Nodes, E # {}, NEW c, Balanced(E, c), NEW n \in E, NEW h,
           \A m \in E : c[m] + weight[m] <= c[n] + weight[n],
           \A m \in E : h[m] = c[m] + weight[m] - (IF m = n THEN Total(E) ELSE 0)
    PROVE  Balanced(E, h)
<1>1. /\ IsFiniteSet(E) /\ Cardinality(E) \in Nat \ {0}
      /\ Total(E) \in Nat \ {0} /\ Heaviest(E) \in Nat \ {0} /\ Total(E) <= Heaviest(E)
  BY Totals
<1>2. \A m \in E : weight[m] \in Nat \ {0} /\ c[m] \in Int /\ c[m] > -Heaviest(E)
  BY DEF SharesInv, WeightInv, Balanced
<1> DEFINE grown == [m \in E |-> c[m] + weight[m]]
           paid == [m \in E |-> IF m = n THEN -Total(E) ELSE 0]
           back == [m \in E |-> -grown[m]]
           zero == [m \in E |-> 0]
<1>3. \A m \in E : grown[m] \in Int /\ grown[m] = c[m] + weight[m]
  BY <1>2
<1>4. \A m \in E : paid[m] \in Int /\ paid[m] = (IF m = n THEN -Total(E) ELSE 0)
                   /\ h[m] = grown[m] + paid[m]
  BY <1>1, <1>2
<1>5. \A m \in E : back[m] \in Int /\ back[m] = -grown[m] /\ zero[m] = grown[m] + back[m] /\ zero[m] = 0
  BY <1>3
<1> HIDE DEF grown, paid, back, zero
<1>6. SumOver(grown, E) = Total(E)
  <2>1. SumOver(grown, E) = SumOver(c, E) + SumOver(weight, E)
    BY <1>1, <1>2, <1>3, SumAdds
  <2> QED
    BY <1>1, <2>1 DEF Balanced, Total
<1>7. grown[n] >= 1
  <2> SUFFICES ASSUME grown[n] <= 0 PROVE FALSE
    BY <1>3
  <2>1. \A m \in E : back[m] >= 0
    BY <1>3, <1>5
  <2>2. SumOver(back, E) >= 0 /\ SumOver(back, E) \in Int
    <3>1. \A m \in E : back[m] \in Int /\ back[m] >= 0
      BY <1>5, <2>1
    <3>2. SumOver(back, E) >= Cardinality(E) * 0
      BY <1>1, <3>1, SumLeast
    <3>3. Cardinality(E) * 0 = 0
      BY <1>1
    <3> QED
      BY <1>1, <3>1, <3>2, <3>3, SumInteger
  <2>3. SumOver(zero, E) = SumOver(grown, E) + SumOver(back, E) /\ SumOver(zero, E) = 0
    BY <1>1, <1>3, <1>5, SumAdds, SumZero
  <2> QED
    BY <1>1, <1>6, <2>2, <2>3
<1>8. SumOver(h, E) = 0
  <2>1. SumOver(paid, E) = -Total(E)
    <3>1. -Total(E) \in Int
      BY <1>1
    <3> QED
      BY <1>1, <1>4, <3>1, SumOne
  <2>2. SumOver(h, E) = SumOver(grown, E) + SumOver(paid, E)
    BY <1>1, <1>3, <1>4, SumAdds
  <2> QED
    BY <1>1, <1>6, <2>1, <2>2
<1>9. ASSUME NEW m \in E PROVE h[m] \in Int /\ h[m] > -Heaviest(E)
  <2>1. CASE m = n
    BY <1>1, <1>3, <1>4, <1>7, <2>1
  <2>2. CASE m # n
    BY <1>1, <1>2, <1>3, <1>4, <2>2
  <2> QED
    BY <2>1, <2>2
<1> QED
  BY <1>8, <1>9 DEF Balanced

\* One more choice, of n, keeps the accounts.
LEMMA ChargeAccounts ==
    ASSUME SharesInv, NEW E \in SUBSET Nodes, E # {}, NEW c, Balanced(E, c), NEW n \in E, NEW h,
           \A m \in E : h[m] = c[m] + weight[m] - (IF m = n THEN Total(E) ELSE 0),
           NEW t, \A m \in E : t[m] \in Nat,
           NEW u, \A m \in E : u[m] = IF m = n THEN t[m] + 1 ELSE t[m],
           NEW start, Balanced(E, start), Accounted(E, t, start, c)
    PROVE  Accounted(E, u, start, h)
<1>1. IsFiniteSet(E) /\ Total(E) \in Nat
  BY Totals
<1> DEFINE one == [m \in E |-> IF m = n THEN 1 ELSE 0]
<1>2. \A m \in E : one[m] = (IF m = n THEN 1 ELSE 0) /\ one[m] \in Int /\ u[m] = t[m] + one[m]
  OBVIOUS
<1> HIDE DEF one
<1>3. SumOver(u, E) = SumOver(t, E) + 1
  <2>1. SumOver(one, E) = 1
    BY <1>1, <1>2, SumOne
  <2>2. SumOver(u, E) = SumOver(t, E) + SumOver(one, E)
    BY <1>1, <1>2, SumAdds
  <2> QED
    BY <2>1, <2>2
<1>4. SumOver(t, E) \in Int
  BY <1>1, SumInteger
<1>5. ASSUME NEW m \in E PROVE u[m] * Total(E) - SumOver(u, E) * weight[m] = start[m] - h[m]
  <2>1. weight[m] \in Nat /\ c[m] \in Int /\ start[m] \in Int /\ t[m] \in Nat
    BY DEF SharesInv, WeightInv, Balanced
  <2>2. t[m] * Total(E) - SumOver(t, E) * weight[m] = start[m] - c[m]
    BY DEF Accounted
  <2> DEFINE G == SumOver(t, E)
             T == Total(E)
             w == weight[m]
             d == IF m = n THEN 1 ELSE 0
  <2>3. G \in Int /\ T \in Int /\ w \in Int /\ d \in Int /\ t[m] \in Int /\ d * T = IF m = n THEN T ELSE 0
    BY <1>1, <1>4, <2>1
  <2>4. SumOver(u, E) = G + 1 /\ u[m] = t[m] + d /\ h[m] = c[m] + w - d * T
    BY <1>3, <2>1, <2>3
  <2>5. Square(t[m], G, T, w, start[m], c[m])
    BY <2>2 DEF Square
  <2> HIDE DEF G, T, w, d
  <2>6. Square(t[m] + d, G + 1, T, w, start[m], c[m] + w - d * T)
    BY <2>1, <2>3, <2>5, Charging
  <2>7. u[m] * T - SumOver(u, E) * w = start[m] - h[m]
    BY <2>4, <2>6, Zenon DEF Square
  <2> QED
    BY <2>7 DEF T, w
<1> QED
  BY <1>5 DEF Accounted

LEMMA SharesInitInv == BalancerInit => SharesInv
<1> SUFFICES ASSUME BalancerInit PROVE SharesInv
  OBVIOUS
<1>1. currents = <<>> /\ turns = <<>> /\ weight = Base /\ fit = Nodes
  BY DEF BalancerInit
<1>2. WeightInv /\ \A n \in Nodes : weight[n] <= Base[n]
  BY <1>1, BalancerAssumption DEF WeightInv
<1>3. DOMAIN currents = {} /\ DOMAIN turns = {}
  BY <1>1
<1>4. Balanced(DOMAIN currents, currents)
  BY <1>3, SumEmpty DEF Balanced
<1> QED
  BY <1>2, <1>3, <1>4 DEF SharesInv

\* The currents and the turns a choice among E begins with.
LEMMA ChoiceBegins ==
    ASSUME SharesInv, algorithm = "weighted_round_robin", NEW E \in SUBSET Nodes, E # {}
    PROVE  \E c, start :
              /\ \A m \in E : Grown(E)[m] = c[m] + weight[m]
              /\ Balanced(E, c) /\ Balanced(E, start) /\ Accounted(E, Counted(E), start, c)
<1>1. /\ IsFiniteSet(E) /\ Total(E) \in Nat \ {0} /\ Heaviest(E) \in Nat \ {0}
  BY Totals
<1> DEFINE zero == [m \in E |-> 0]
<1>2. Balanced(E, zero)
  <2>1. \A m \in E : zero[m] = 0
    OBVIOUS
  <2> HIDE DEF zero
  <2>2. SumOver(zero, E) = 0
    BY <1>1, <2>1, SumZero
  <2> QED
    BY <1>1, <2>1, <2>2 DEF Balanced
<1>3. ASSUME NEW c, Balanced(E, c), DOMAIN turns # E PROVE Accounted(E, Counted(E), c, c)
  <2>1. \A m \in E : Counted(E)[m] = 0
    BY <1>3 DEF Counted
  <2>2. SumOver(Counted(E), E) = 0
    BY <1>1, <2>1, SumZero
  <2>3. \A m \in E : weight[m] \in Int /\ c[m] \in Int
    BY <1>3 DEF Balanced, SharesInv, WeightInv
  <2>4. \A m \in E : 0 * Total(E) - 0 * weight[m] = c[m] - c[m]
    BY <1>1, <2>3
  <2> QED
    BY <2>1, <2>2, <2>4 DEF Accounted
<1>4. CASE DOMAIN currents # E
  <2>1. \A m \in E : Grown(E)[m] = zero[m] + weight[m]
    BY <1>4 DEF Grown
  <2>2. DOMAIN turns # E
    BY <1>4 DEF SharesInv
  <2> HIDE DEF zero
  <2> QED
    BY <1>2, <1>3, <2>1, <2>2
<1>5. CASE DOMAIN currents = E /\ DOMAIN turns # E
  <2>1. \A m \in E : Grown(E)[m] = currents[m] + weight[m]
    BY <1>5 DEF Grown
  <2>2. Balanced(E, currents)
    BY <1>5 DEF SharesInv
  <2> QED
    BY <1>3, <1>5, <2>1, <2>2
<1>6. CASE DOMAIN currents = E /\ DOMAIN turns = E
  <2>1. \A m \in E : Grown(E)[m] = currents[m] + weight[m]
    BY <1>6 DEF Grown
  <2>2. Balanced(E, currents) /\ Counted(E) = turns
    BY <1>6 DEF SharesInv, Counted
  <2>3. PICK start : Balanced(E, start) /\ Accounted(E, turns, start, currents)
    BY <1>6 DEF SharesInv
  <2> QED
    BY <2>1, <2>2, <2>3
<1> QED
  BY <1>4, <1>5, <1>6

LEMMA ShareChooses ==
    ASSUME SharesInv, NEW k \in Keys, Choose(k)
    PROVE  SharesInv'
<1> DEFINE E == Eligible
<1>1. E \in SUBSET Nodes /\ E # {}
  BY DEF Choose, Eligible, Free, SharesInv, WeightInv
<1>2. UNCHANGED <<algorithm, fit, weight>>
  BY DEF Choose
<1>3. PICK n \in Selected(E, k) :
         /\ currents' = IF algorithm = "weighted_round_robin" THEN Charged(E, n) ELSE currents
         /\ turns' = [Counted(E) EXCEPT ![n] = @ + 1]
  BY DEF Choose
<1>4. DOMAIN Counted(E) = E /\ \A m \in E : Counted(E)[m] \in Nat
  BY DEF Counted, SharesInv
<1>5. DOMAIN turns' = E /\ \A m \in E : turns'[m] = (IF m = n THEN Counted(E)[m] + 1 ELSE Counted(E)[m]) /\ turns'[m] \in Nat
  BY <1>3, <1>4
<1> DEFINE Conclusion == /\ Balanced(E, currents')
                         /\ \E start : Balanced(E, start) /\ Accounted(E, turns', start, currents')
<1>6. ASSUME algorithm = "weighted_round_robin"
      PROVE  DOMAIN currents' = E /\ Conclusion
  <2>1. PICK c, start :
           /\ \A m \in E : Grown(E)[m] = c[m] + weight[m]
           /\ Balanced(E, c) /\ Balanced(E, start) /\ Accounted(E, Counted(E), start, c)
    BY <1>1, <1>6, ChoiceBegins
  <2>2. n \in E /\ \A m \in E \ {n} : Before(n, m)
    BY <1>3, <1>6 DEF Selected, WeightedRoundRobin
  <2>3. \A m \in E : c[m] \in Int /\ weight[m] \in Nat /\ Grown(E)[m] \in Int
    BY <1>1, <2>1 DEF Balanced, SharesInv, WeightInv
  <2>4. \A m \in E : c[m] + weight[m] <= c[n] + weight[n]
    <3>1. ASSUME NEW m \in E, m # n PROVE Grown(E)[m] <= Grown(E)[n]
      BY <2>2, <2>3, <3>1 DEF Before
    <3> HIDE DEF E
    <3> QED
      BY <2>1, <2>2, <2>3, <3>1
  <2>5. DOMAIN currents' = E /\ \A m \in E : currents'[m] = IF m = n THEN Grown(E)[m] - Total(E) ELSE Grown(E)[m]
    BY <1>3, <1>6, <2>2 DEF Charged, Grown
  <2>6. \A m \in E : currents'[m] = c[m] + weight[m] - (IF m = n THEN Total(E) ELSE 0)
    BY <1>1, <2>1, <2>3, <2>5, Totals
  <2> HIDE DEF E
  <2>7. Balanced(E, currents')
    BY <1>1, <2>1, <2>2, <2>4, <2>6, ChargeBalances
  <2>8. Accounted(E, turns', start, currents')
    BY <1>1, <1>4, <1>5, <2>1, <2>2, <2>6, ChargeAccounts
  <2> QED
    BY <2>1, <2>5, <2>7, <2>8
<1> HIDE DEF E
<1> QED
  BY <1>1, <1>2, <1>5, <1>6 DEF SharesInv, WeightInv, Balanced, Accounted, Total, Heaviest

LEMMA SharesReweigh ==
    ASSUME SharesInv, NEW n \in Nodes, Reweigh(n)
    PROVE  SharesInv'
<1>1. turns' = <<>> /\ DOMAIN turns' = {} /\ UNCHANGED <<fit, currents, algorithm>>
  BY DEF Reweigh
<1>2. Base[n] \in Nat \ {0} /\ weight' = [weight EXCEPT ![n] = IF @ = Base[n] THEN Max({1, Base[n] \div 2}) ELSE Base[n]]
  BY BalancerAssumption DEF Reweigh
<1>3. Max({1, Base[n] \div 2}) \in Nat \ {0} /\ Max({1, Base[n] \div 2}) <= Base[n]
  BY <1>2, HalvedWeight
<1>4. weight' \in [Nodes -> Nat \ {0}] /\ \A m \in Nodes : weight'[m] <= Base[m]
  BY <1>2, <1>3 DEF SharesInv, WeightInv
<1> QED
  BY <1>1, <1>4 DEF SharesInv, WeightInv, Balanced, Heaviest

LEMMA SharesNext == SharesInv /\ [BalancerNext]_balancerVars => SharesInv'
<1> SUFFICES ASSUME SharesInv, [BalancerNext]_balancerVars PROVE SharesInv'
  OBVIOUS
<1>1. ASSUME UNCHANGED <<algorithm, weight, currents, turns>>, fit' \subseteq Nodes PROVE SharesInv'
  BY <1>1 DEF SharesInv, WeightInv, Balanced, Heaviest, Accounted, Total
<1>2. CASE UNCHANGED balancerVars
  BY <1>1, <1>2 DEF balancerVars, SharesInv, WeightInv
<1>3. ASSUME NEW n \in Nodes, Release(n) PROVE SharesInv'
  BY <1>1, <1>3 DEF Release, SharesInv, WeightInv
<1>4. ASSUME NEW n \in Nodes, FitChanges(n) PROVE SharesInv'
  BY <1>1, <1>4 DEF FitChanges, SharesInv, WeightInv
<1> QED
  BY <1>2, <1>3, <1>4, ShareChooses, SharesReweigh DEF BalancerNext

\* However often it chooses, and with whatever currents it begins, the weighted round robin
\* is off a node's share by less than a round for each node: what a node is off is what its
\* current has moved, no current is a round in debt, and they add up to nothing
\* (_weighted_round_robin).
THEOREM SharesAreKept == BalancerSpec => []SharesKept
<1>1. SharesInv => SharesKept
  <2> SUFFICES ASSUME SharesInv, algorithm = "weighted_round_robin", NEW n \in DOMAIN turns
      PROVE  LET E == DOMAIN turns
                 off == turns[n] * Total(E) - SumOver(turns, E) * weight[n]
                 slack == Cardinality(E) * SumOver(Base, E)
             IN  -slack < off /\ off < slack
    BY DEF SharesKept
  <2> DEFINE E == DOMAIN turns
             N == Cardinality(E)
             b == Heaviest(E) - 1
  <2>1. E \in SUBSET Nodes /\ E # {}
    BY DEF SharesInv
  <2>2. PICK start : Balanced(E, start) /\ Accounted(E, turns, start, currents)
    BY DEF SharesInv
  <2>3. Balanced(E, currents)
    BY DEF SharesInv
  <2>4. turns[n] * Total(E) - SumOver(turns, E) * weight[n] = start[n] - currents[n]
    BY <2>2 DEF Accounted
  <2> HIDE DEF E
  <2>5. IsFiniteSet(E) /\ N \in Nat \ {0} /\ b \in Nat /\ Heaviest(E) = b + 1
    BY <2>1, Totals
  <2>6. ASSUME NEW x, Balanced(E, x) PROVE x[n] \in Int /\ x[n] >= -b /\ x[n] <= (N - 1) * b
    <3>1. \A m \in E : x[m] \in Int /\ x[m] >= -b
      BY <2>5, <2>6 DEF Balanced
    <3> HIDE DEF b
    <3>2. n \in E /\ SumOver(x, E) = 0
      BY <2>6 DEF E, Balanced
    <3> QED
      BY <2>5, <3>1, <3>2, SumBounds
  <2>7. /\ start[n] \in Int /\ start[n] >= -b /\ start[n] <= (N - 1) * b
        /\ currents[n] \in Int /\ currents[n] >= -b /\ currents[n] <= (N - 1) * b
    BY <2>2, <2>3, <2>6
  <2>8. N * Heaviest(E) = N * b + N /\ (N - 1) * b = N * b - b /\ N * b \in Int
    <3> HIDE DEF N, b
    <3> QED
      BY <2>5
  <2> HIDE DEF N, b
  <2>9. -(N * Heaviest(E)) < start[n] - currents[n] /\ start[n] - currents[n] < N * Heaviest(E)
    BY <2>5, <2>7, <2>8
  <2> QED
    BY <2>4, <2>9 DEF E, N, Heaviest
<1> QED
  BY <1>1, SharesInitInv, SharesNext, PTL DEF BalancerSpec

\* The variables of the balancer have their types, for any nodes (_round_robin,
\* _weighted_round_robin): the cursor is a place among the nodes, and the currents are
\* numbers.
THEOREM BalancerTypeCorrect == BalancerSpec => []BalancerTypeOK
<1> DEFINE Inv == BalancerTypeOK /\ SharesInv /\ RobinInv
<1>1. BalancerInit => BalancerTypeOK
  <2> SUFFICES ASSUME BalancerInit PROVE BalancerTypeOK
    OBVIOUS
  <2>1. DOMAIN currents = {} /\ DOMAIN turns = {}
    BY DEF BalancerInit
  <2> QED
    BY <2>1, BalancerAssumption DEF BalancerInit, BalancerTypeOK
<1>2. ASSUME BalancerTypeOK, SharesInv, RobinInv, NEW k \in Keys, Choose(k) PROVE BalancerTypeOK'
  <2> DEFINE E == Eligible
  <2>1. E \in SUBSET Nodes /\ E # {}
    BY <1>2 DEF Choose, Eligible, Free, BalancerTypeOK
  <2>2. PICK n \in Selected(E, k) :
          /\ active' = IF active[n] < Slots[n] THEN [active EXCEPT ![n] = @ + 1] ELSE active
          /\ currents' = IF algorithm = "weighted_round_robin" THEN Charged(E, n) ELSE currents
          /\ turns' = [Counted(E) EXCEPT ![n] = @ + 1]
    BY <1>2 DEF Choose
  <2>3. /\ cursor' = IF algorithm = "round_robin" THEN NextCursor(E) ELSE cursor
        /\ UNCHANGED <<algorithm, fit, weight>>
    BY <1>2 DEF Choose
  <2>4. active' \in [Nodes -> Nat] /\ \A m \in Nodes : active'[m] <= Slots[m]
    <3>1. active \in [Nodes -> Nat] /\ \A m \in Nodes : active[m] <= Slots[m] /\ Slots[m] \in Nat
      BY <1>2, BalancerAssumption DEF BalancerTypeOK
    <3>2. active' = active \/ (active[n] < Slots[n] /\ active' = [active EXCEPT ![n] = @ + 1])
      BY <2>2
    <3>3. CASE n \in Nodes
      BY <3>1, <3>2, <3>3
    <3>4. CASE n \notin Nodes
      <4>1. active' = active
        BY <3>1, <3>2, <3>4
      <4> QED
        BY <3>1, <4>1
    <3> QED
      BY <3>3, <3>4
  <2>5. DOMAIN turns' \subseteq Nodes /\ \A m \in DOMAIN turns' : turns'[m] \in Nat
    BY <1>2, <2>1, <2>2 DEF BalancerTypeOK, Counted
  <2>6. DOMAIN currents' \subseteq Nodes /\ \A m \in DOMAIN currents' : currents'[m] \in Int
    <3>1. Total(E) \in Int
      BY <1>2, <2>1, Totals
    <3>2. DOMAIN Grown(E) = E /\ \A m \in E : Grown(E)[m] \in Int
      BY <1>2, <2>1 DEF Grown, BalancerTypeOK
    <3> HIDE DEF E
    <3> QED
      BY <1>2, <2>1, <2>2, <3>1, <3>2 DEF BalancerTypeOK, Charged
  <2>7. cursor' \in {0} \cup 0 .. Cardinality(Nodes) - 1
    <3>1. /\ Cardinality(E) \in Nat /\ Cardinality(E) # 0 /\ Cardinality(Nodes) \in Nat
          /\ Cardinality(E) <= Cardinality(Nodes)
      BY <2>1, NodesFinite, FS_Subset, FS_CardinalityType, FS_EmptySet
    <3>2. cursor % Cardinality(E) \in 0 .. Cardinality(E) - 1 /\ NextCursor(E) \in 0 .. Cardinality(E) - 1
      <4> HIDE DEF E
      <4> QED
        BY <1>2, <3>1, Modulo DEF RobinInv, NextCursor
    <3> HIDE DEF E
    <3> QED
      BY <1>2, <2>3, <3>1, <3>2 DEF BalancerTypeOK
  <2> QED
    BY <1>2, <2>3, <2>4, <2>5, <2>6, <2>7 DEF BalancerTypeOK
<1>3. ASSUME BalancerTypeOK, SharesInv', RobinInv', NEW n \in Nodes, Release(n) \/ FitChanges(n) \/ Reweigh(n)
      PROVE  BalancerTypeOK'
  <2>1. CASE Release(n)
    <3>1. active \in [Nodes -> Nat] /\ \A m \in Nodes : active[m] <= Slots[m] /\ Slots[m] \in Nat
      BY <1>3, BalancerAssumption DEF BalancerTypeOK
    <3>2. active[n] > 0 /\ active' = [active EXCEPT ![n] = @ - 1]
      BY <2>1 DEF Release
    <3>3. active' \in [Nodes -> Nat] /\ \A m \in Nodes : active'[m] <= Slots[m]
      BY <3>1, <3>2
    <3> QED
      BY <1>3, <2>1, <3>3 DEF Release, BalancerTypeOK
  <2>2. CASE FitChanges(n)
    BY <1>3, <2>2 DEF FitChanges, BalancerTypeOK
  <2>3. CASE Reweigh(n)
    BY <1>3, <2>3 DEF Reweigh, BalancerTypeOK, SharesInv, WeightInv, RobinInv
  <2> QED
    BY <1>3, <2>1, <2>2, <2>3
<1>4. Inv /\ [BalancerNext]_balancerVars => Inv'
  <2> SUFFICES ASSUME Inv, [BalancerNext]_balancerVars PROVE Inv'
    OBVIOUS
  <2>1. SharesInv' /\ RobinInv'
    BY SharesNext, RobinNext
  <2>2. CASE UNCHANGED balancerVars
    BY <2>1, <2>2 DEF balancerVars, BalancerTypeOK
  <2> QED
    BY <1>2, <1>3, <2>1, <2>2 DEF BalancerNext
<1> QED
  BY <1>1, <1>4, SharesInitInv, RobinInitInv, PTL DEF BalancerSpec

-----------------------------------------------------------------------------
(* The stream                                                               *)

(* Conversion is a fold *)

\* The states the converter goes through exist: each prefix of the chunk has its own.
LEMMA ConvertedSteps ==
    ASSUME NEW chunk, Len(chunk) \in Nat
    PROVE  \E f : /\ f[0] = [line |-> rest, events |-> <<>>]
                  /\ \A i \in 1 .. Len(chunk) : f[i] = Feed(f[i - 1], chunk[i])
                  /\ Converted(chunk) = f[Len(chunk)]
<1> DEFINE start == [line |-> rest, events |-> <<>>]
           Is(g, n) == g = [i \in 0 .. n |-> IF i = 0 THEN start ELSE Feed(g[i - 1], chunk[i])]
           S == {n \in Nat : \E g : Is(g, n)}
           f == CHOOSE g : Is(g, Len(chunk))
<1>1. 0 \in S
  <2> DEFINE g == [i \in 0 .. 0 |-> start]
  <2>1. Is(g, 0)
    OBVIOUS
  <2> QED
    BY <2>1
<1>2. ASSUME NEW n \in S PROVE n + 1 \in S
  <2>1. PICK g : Is(g, n)
    OBVIOUS
  <2> DEFINE h == [i \in 0 .. n + 1 |-> IF i = n + 1 THEN Feed(g[n], chunk[n + 1]) ELSE g[i]]
  <2>2. n \in Nat
    OBVIOUS
  <2>3. ASSUME NEW i \in 0 .. n + 1
        PROVE  h[i] = IF i = 0 THEN start ELSE Feed(h[i - 1], chunk[i])
    <3> HIDE DEF start
    <3>1. CASE i = n + 1
      <4>1. i - 1 = n /\ i # 0 /\ n \in 0 .. n + 1 /\ n # n + 1
        BY <2>2, <3>1
      <4>2. h[i] = Feed(g[n], chunk[n + 1]) /\ h[n] = g[n]
        BY <3>1, <4>1
      <4> HIDE DEF h
      <4> QED
        BY <3>1, <4>1, <4>2
    <3>2. CASE i = 0
      BY <2>1, <2>2, <3>2
    <3>3. CASE i # n + 1 /\ i # 0
      <4>1. i \in 0 .. n /\ i - 1 \in 0 .. n + 1 /\ i - 1 # n + 1
        BY <2>2, <3>3
      <4>2. h[i] = g[i] /\ h[i - 1] = g[i - 1]
        BY <3>3, <4>1
      <4>3. g[i] = Feed(g[i - 1], chunk[i])
        BY <2>1, <3>3, <4>1
      <4> HIDE DEF h
      <4> QED
        BY <3>3, <4>2, <4>3
    <3> QED
      BY <3>1, <3>2, <3>3
  <2>4. Is(h, n + 1)
    BY <2>3
  <2> HIDE DEF Is
  <2> QED
    BY <2>2, <2>4
<1>3. Is(f, Len(chunk))
  <2>1. S = Nat
    <3> HIDE DEF Is
    <3> QED
      BY <1>1, <1>2, Induct
  <2>2. \E g : Is(g, Len(chunk))
    <3> HIDE DEF Is
    <3> QED
      BY <2>1
  <2> HIDE DEF Is
  <2> QED
    BY <2>2
<1>4. Converted(chunk) = f[Len(chunk)]
  BY DEF Converted
<1> HIDE DEF f
<1>5. 0 \in 0 .. Len(chunk) /\ f[0] = start
  BY <1>3
<1>6. ASSUME NEW i \in 1 .. Len(chunk) PROVE f[i] = Feed(f[i - 1], chunk[i])
  <2>1. i \in 0 .. Len(chunk) /\ i # 0
    OBVIOUS
  <2> QED
    BY <1>3, <2>1
<1> QED
  BY <1>4, <1>5, <1>6

-----------------------------------------------------------------------------
(* The events of a reply, and that they keep the promise *)

Opening(c) == IF c = "chat" THEN 1 ELSE 0

\* A reply of t texts, with its end.
Events(c, t, tail) ==
    [i \in 1 .. Opening(c) + t + Len(tail) |->
        IF i <= Opening(c) THEN Role
        ELSE IF i <= Opening(c) + t THEN Text(i - Opening(c))
        ELSE tail[i - Opening(c) - t]]

Event == {Role, Finish, Usage, Error, Done} \cup {Text(i) : i \in Nat}
Tails == {<<>>, <<Finish>>, <<Finish, Done>>, <<Finish, Usage, Done>>, <<Done>>, <<Error, Done>>,
          <<Finish, Error, Done>>}

\* An end that is true of the node and of the connection to it.
Finished == {<<Finish>>, <<Finish, Done>>, <<Finish, Usage, Done>>, <<Finish, Error, Done>>}
Failed == {<<Error, Done>>, <<Finish, Error, Done>>}
Fair(tail, t, texts, end, conn) ==
    /\ tail \in Finished => t = texts /\ end = "done"
    /\ tail \in Failed => end = "error" \/ conn = "broken"
    /\ tail \in {<<Done>>, <<Finish, Done>>, <<Finish, Usage, Done>>} => conn # "open"

LEMMA EventKinds ==
    /\ Role # Finish /\ Role # Usage /\ Role # Error /\ Role # Done /\ Finish # Usage /\ Finish # Error
    /\ Finish # Done /\ Usage # Error /\ Usage # Done /\ Error # Done
    /\ \A i : Text(i) \notin {Role, Finish, Usage, Error, Done} /\ Text(i)[1] = "text" /\ Text(i)[2] = i
    /\ \A e \in {Role, Finish, Usage, Error, Done} : e[1] # "text"
    /\ \A i, j : Text(i) = Text(j) => i = j
BY DEF Role, Finish, Usage, Error, Done, Text

LEMMA Turns ==
    /\ Turn(Role) = 1 /\ Turn(Finish) = 3 /\ Turn(Error) = 4 /\ Turn(Usage) = 5 /\ Turn(Done) = 6
    /\ \A i : Turn(Text(i)) = 2
BY EventKinds DEF Turn

LEMMA TailType ==
    ASSUME NEW tail \in Tails
    PROVE  /\ tail \in Seq(Event) /\ Len(tail) \in 0 .. 3 /\ DOMAIN tail = 1 .. Len(tail)
           /\ \A i \in 1 .. Len(tail) : tail[i] \in {Finish, Usage, Error, Done}
           /\ \A i, j \in 1 .. Len(tail) : i < j => Turn(tail[i]) < Turn(tail[j])
           /\ (\E i \in 1 .. Len(tail) : tail[i] = Usage) => tail = <<Finish, Usage, Done>>
           /\ (\E i \in 1 .. Len(tail) : tail[i] = Finish) <=> tail \in Finished
           /\ (\E i \in 1 .. Len(tail) : tail[i] = Error) <=> tail \in Failed
           /\ (\E i \in 1 .. Len(tail) : tail[i] = Done) => tail \notin {<<>>, <<Finish>>}
<1>1. CASE tail = <<>>
  BY <1>1 DEF Finished, Failed
<1>2. CASE tail = <<Finish>>
  BY <1>2, EventKinds, Turns DEF Event, Finished, Failed
<1>3. CASE tail = <<Finish, Done>>
  BY <1>3, EventKinds, Turns DEF Event, Finished, Failed
<1>4. CASE tail = <<Finish, Usage, Done>>
  BY <1>4, EventKinds, Turns DEF Event, Finished, Failed
<1>5. CASE tail = <<Done>>
  BY <1>5, EventKinds, Turns DEF Event, Finished, Failed
<1>6. CASE tail = <<Error, Done>>
  BY <1>6, EventKinds, Turns DEF Event, Finished, Failed
<1>7. CASE tail = <<Finish, Error, Done>>
  BY <1>7, EventKinds, Turns DEF Event, Finished, Failed
<1> QED
  BY <1>1, <1>2, <1>3, <1>4, <1>5, <1>6, <1>7 DEF Tails

LEMMA EventsType ==
    ASSUME NEW c, NEW t \in Nat, NEW tail \in Seq(Event)
    PROVE  /\ Events(c, t, tail) \in Seq(Event)
           /\ Len(Events(c, t, tail)) = Opening(c) + t + Len(tail)
           /\ DOMAIN Events(c, t, tail) = 1 .. Opening(c) + t + Len(tail)
           /\ Opening(c) \in {0, 1} /\ Len(tail) \in Nat
           /\ \A i \in DOMAIN Events(c, t, tail) :
                 Events(c, t, tail)[i] = IF i <= Opening(c) THEN Role
                                         ELSE IF i <= Opening(c) + t THEN Text(i - Opening(c))
                                         ELSE tail[i - Opening(c) - t]
<1> DEFINE n == Opening(c) + t + Len(tail)
           s == Events(c, t, tail)
<1>1. Opening(c) \in {0, 1} /\ Len(tail) \in Nat /\ n \in Nat
  BY DEF Opening
<1>2. \A i \in 1 .. n : s[i] = IF i <= Opening(c) THEN Role
                        ELSE IF i <= Opening(c) + t THEN Text(i - Opening(c))
                        ELSE tail[i - Opening(c) - t]
  BY DEF Events
<1>3. \A i \in 1 .. n : s[i] \in Event
  <2> SUFFICES ASSUME NEW i \in 1 .. n PROVE s[i] \in Event
    OBVIOUS
  <2>1. CASE i <= Opening(c)
    BY <1>2, <2>1 DEF Event
  <2>2. CASE ~(i <= Opening(c)) /\ i <= Opening(c) + t
    <3>1. i - Opening(c) \in Nat
      BY <1>1, <2>2
    <3> QED
      BY <1>2, <2>2, <3>1 DEF Event
  <2>3. CASE ~(i <= Opening(c)) /\ ~(i <= Opening(c) + t)
    <3>1. i - Opening(c) - t \in 1 .. Len(tail)
      BY <1>1, <2>3
    <3> QED
      BY <1>2, <2>3, <3>1
  <2> QED
    BY <2>1, <2>2, <2>3
<1>4. s = [i \in 1 .. n |-> s[i]]
  BY DEF Events
<1>5. s \in Seq(Event) /\ Len(s) = n /\ DOMAIN s = 1 .. n
  <2> HIDE DEF s, n
  <2> QED
    BY <1>1, <1>3, <1>4
<1> QED
  BY <1>1, <1>2, <1>5

\* More events at the end; a text more.
LEMMA EventsAppend ==
    ASSUME NEW c, NEW t \in Nat, NEW a \in Seq(Event), NEW b \in Seq(Event)
    PROVE  Events(c, t, a) \o b = Events(c, t, a \o b)
<1> DEFINE s == Events(c, t, a)
           u == Events(c, t, a \o b)
<1>1. /\ s \in Seq(Event) /\ Len(s) = Opening(c) + t + Len(a) /\ Opening(c) \in {0, 1}
      /\ \A i \in DOMAIN s : s[i] = IF i <= Opening(c) THEN Role
                                    ELSE IF i <= Opening(c) + t THEN Text(i - Opening(c))
                                    ELSE a[i - Opening(c) - t]
  BY EventsType
<1>2. /\ u \in Seq(Event) /\ Len(u) = Opening(c) + t + Len(a \o b)
      /\ \A i \in DOMAIN u : u[i] = IF i <= Opening(c) THEN Role
                                    ELSE IF i <= Opening(c) + t THEN Text(i - Opening(c))
                                    ELSE (a \o b)[i - Opening(c) - t]
  <2>1. a \o b \in Seq(Event)
    OBVIOUS
  <2> QED
    BY <2>1, EventsType
<1>3. /\ Len(a \o b) = Len(a) + Len(b) /\ Len(a) \in Nat /\ Len(b) \in Nat
      /\ \A i \in 1 .. Len(a) + Len(b) : (a \o b)[i] = IF i <= Len(a) THEN a[i] ELSE b[i - Len(a)]
  OBVIOUS
<1>4. /\ s \o b \in Seq(Event) /\ Len(s \o b) = Len(s) + Len(b)
      /\ \A i \in 1 .. Len(s) + Len(b) : (s \o b)[i] = IF i <= Len(s) THEN s[i] ELSE b[i - Len(s)]
  BY <1>1
<1> HIDE DEF s, u
<1>5. \A i \in 1 .. Len(s \o b) : (s \o b)[i] = u[i]
  <2> SUFFICES ASSUME NEW i \in 1 .. Len(s) + Len(b) PROVE (s \o b)[i] = u[i]
    BY <1>4
  <2>1. i \in DOMAIN u
    BY <1>1, <1>2, <1>3
  <2>2. CASE i <= Len(s)
    <3>1. i \in DOMAIN s /\ (s \o b)[i] = s[i]
      BY <1>1, <1>3, <1>4, <2>2
    <3>2. CASE i <= Opening(c) + t
      BY <1>1, <1>2, <2>1, <3>1, <3>2
    <3>3. CASE ~(i <= Opening(c) + t)
      <4>1. ~(i <= Opening(c)) /\ i - Opening(c) - t \in 1 .. Len(a)
        BY <1>1, <1>3, <2>2, <3>3
      <4>2. (a \o b)[i - Opening(c) - t] = a[i - Opening(c) - t]
        BY <1>3, <4>1
      <4> QED
        BY <1>1, <1>2, <2>1, <3>1, <3>3, <4>1, <4>2
    <3> QED
      BY <3>2, <3>3
  <2>3. CASE ~(i <= Len(s))
    <3>1. (s \o b)[i] = b[i - Len(s)] /\ ~(i <= Opening(c)) /\ ~(i <= Opening(c) + t)
      BY <1>1, <1>3, <1>4, <2>3
    <3>2. i - Opening(c) - t \in 1 .. Len(a) + Len(b) /\ ~(i - Opening(c) - t <= Len(a))
          /\ i - Opening(c) - t - Len(a) = i - Len(s)
      BY <1>1, <1>3, <2>3
    <3>3. (a \o b)[i - Opening(c) - t] = b[i - Len(s)]
      BY <1>3, <3>2
    <3> QED
      BY <1>2, <2>1, <3>1, <3>3
  <2> QED
    BY <2>2, <2>3
<1>6. Len(s \o b) = Len(u)
  BY <1>1, <1>2, <1>3, <1>4
<1> QED
  BY <1>2, <1>4, <1>5, <1>6 DEF s, u

LEMMA EventsText ==
    ASSUME NEW c, NEW t \in Nat
    PROVE  Events(c, t, <<>>) \o <<Text(t + 1)>> = Events(c, t + 1, <<>>)
<1>1. <<Text(t + 1)>> \in Seq(Event) /\ <<>> \in Seq(Event) /\ t + 1 \in Nat
  BY DEF Event
<1>2. Events(c, t, <<>>) \o <<Text(t + 1)>> = Events(c, t, <<Text(t + 1)>>)
  <2>1. <<>> \o <<Text(t + 1)>> = <<Text(t + 1)>>
    BY <1>1
  <2>2. Events(c, t, <<>>) \o <<Text(t + 1)>> = Events(c, t, <<>> \o <<Text(t + 1)>>)
    BY <1>1, EventsAppend, Zenon
  <2> QED
    BY <2>1, <2>2, Zenon
<1>3. Len(<<Text(t + 1)>>) = 1 /\ Len(<<>>) = 0 /\ <<Text(t + 1)>>[1] = Text(t + 1) /\ Opening(c) \in {0, 1}
  BY DEF Opening
<1>4. Opening(c) + t + 1 = Opening(c) + (t + 1) + 0
  BY <1>3
<1>5. \A i \in 1 .. Opening(c) + t + 1 : Events(c, t, <<Text(t + 1)>>)[i] = Events(c, t + 1, <<>>)[i]
  BY <1>3, <1>4 DEF Events
<1>6. /\ DOMAIN Events(c, t, <<Text(t + 1)>>) = 1 .. Opening(c) + t + 1
      /\ DOMAIN Events(c, t + 1, <<>>) = 1 .. Opening(c) + t + 1
  BY <1>3, <1>4 DEF Events
<1> QED
  BY <1>2, <1>5, <1>6 DEF Events


\* The texts of such a reply stand behind its opening.
LEMMA EventsTexts ==
    ASSUME NEW c, NEW t \in Nat, NEW tail \in Tails
    PROVE  /\ TextsIn(Events(c, t, tail)) = Opening(c) + 1 .. Opening(c) + t
           /\ Cardinality(TextsIn(Events(c, t, tail))) = t
<1> DEFINE s == Events(c, t, tail)
           o == Opening(c)
<1>1. /\ tail \in Seq(Event) /\ Len(tail) \in 0 .. 3
      /\ \A i \in 1 .. Len(tail) : tail[i] \in {Finish, Usage, Error, Done}
  BY TailType
<1>2. /\ DOMAIN s = 1 .. o + t + Len(tail) /\ o \in {0, 1}
      /\ \A i \in DOMAIN s : s[i] = IF i <= o THEN Role ELSE IF i <= o + t THEN Text(i - o) ELSE tail[i - o - t]
  <2>1. tail \in Seq(Event)
    BY <1>1
  <2> QED
    BY <2>1, EventsType
<1> HIDE DEF s, o
<1>3. \A i \in DOMAIN s : \/ i <= o /\ s[i] = Role
                          \/ ~(i <= o) /\ i <= o + t /\ s[i] = Text(i - o)
                          \/ ~(i <= o + t) /\ i - o - t \in 1 .. Len(tail) /\ s[i] = tail[i - o - t]
  BY <1>1, <1>2
<1>4. TextsIn(s) = o + 1 .. o + t
  <2>1. ASSUME NEW i \in DOMAIN s PROVE s[i][1] = "text" <=> ~(i <= o) /\ i <= o + t
    BY <1>1, <1>2, <1>3, EventKinds
  <2>2. \A i : i \in o + 1 .. o + t <=> i \in DOMAIN s /\ ~(i <= o) /\ i <= o + t
    BY <1>1, <1>2
  <2> QED
    BY <2>1, <2>2 DEF TextsIn
<1>5. Cardinality(TextsIn(s)) = t
  <2>1. o + 1 \in Int /\ o + t \in Int /\ (o + t) - (o + 1) + 1 = t
    BY <1>2
  <2> QED
    BY <1>2, <1>4, <2>1, FS_Interval
<1> QED
  BY <1>4, <1>5 DEF s, o

LEMMA ToldTail ==
    ASSUME NEW c, NEW t \in Nat, NEW tail \in Tails, NEW e \in {Finish, Usage, Error, Done}
    PROVE  Told(Events(c, t, tail), e) <=> \E i \in 1 .. Len(tail) : tail[i] = e
<1> DEFINE s == Events(c, t, tail)
           o == Opening(c)
<1>1. Len(tail) \in 0 .. 3 /\ tail \in Seq(Event)
  BY TailType
<1>2. /\ DOMAIN s = 1 .. o + t + Len(tail) /\ o \in {0, 1}
      /\ \A i \in DOMAIN s : s[i] = IF i <= o THEN Role ELSE IF i <= o + t THEN Text(i - o) ELSE tail[i - o - t]
  <2>1. tail \in Seq(Event)
    BY <1>1
  <2> QED
    BY <2>1, EventsType
<1> HIDE DEF s, o
<1>3. ASSUME NEW i \in DOMAIN s, s[i] = e PROVE \E j \in 1 .. Len(tail) : tail[j] = e
  <2>1. ~(i <= o + t) /\ i - o - t \in 1 .. Len(tail)
    BY <1>1, <1>2, <1>3, EventKinds
  <2> QED
    BY <1>1, <1>2, <1>3, <2>1
<1>4. ASSUME NEW j \in 1 .. Len(tail) PROVE o + t + j \in DOMAIN s /\ s[o + t + j] = tail[j]
  <2>1. o + t + j \in DOMAIN s /\ ~(o + t + j <= o) /\ ~(o + t + j <= o + t) /\ o + t + j - o - t = j
    BY <1>1, <1>2
  <2>2. s[o + t + j] = tail[o + t + j - o - t]
    BY <1>2, <2>1
  <2> QED
    BY <2>1, <2>2
<1> QED
  BY <1>3, <1>4 DEF Told, s

\* Such a reply keeps the promise, if its texts are the node's and so is its end.
LEMMA EventsKept ==
    ASSUME NEW c \in {"chat", "completion"}, NEW t \in Nat, NEW tail \in Tails,
           NEW texts \in Nat, t <= texts, NEW end, NEW conn, Fair(tail, t, texts, end, conn)
    PROVE  InOrder(c, Events(c, t, tail)) /\ IsTrue(Events(c, t, tail), texts, end, conn)
<1> DEFINE s == Events(c, t, tail)
           o == Opening(c)
<1>1. /\ tail \in Seq(Event) /\ Len(tail) \in 0 .. 3 /\ DOMAIN tail = 1 .. Len(tail)
      /\ \A i \in 1 .. Len(tail) : tail[i] \in {Finish, Usage, Error, Done}
      /\ \A i, j \in 1 .. Len(tail) : i < j => Turn(tail[i]) < Turn(tail[j])
  BY TailType
<1>2. /\ DOMAIN s = 1 .. o + t + Len(tail) /\ o \in {0, 1}
      /\ \A i \in DOMAIN s : s[i] = IF i <= o THEN Role ELSE IF i <= o + t THEN Text(i - o) ELSE tail[i - o - t]
  <2>1. tail \in Seq(Event)
    BY <1>1
  <2> QED
    BY <2>1, EventsType
<1> HIDE DEF s, o
<1>3. \A i \in DOMAIN s : \/ i <= o /\ s[i] = Role
                          \/ ~(i <= o) /\ i <= o + t /\ s[i] = Text(i - o)
                          \/ ~(i <= o + t) /\ i - o - t \in 1 .. Len(tail) /\ s[i] = tail[i - o - t]
  BY <1>1, <1>2
<1>4. TextsIn(s) = o + 1 .. o + t /\ Cardinality(TextsIn(s)) = t
  BY EventsTexts DEF s, o
<1>5. \A i \in TextsIn(s) : s[i] = Text(i - o) /\ Cardinality({j \in TextsIn(s) : j <= i}) = i - o
  <2> SUFFICES ASSUME NEW i \in o + 1 .. o + t
               PROVE  s[i] = Text(i - o) /\ Cardinality({j \in o + 1 .. o + t : j <= i}) = i - o
    BY <1>4
  <2>1. {j \in o + 1 .. o + t : j <= i} = o + 1 .. i
    BY <1>2
  <2>2. Cardinality(o + 1 .. i) = i - o
    BY <1>2, FS_Interval
  <2>3. i \in DOMAIN s /\ ~(i <= o) /\ i <= o + t
    BY <1>1, <1>2
  <2>4. s[i] = Text(i - o)
    BY <1>2, <2>3
  <2> QED
    BY <2>1, <2>2, <2>4
<1>7. \A e \in {Finish, Usage, Error, Done} : Told(s, e) <=> \E i \in 1 .. Len(tail) : tail[i] = e
  BY ToldTail DEF s
<1>8. ASSUME NEW i \in DOMAIN s, NEW j \in DOMAIN s, i < j
      PROVE  Turn(s[i]) < Turn(s[j]) \/ (s[i][1] = "text" /\ s[j][1] = "text")
  <2>1. CASE i <= o /\ s[i] = Role
    <3>1. ~(j <= o)
      BY <1>2, <1>8, <2>1
    <3>2. Turn(s[j]) \in {2, 3, 4, 5, 6}
      BY <1>1, <1>3, <3>1, Turns
    <3>3. Turn(s[i]) = 1
      BY <2>1, Turns, Zenon
    <3> QED
      BY <3>2, <3>3
  <2>2. CASE ~(i <= o) /\ i <= o + t /\ s[i] = Text(i - o)
    <3>1. CASE j <= o + t
      BY <1>2, <1>3, <1>8, <2>2, <3>1, EventKinds
    <3>2. CASE ~(j <= o + t)
      <4>1. ~(j <= o)
        BY <1>2, <3>2
      <4>2. s[j] \in {Finish, Usage, Error, Done}
        BY <1>1, <1>3, <3>2, <4>1
      <4>3. Turn(s[j]) \in {3, 4, 5, 6}
        BY <4>2, Turns
      <4>4. Turn(s[i]) = 2
        BY <2>2, Turns, Zenon
      <4> QED
        BY <4>3, <4>4
    <3> QED
      BY <3>1, <3>2
  <2>3. CASE ~(i <= o + t) /\ i - o - t \in 1 .. Len(tail) /\ s[i] = tail[i - o - t]
    <3>1. ~(j <= o) /\ ~(j <= o + t)
      BY <1>2, <1>8, <2>3
    <3>2. j - o - t \in 1 .. Len(tail) /\ s[j] = tail[j - o - t] /\ i - o - t < j - o - t
      BY <1>2, <1>3, <1>8, <2>3, <3>1
    <3>3. Turn(tail[i - o - t]) < Turn(tail[j - o - t])
      BY <1>1, <2>3, <3>2
    <3> QED
      BY <2>3, <3>2, <3>3, Zenon
  <2> QED
    BY <1>3, <2>1, <2>2, <2>3
<1>9. c = "chat" /\ s # <<>> => s[1] = Role
  <2> SUFFICES ASSUME c = "chat" PROVE s[1] = Role
    OBVIOUS
  <2>1. o = 1
    BY DEF o, Opening
  <2> QED
    BY <1>1, <1>2, <2>1
<1>10. InOrder(c, s)
  <2>1. Told(s, Usage) => Told(s, Finish) /\ ~Told(s, Error)
    <3>1. <<Finish, Usage, Done>> \in Finished /\ <<Finish, Usage, Done>> \notin Failed
      BY EventKinds DEF Finished, Failed
    <3> QED
      BY <1>7, <3>1, TailType
  <2> QED
    BY <1>8, <1>9, <2>1 DEF InOrder
<1>11. IsTrue(s, texts, end, conn)
  <2>1. \A i \in TextsIn(s) : s[i] = Text(Cardinality({j \in TextsIn(s) : j <= i}))
    BY <1>5
  <2>2. Told(s, Finish) => end = "done" /\ t = texts
    BY <1>7, TailType DEF Fair
  <2>3. Told(s, Error) => end = "error" \/ conn = "broken"
    BY <1>7, TailType DEF Fair
  <2>4. Told(s, Done) => Told(s, Error) \/ conn # "open"
    <3>1. Told(s, Done) => tail \notin {<<>>, <<Finish>>}
      BY <1>7, TailType
    <3>2. tail \notin {<<>>, <<Finish>>} =>
              tail \in Failed \/ tail \in {<<Done>>, <<Finish, Done>>, <<Finish, Usage, Done>>}
      BY DEF Tails, Failed
    <3>3. tail \in Failed => Told(s, Error)
      BY <1>7, TailType
    <3> QED
      BY <3>1, <3>2, <3>3 DEF Fair
  <2> QED
    BY <1>4, <2>1, <2>2, <2>3, <2>4 DEF IsTrue
<1> QED
  BY <1>10, <1>11 DEF s

-----------------------------------------------------------------------------
(* A chunk, piece by piece *)

\* The lines of a node that has made m texts and ended so; the piece behind the first p of
\* them; the buffer and the events when p pieces have been read.
LineNo(l, m, end) == IF l <= m THEN Text(l) ELSE IF end = "done" THEN Finish ELSE Error
LinesOf(m, end) == IF end \in {"done", "error"} THEN m + 1 ELSE m
NextPiece(p, m, end) == <<LineNo((p \div 3) + 1, m, end), (p % 3) + 1>>
Buffer(p, m, end) == [j \in 1 .. p % 3 |-> <<LineNo((p \div 3) + 1, m, end), j>>]
Heard(c, p, m, end) ==
    IF p \div 3 <= m THEN Events(c, p \div 3, <<>>)
    ELSE Events(c, m, IF end = "done" THEN <<Finish>> ELSE <<Error, Done>>)

LEMMA Thirds ==
    ASSUME NEW p \in Nat
    PROVE  /\ p \div 3 \in Nat /\ p % 3 \in 0 .. 2 /\ p = (3 * (p \div 3)) + (p % 3)
           /\ p % 3 = 2 => (p + 1) \div 3 = (p \div 3) + 1 /\ (p + 1) % 3 = 0
           /\ p % 3 # 2 => (p + 1) \div 3 = p \div 3 /\ (p + 1) % 3 = (p % 3) + 1
OBVIOUS

LEMMA BufferType ==
    ASSUME NEW p \in Nat, NEW m, NEW end
    PROVE  /\ Len(Buffer(p, m, end)) = p % 3 /\ DOMAIN Buffer(p, m, end) = 1 .. p % 3
           /\ \A j \in 1 .. p % 3 : Buffer(p, m, end)[j] = <<LineNo((p \div 3) + 1, m, end), j>>
           /\ \A S : (\A j \in 1 .. p % 3 : <<LineNo((p \div 3) + 1, m, end), j>> \in S) => Buffer(p, m, end) \in Seq(S)
<1> DEFINE n == p % 3
           b == Buffer(p, m, end)
<1>1. n \in Nat
  BY Thirds
<1>2. b = [j \in 1 .. n |-> <<LineNo((p \div 3) + 1, m, end), j>>]
  BY DEF Buffer
<1> HIDE DEF b, n
<1>3. DOMAIN b = 1 .. n /\ \A j \in 1 .. n : b[j] = <<LineNo((p \div 3) + 1, m, end), j>>
  BY <1>2
<1>4. Len(b) = n
  BY <1>1, <1>2
<1>5. \A S : (\A j \in 1 .. n : <<LineNo((p \div 3) + 1, m, end), j>> \in S) => b \in Seq(S)
  BY <1>1, <1>2
<1> QED
  BY <1>3, <1>4, <1>5 DEF b, n

\* One piece more in the buffer.
LEMMA BufferGrows ==
    ASSUME NEW p \in Nat, NEW m, NEW end, p % 3 # 2
    PROVE  Append(Buffer(p, m, end), NextPiece(p, m, end)) = Buffer(p + 1, m, end)
<1> DEFINE l == LineNo((p \div 3) + 1, m, end)
           n == p % 3
           b == Buffer(p, m, end)
           u == Buffer(p + 1, m, end)
           S == {<<l, j>> : j \in Nat}
<1>1. n \in 0 .. 2 /\ (p + 1) % 3 = n + 1 /\ (p + 1) \div 3 = p \div 3
  BY Thirds
<1>2. b \in Seq(S) /\ Len(b) = n /\ \A j \in 1 .. n : b[j] = <<l, j>>
  <2>1. \A j \in 1 .. n : <<l, j>> \in S
    BY <1>1
  <2> QED
    BY <2>1, BufferType
<1>3. u = [j \in 1 .. n + 1 |-> <<l, j>>]
  BY <1>1 DEF Buffer
<1>4. NextPiece(p, m, end) = <<l, n + 1>> /\ <<l, n + 1>> \in S
  BY <1>1 DEF NextPiece
<1> HIDE DEF b, u, l, n, S
<1>5. Append(b, <<l, n + 1>>) \in Seq(S) /\ Len(Append(b, <<l, n + 1>>)) = n + 1
  BY <1>1, <1>2, <1>4
<1>6. \A j \in 1 .. n + 1 : Append(b, <<l, n + 1>>)[j] = <<l, j>>
  BY <1>1, <1>2, <1>4
<1>7. Append(b, <<l, n + 1>>) = [j \in 1 .. n + 1 |-> <<l, j>>]
  <2> DEFINE a == Append(b, <<l, n + 1>>)
  <2>1. n + 1 \in Nat /\ a \in Seq(S) /\ Len(a) = n + 1 /\ \A j \in 1 .. n + 1 : a[j] = <<l, j>>
    BY <1>1, <1>5, <1>6
  <2> HIDE DEF a
  <2>2. a = [j \in 1 .. n + 1 |-> a[j]]
    BY <2>1
  <2>3. a = [j \in 1 .. n + 1 |-> <<l, j>>]
    BY <2>1, <2>2, Zenon
  <2> QED
    BY <2>3 DEF a
<1> QED
  BY <1>3, <1>4, <1>7 DEF b, u

\* A full line is told.
LEMMA LineTold ==
    ASSUME NEW p \in Nat, NEW m \in Nat, NEW end, p % 3 = 2
    PROVE  LET l == LineNo((p \div 3) + 1, m, end) IN
           EventsOf(Buffer(p, m, end)) = IF l = Error THEN <<Error, Done>> ELSE <<l>>
<1> DEFINE l == LineNo((p \div 3) + 1, m, end)
           b == Buffer(p, m, end)
<1>1. Len(b) = 2 /\ b[1] = <<l, 1>> /\ b[2] = <<l, 2>>
  <2>1. Len(b) = p % 3 /\ \A j \in 1 .. p % 3 : b[j] = <<l, j>>
    BY BufferType
  <2> HIDE DEF b, l
  <2>2. Len(b) = 2 /\ \A j \in 1 .. 2 : b[j] = <<l, j>>
    BY <2>1
  <2> QED
    BY <2>2
<1> HIDE DEF b, l
<1>2. Parses(b) /\ b[1][1] = l
  BY <1>1 DEF Parses
<1> QED
  BY <1>2 DEF EventsOf, b, l

LEMMA LineType == \A l \in Nat : \A m, end : LineNo(l, m, end) \in Event
BY DEF LineNo, Event

LEMMA HeardMore ==
    ASSUME NEW c, NEW p \in Nat, NEW m \in Nat, NEW end, p + 1 <= 3 * LinesOf(m, end), p % 3 = 2
    PROVE  LET l == LineNo((p \div 3) + 1, m, end) IN
           Heard(c, p, m, end) \o (IF l = Error THEN <<Error, Done>> ELSE <<l>>) = Heard(c, p + 1, m, end)
<1> DEFINE t == p \div 3
           l == LineNo(t + 1, m, end)
<1>1. t \in Nat /\ (p + 1) \div 3 = t + 1 /\ t + 1 <= LinesOf(m, end)
  BY Thirds DEF LinesOf
<1>2. t <= m /\ Heard(c, p, m, end) = Events(c, t, <<>>)
  BY <1>1 DEF LinesOf, Heard
<1> HIDE DEF t
<1>3. CASE t + 1 <= m
  <2>1. l = Text(t + 1) /\ l # Error
    BY <1>3, EventKinds DEF LineNo
  <2>2. Heard(c, p + 1, m, end) = Events(c, t + 1, <<>>)
    BY <1>1, <1>3 DEF Heard
  <2> QED
    BY <1>1, <1>2, <2>1, <2>2, EventsText DEF t
<1>4. CASE ~(t + 1 <= m)
  <2> DEFINE tail == IF end = "done" THEN <<Finish>> ELSE <<Error, Done>>
  <2>1. t = m
    BY <1>1, <1>2, <1>4
  <2>2. (IF l = Error THEN <<Error, Done>> ELSE <<l>>) = tail
    BY <1>4, EventKinds DEF LineNo
  <2>3. Heard(c, p + 1, m, end) = Events(c, m, tail)
    BY <1>1, <1>4 DEF Heard
  <2>4. tail \in Seq(Event) /\ <<>> \in Seq(Event) /\ <<>> \o tail = tail
    <3>1. <<Finish>> \in Seq(Event) /\ <<Error, Done>> \in Seq(Event)
      BY DEF Event
    <3>2. tail \in Seq(Event)
      BY <3>1
    <3> HIDE DEF tail
    <3> QED
      BY <3>2
  <2> HIDE DEF tail
  <2>5. Events(c, m, <<>>) \o tail = Events(c, m, <<>> \o tail)
    BY <2>4, EventsAppend, Zenon
  <2> QED
    BY <1>2, <2>1, <2>2, <2>3, <2>4, <2>5, Zenon DEF t
<1> QED
  BY <1>3, <1>4

LEMMA NoErrorYet ==
    ASSUME NEW c, NEW p \in Nat, NEW m \in Nat, NEW end, p \div 3 <= m,
           NEW a \in Seq(Event), NEW b \in Seq(Event), a \o b = Heard(c, p, m, end)
    PROVE  ~Told(b, Error)
<1>1. PICK t \in Nat : a \o b = Events(c, t, <<>>)
  BY Thirds DEF Heard
<1>2. ASSUME NEW i \in 1 .. Len(b), b[i] = Error PROVE FALSE
  <2>1. Len(a) + i \in DOMAIN (a \o b) /\ (a \o b)[Len(a) + i] = Error
    BY <1>2
  <2>2. \A j \in DOMAIN Events(c, t, <<>>) :
            Events(c, t, <<>>)[j] = Role \/ Events(c, t, <<>>)[j] = Text(j - Opening(c))
    <3>1. Len(<<>>) = 0 /\ Opening(c) \in {0, 1}
      BY DEF Opening
    <3> QED
      BY <3>1 DEF Events
  <2> QED
    BY <1>1, <2>1, <2>2, EventKinds
<1> QED
  BY <1>2 DEF Told

LEMMA Appended ==
    \A a, b, e \in Seq(Event) : a \o (b \o e) = (a \o b) \o e
BY ConcatAssociative

\* The converter has read p pieces, and g are the events before this chunk.
Stands(s, g, c, p, m, end) ==
    /\ s.line = Buffer(p, m, end)
    /\ s.events \in Seq(Event)
    /\ g \o s.events = Heard(c, p, m, end)

\* One piece, fed.
LEMMA FeedStep ==
    ASSUME NEW c, NEW p \in Nat, NEW m \in Nat, NEW end, NEW g \in Seq(Event), NEW s,
           p + 1 <= 3 * LinesOf(m, end),
           Stands(s, g, c, p, m, end)
    PROVE  Stands(Feed(s, NextPiece(p, m, end)), g, c, p + 1, m, end)
<1> DEFINE t == p \div 3
           l == LineNo(t + 1, m, end)
           piece == NextPiece(p, m, end)
           r == Feed(s, piece)
<1>0. s.line = Buffer(p, m, end) /\ s.events \in Seq(Event) /\ g \o s.events = Heard(c, p, m, end)
  BY DEF Stands
<1>1. t \in Nat /\ p % 3 \in 0 .. 2 /\ t <= m
  BY Thirds DEF LinesOf
<1>2. ~Told(s.events, Error)
  BY <1>0, <1>1, NoErrorYet
<1>3. piece[2] = (p % 3) + 1
  BY DEF NextPiece
<1>4. CASE p % 3 = 2
  <2> DEFINE e == IF l = Error THEN <<Error, Done>> ELSE <<l>>
  <2>1. r = [line |-> <<>>, events |-> s.events \o EventsOf(s.line)]
    BY <1>2, <1>3, <1>4 DEF Feed
  <2>2. EventsOf(s.line) = e
    BY <1>0, <1>4, LineTold
  <2>3. e \in Seq(Event)
    <3>1. l \in Event /\ Error \in Event /\ Done \in Event
      BY <1>1, LineType DEF Event
    <3> QED
      BY <3>1
  <2>4. Heard(c, p, m, end) \o e = Heard(c, p + 1, m, end)
    BY <1>4, HeardMore
  <2> HIDE DEF e
  <2>5. g \o (s.events \o e) = (g \o s.events) \o e
    BY <1>0, <2>3, Appended, Zenon
  <2>9. s.events \o e \in Seq(Event)
    BY <1>0, <2>3
  <2>6. Buffer(p + 1, m, end) = <<>>
    <3>1. (p + 1) % 3 = 0
      BY <1>4, Thirds
    <3>2. Len(Buffer(p + 1, m, end)) = 0 /\ Buffer(p + 1, m, end) \in Seq(Event \X Nat)
      <4>1. 1 .. (p + 1) % 3 = {}
        BY <3>1
      <4> QED
        BY <3>1, <4>1, BufferType
    <3> QED
      BY <3>2
  <2> HIDE DEF r
  <2>7. r.line = <<>> /\ r.events = s.events \o e
    BY <2>1, <2>2
  <2> QED
    BY <1>0, <2>4, <2>5, <2>6, <2>7, <2>9, Zenon DEF Stands, r
<1>5. CASE p % 3 # 2
  <2>1. piece[2] # 3
    BY <1>1, <1>3, <1>5
  <2>2. r = [line |-> Append(s.line, piece), events |-> s.events]
    BY <1>2, <2>1 DEF Feed
  <2>3. Append(s.line, piece) = Buffer(p + 1, m, end)
    BY <1>0, <1>5, BufferGrows
  <2>4. Heard(c, p + 1, m, end) = Heard(c, p, m, end)
    BY <1>5, Thirds DEF Heard
  <2> HIDE DEF r
  <2>5. r.line = Append(s.line, piece) /\ r.events = s.events
    BY <2>2
  <2> QED
    BY <1>0, <2>3, <2>4, <2>5, Zenon DEF Stands, r
<1> QED
  BY <1>4, <1>5

\* Where the reading stands: p pieces are read.
Flow(p) ==
    /\ p \in Nat /\ p = bytes
    /\ p + Len(wire) <= 3 * LinesOf(made, ending)
    /\ link = "open" => p + Len(wire) = 3 * LinesOf(made, ending)
    /\ ending = "error" => p < 3 * LinesOf(made, ending)
    /\ \A j \in 1 .. Len(wire) : wire[j] = NextPiece(p + j - 1, made, ending)
    /\ rest = Buffer(p, made, ending)
    /\ got = Heard(contract, p, made, ending)

LEMMA HeardType ==
    ASSUME NEW c, NEW p \in Nat, NEW m \in Nat, NEW end
    PROVE  Heard(c, p, m, end) \in Seq(Event)
<1>1. <<>> \in Seq(Event) /\ <<Finish>> \in Seq(Event) /\ <<Error, Done>> \in Seq(Event)
  BY DEF Event
<1>2. p \div 3 \in Nat
  BY Thirds
<1>3. \A t \in Nat, tail \in Seq(Event) : Events(c, t, tail) \in Seq(Event)
  BY EventsType
<1> QED
  BY <1>1, <1>2, <1>3, Zenon DEF Heard

LEMMA ChunkRead ==
    ASSUME StreamingTypeOK, NEW p, Flow(p), NEW k \in 1 .. Len(wire)
    PROVE  Stands(Converted(SubSeq(wire, 1, k)), got, contract, p + k, made, ending)
<1> DEFINE chunk == SubSeq(wire, 1, k)
<1>1. wire \in Seq(Pieces) /\ made \in Nat /\ p \in Nat /\ k \in Nat /\ Len(wire) \in Nat
  BY StreamingAssumption DEF StreamingTypeOK, Flow
<1>2. Len(chunk) = k /\ \A i \in 1 .. k : chunk[i] = wire[i]
  BY <1>1
<1> HIDE DEF chunk
<1>3. PICK f : /\ f[0] = [line |-> rest, events |-> <<>>]
               /\ \A i \in 1 .. k : f[i] = Feed(f[i - 1], chunk[i])
               /\ Converted(chunk) = f[k]
  BY <1>1, <1>2, ConvertedSteps
<1> DEFINE AtPiece(i) == Stands(f[i], got, contract, p + i, made, ending)
           S == {i \in Nat : i <= k => AtPiece(i)}
<1>4. got \in Seq(Event)
  BY <1>1, HeardType DEF Flow
<1>5. 0 \in S
  <2>1. f[0].line = rest /\ f[0].events = <<>> /\ <<>> \in Seq(Event)
    BY <1>3
  <2>2. got \o <<>> = got /\ p + 0 = p
    BY <1>1, <1>4
  <2> QED
    BY <2>1, <2>2 DEF Flow, Stands
<1>6. ASSUME NEW i \in S PROVE i + 1 \in S
  <2> SUFFICES ASSUME i + 1 <= k PROVE AtPiece(i + 1)
    BY <1>6
  <2>1. i \in Nat /\ i + 1 \in 1 .. k /\ i <= k /\ i + 1 \in 1 .. Len(wire)
    BY <1>1
  <2>2. AtPiece(i)
    BY <2>1
  <2>3. chunk[i + 1] = NextPiece(p + i, made, ending)
    <3>1. wire[i + 1] = NextPiece(p + (i + 1) - 1, made, ending) /\ p + (i + 1) - 1 = p + i
      BY <1>1, <2>1 DEF Flow
    <3> QED
      BY <1>2, <2>1, <3>1
  <2>4. f[i + 1] = Feed(f[i], NextPiece(p + i, made, ending))
    <3>1. (i + 1) - 1 = i
      BY <2>1
    <3> QED
      BY <1>3, <2>1, <2>3, <3>1
  <2>5. (p + i) + 1 <= 3 * LinesOf(made, ending) /\ p + i \in Nat /\ (p + i) + 1 = p + (i + 1)
    BY <1>1, <2>1 DEF Flow, LinesOf
  <2>6. Stands(Feed(f[i], NextPiece(p + i, made, ending)), got, contract, (p + i) + 1, made, ending)
    BY <1>1, <1>4, <2>2, <2>5, FeedStep
  <2> QED
    BY <2>4, <2>5, <2>6
<1>7. k \in S
  <2> HIDE DEF S
  <2>1. S \in SUBSET Nat
    BY DEF S
  <2> QED
    BY <1>1, <1>5, <1>6, <2>1, Induct
<1>8. AtPiece(k)
  BY <1>1, <1>7
<1> QED
  BY <1>3, <1>8 DEF chunk

-----------------------------------------------------------------------------
(* The replies at the end of a stream *)

\* What concatenation is.
LEMMA Concat ==
    ASSUME NEW a \in Seq(Event), NEW b \in Seq(Event)
    PROVE  /\ a \o b \in Seq(Event) /\ Len(a \o b) = Len(a) + Len(b)
           /\ \A i \in 1 .. Len(a) + Len(b) : (a \o b)[i] = IF i <= Len(a) THEN a[i] ELSE b[i - Len(a)]
OBVIOUS

LEMMA Joined ==
    ASSUME NEW a \in Event, NEW b \in Event
    PROVE  <<a>> \o <<b>> = <<a, b>> /\ <<>> \o <<b>> = <<b>>
<1> DEFINE x == <<a>>
           y == <<b>>
           z == x \o y
<1>1. x \in Seq(Event) /\ y \in Seq(Event) /\ Len(x) = 1 /\ Len(y) = 1 /\ x[1] = a /\ y[1] = b
  OBVIOUS
<1> HIDE DEF x, y
<1>2. z \in Seq(Event) /\ Len(z) = 2 /\ z[1] = a /\ z[2] = b
  <2>1. /\ z \in Seq(Event) /\ Len(z) = Len(x) + Len(y)
        /\ \A i \in 1 .. Len(x) + Len(y) : z[i] = IF i <= Len(x) THEN x[i] ELSE y[i - Len(x)]
    BY <1>1, Concat, Zenon
  <2> HIDE DEF z
  <2>2. Len(z) = 2 /\ \A i \in 1 .. 2 : z[i] = IF i <= 1 THEN x[i] ELSE y[i - 1]
    BY <1>1, <2>1
  <2>3. z[1] = x[1] /\ z[2] = y[2 - 1]
    BY <2>2
  <2> QED
    BY <1>1, <2>1, <2>2, <2>3
<1> HIDE DEF z
<1>3. z = <<a, b>>
  BY <1>2
<1>4. <<>> \o y = y
  BY <1>1
<1> QED
  BY <1>3, <1>4 DEF x, y, z

LEMMA Prefixed ==
    ASSUME NEW a \in Seq(Event), NEW b \in Seq(Event)
    PROVE  IsPrefix(a, a \o b)
<1> DEFINE n == Len(a)
           z == a \o b
<1>1. n \in Nat /\ z \in Seq(Event) /\ n <= Len(z) /\ \A i \in 1 .. n : z[i] = a[i]
  OBVIOUS
<1> HIDE DEF z
<1>2. SubSeq(a, 1, n) = a
  OBVIOUS
<1>3. SubSeq(z, 1, n) = a
  <2>1. SubSeq(z, 1, n) \in Seq(Event) /\ Len(SubSeq(z, 1, n)) = n /\ \A i \in 1 .. n : SubSeq(z, 1, n)[i] = z[i]
    BY <1>1
  <2> DEFINE w == SubSeq(z, 1, n)
  <2> HIDE DEF w, n
  <2>2. w \in Seq(Event) /\ Len(w) = Len(a) /\ \A i \in 1 .. Len(a) : w[i] = a[i]
    BY <1>1, <2>1 DEF w, n
  <2> QED
    BY <2>2 DEF w
<1> QED
  BY <1>1, <1>2, <1>3 DEF IsPrefix, z

LEMMA NilTail == <<>> \in Tails /\ <<>> \in Seq(Event) /\ Len(<<>>) = 0
BY DEF Tails

\* What Closing adds.
LEMMA ClosingAdds ==
    ASSUME NEW c, NEW t \in Nat, NEW tail \in {<<>>, <<Finish>>, <<Error, Done>>, <<Finish, Error, Done>>}
    PROVE  /\ tail \in Failed => Closing(Events(c, t, tail)) = <<>>
           /\ tail = <<>> => Closing(Events(c, t, tail)) = <<Done>>
           /\ tail = <<Finish>> => Closing(Events(c, t, tail)) \in {<<Done>>, <<Usage, Done>>}
<1> DEFINE s == Events(c, t, tail)
<1>1. tail \in Tails
  BY DEF Tails
<1>2. Told(s, Error) <=> tail \in Failed
  BY <1>1, ToldTail, TailType
<1>3. Told(s, Finish) <=> tail \in Finished
  BY <1>1, ToldTail, TailType
<1> HIDE DEF s
<1>4. <<Usage>> \o <<Done>> = <<Usage, Done>> /\ <<>> \o <<Done>> = <<Done>>
  BY Joined DEF Event
<1>5. <<>> \notin Failed /\ <<>> \notin Finished /\ <<Finish>> \notin Failed
  BY EventKinds DEF Failed, Finished
<1>6. ASSUME tail \in Failed PROVE Closing(s) = <<>>
  BY <1>2, <1>6, Zenon DEF Closing
<1>7. ASSUME tail = <<>> PROVE Closing(s) = <<Done>>
  <2>1. ~Told(s, Error) /\ ~Told(s, Finish)
    BY <1>2, <1>3, <1>5, <1>7, Zenon
  <2> QED
    BY <1>4, <2>1, Zenon DEF Closing
<1>8. ASSUME tail = <<Finish>> PROVE Closing(s) \in {<<Done>>, <<Usage, Done>>}
  <2>1. ~Told(s, Error)
    BY <1>2, <1>5, <1>8, Zenon
  <2>2. CASE IncludeUsage /\ contract = "chat" /\ Told(s, Finish)
    BY <1>4, <2>1, <2>2, Zenon DEF Closing
  <2>3. CASE ~(IncludeUsage /\ contract = "chat" /\ Told(s, Finish))
    BY <1>4, <2>1, <2>3, Zenon DEF Closing
  <2> QED
    BY <2>2, <2>3, Zenon
<1> QED
  BY <1>6, <1>7, <1>8 DEF s

\* The last of p pieces is in a text, or ends the node's last line.
LastAt(p, t, tail, m, end) ==
    /\ p \div 3 <= m => t = p \div 3 /\ tail = <<>>
    /\ ~(p \div 3 <= m) => /\ t = m /\ p = 3 * (m + 1) /\ end \in {"done", "error"}
                           /\ tail = IF end = "done" THEN <<Finish>> ELSE <<Error, Done>>

\* Forms of what has been heard.
HeardIs(c, p, m, end, conn) ==
    \E t \in 0 .. m, tail \in {<<>>, <<Finish>>, <<Error, Done>>} :
        /\ Heard(c, p, m, end) = Events(c, t, tail)
        /\ Fair(tail, t, m, end, conn)
        /\ LastAt(p, t, tail, m, end)

LEMMA HeardForms ==
    ASSUME NEW c, NEW p \in Nat, NEW m \in Nat, NEW end, NEW conn, p <= 3 * LinesOf(m, end)
    PROVE  HeardIs(c, p, m, end, conn)
<1> DEFINE t == p \div 3
<1>1. t \in Nat /\ t <= LinesOf(m, end) /\ (t = m + 1 => p = 3 * (m + 1))
  BY Thirds DEF LinesOf
<1>2. CASE t <= m
  <2>1. Heard(c, p, m, end) = Events(c, t, <<>>)
    BY <1>2 DEF Heard
  <2>2. Fair(<<>>, t, m, end, conn)
    BY DEF Fair, Finished, Failed
  <2>3. t \in 0 .. m
    BY <1>1, <1>2
  <2> QED
    BY <1>2, <2>1, <2>2, <2>3 DEF LastAt, HeardIs
<1>3. CASE ~(t <= m)
  <2>1. end \in {"done", "error"} /\ t = m + 1
    BY <1>1, <1>3 DEF LinesOf
  <2> DEFINE tail == IF end = "done" THEN <<Finish>> ELSE <<Error, Done>>
  <2>2. Heard(c, p, m, end) = Events(c, m, tail)
    BY <1>3 DEF Heard
  <2>3. Fair(tail, m, m, end, conn)
    BY <2>1, EventKinds DEF Fair, Finished, Failed
  <2>4. m \in 0 .. m /\ tail \in {<<>>, <<Finish>>, <<Error, Done>>}
    OBVIOUS
  <2> QED
    BY <1>1, <1>3, <2>1, <2>2, <2>3, <2>4 DEF LastAt, HeardIs
<1> QED
  BY <1>2, <1>3

\* The step is one of the promise.
LEMMA Tells ==
    ASSUME contract \in {"chat", "completion"}, made \in Nat, got \in Seq(Event), NEW x \in Seq(Event),
           got' = got \o x, NEW t \in 0 .. made, NEW tail \in Tails, got' = Events(contract, t, tail),
           Fair(tail, t, made, ending, link), UNCHANGED <<contract, made, ending, link>>
    PROVE  Tell
<1>1. IsPrefix(got, got \o x)
  BY Prefixed
<1>2. InOrder(contract, got') /\ IsTrue(got', made, ending, link)
  BY EventsKept
<1> QED
  BY <1>1, <1>2 DEF Tell

ToldEvents == Lines \cup {Role, Usage, Done}

LEMMA EventsOfLines ==
    ASSUME NEW c, NEW t \in Nat, t <= MaxTexts, NEW tail \in Tails
    PROVE  Events(c, t, tail) \in Seq(ToldEvents)
<1> DEFINE s == Events(c, t, tail)
           o == Opening(c)
<1>1. /\ Len(tail) \in 0 .. 3 /\ tail \in Seq(Event)
      /\ \A i \in 1 .. Len(tail) : tail[i] \in {Finish, Usage, Error, Done}
  BY TailType
<1>2. /\ s \in Seq(Event) /\ Len(s) = o + t + Len(tail) /\ o \in {0, 1} /\ DOMAIN s = 1 .. o + t + Len(tail)
      /\ \A i \in DOMAIN s : s[i] = IF i <= o THEN Role ELSE IF i <= o + t THEN Text(i - o) ELSE tail[i - o - t]
  <2>1. tail \in Seq(Event)
    BY <1>1
  <2> QED
    BY <2>1, EventsType
<1> HIDE DEF s, o
<1>3. ASSUME NEW i \in 1 .. o + t + Len(tail) PROVE s[i] \in ToldEvents
  <2>1. CASE i <= o
    BY <1>2, <2>1 DEF ToldEvents
  <2>2. CASE ~(i <= o) /\ i <= o + t
    <3>1. i - o \in 1 .. MaxTexts
      BY <1>1, <1>2, <2>2, StreamingAssumption
    <3> QED
      BY <1>2, <2>2, <3>1 DEF ToldEvents, Lines
  <2>3. CASE ~(i <= o) /\ ~(i <= o + t)
    <3>1. i - o - t \in 1 .. Len(tail)
      BY <1>1, <1>2, <2>3
    <3> QED
      BY <1>1, <1>2, <2>3, <3>1 DEF ToldEvents, Lines
  <2> QED
    BY <2>1, <2>2, <2>3
<1> QED
  BY <1>2, <1>3 DEF s

-----------------------------------------------------------------------------
(* What the node writes *)

\* Lines the node has made stay what they are.
LEMMA LinesStay ==
    ASSUME NEW p \in Nat, NEW m \in Nat, NEW end, NEW n \in Nat, NEW final, p <= 3 * m, p <= 3 * n
    PROVE  /\ p < 3 * m /\ p < 3 * n => NextPiece(p, m, end) = NextPiece(p, n, final)
           /\ Buffer(p, m, end) = Buffer(p, n, final)
           /\ \A c : Heard(c, p, m, end) = Heard(c, p, n, final)
<1> DEFINE t == p \div 3
<1>1. t \in Nat /\ p % 3 \in 0 .. 2 /\ p = (3 * t) + (p % 3)
  BY Thirds
<1>2. t <= m /\ t <= n /\ (p < 3 * m => t + 1 <= m) /\ (p < 3 * n => t + 1 <= n)
  BY <1>1
<1>3. p < 3 * m /\ p < 3 * n => LineNo(t + 1, m, end) = LineNo(t + 1, n, final)
  BY <1>2 DEF LineNo
<1>4. p < 3 * m /\ p < 3 * n => NextPiece(p, m, end) = NextPiece(p, n, final)
  BY <1>3, Zenon DEF NextPiece
<1>5. \A c : Heard(c, p, m, end) = Heard(c, p, n, final)
  BY <1>2 DEF Heard
<1>6. Buffer(p, m, end) = Buffer(p, n, final)
  <2>1. CASE p % 3 = 0
    <3>1. 1 .. p % 3 = {}
      BY <2>1
    <3> QED
      BY <3>1 DEF Buffer
  <2>2. CASE p % 3 # 0
    <3>1. p < 3 * m /\ p < 3 * n
      BY <1>1, <2>2
    <3> QED
      BY <1>3, <3>1, Zenon DEF Buffer
  <2> QED
    BY <2>1, <2>2
<1> QED
  BY <1>4, <1>5, <1>6

LEMMA LineThree == \A e : Len(Line(e)) = 3 /\ Line(e)[1] = <<e, 1>> /\ Line(e)[2] = <<e, 2>> /\ Line(e)[3] = <<e, 3>>
BY DEF Line

LEMMA WhereLinesEnd ==
    ASSUME NEW p \in Nat, NEW n \in Nat, NEW m \in Nat, NEW m2 \in Nat, m2 = m \/ m2 = m + 1, p + n = 3 * m
    PROVE  /\ p <= 3 * m /\ p <= 3 * m2 /\ p < 3 * (m + 1)
           /\ \A j \in 1 .. n : /\ p + j - 1 \in Nat /\ p + j - 1 < 3 * m /\ p + j - 1 < 3 * m2
                              /\ p + j - 1 <= 3 * m /\ p + j - 1 <= 3 * m2
OBVIOUS

LEMMA PieceOfLine ==
    ASSUME NEW m \in Nat, NEW h \in 1 .. 3, NEW q, q = 3 * m + (h - 1)
    PROVE  q \div 3 = m /\ q % 3 = h - 1 /\ (q % 3) + 1 = h
<1>1. q \in Nat /\ q \div 3 \in Nat /\ q % 3 \in 0 .. 2 /\ q = (3 * (q \div 3)) + (q % 3)
  <2>1. q \in Nat
    OBVIOUS
  <2> QED
    BY <2>1, Thirds
<1> DEFINE d == q \div 3
           o == q % 3
<1>2. d \in Nat /\ o \in 0 .. 2 /\ (3 * d) + o = 3 * m + (h - 1)
  BY <1>1
<1> HIDE DEF d, o
<1>3. d = m /\ o = h - 1
  BY <1>2
<1> QED
  BY <1>3 DEF d, o

LEMMA Concatenated ==
    ASSUME NEW S, NEW a \in Seq(S), NEW T, NEW b \in Seq(T)
    PROVE  /\ Len(a \o b) = Len(a) + Len(b)
           /\ \A j \in 1 .. Len(a) + Len(b) : (a \o b)[j] = IF j <= Len(a) THEN a[j] ELSE b[j - Len(a)]
OBVIOUS

\* A line more on its way.
LineGoesOut ==
    /\ ending = "none" /\ link = "open"
    /\ \/ made' = made + 1 /\ ending' = "none"
       \/ made' = made /\ ending' \in {"done", "error"}
    /\ wire' = wire \o Line(LineNo(made + 1, made', ending'))
    /\ UNCHANGED <<contract, link, got, rest, bytes>>

LEMMA LineWritten ==
    ASSUME StreamingTypeOK, NEW p, Flow(p), LineGoesOut
    PROVE  Flow(p)'
<1> DEFINE e == LineNo(made + 1, made', ending')
           n == Len(wire)
<1>1. wire \in Seq(Pieces) /\ Len(wire) \in Nat
  BY DEF StreamingTypeOK
<1>2. p \in Nat /\ made \in Nat /\ made' \in Nat /\ n \in Nat /\ p + n = 3 * made /\ made' \in {made, made + 1}
  <2>1. ending = "none" /\ link = "open" /\ made' \in {made, made + 1}
    BY DEF LineGoesOut
  <2>2. p \in Nat /\ made \in Nat /\ p + n = 3 * made
    BY <2>1, StreamingAssumption DEF Flow, StreamingTypeOK, LinesOf
  <2> QED
    BY <1>1, <2>1, <2>2
<1>3. LinesOf(made', ending') = made + 1
  BY <1>2 DEF LinesOf, LineGoesOut
<1> HIDE DEF n
<1>4. Len(wire') = n + 3 /\ \A j \in 1 .. n + 3 : wire'[j] = IF j <= n THEN wire[j] ELSE Line(e)[j - n]
  <2> DEFINE l == Line(e)
  <2>1. l \in Seq({e} \X Nat) /\ Len(l) = 3
    BY DEF Line
  <2>2. wire' = wire \o l
    BY DEF LineGoesOut
  <2> HIDE DEF l
  <2>4. Len(wire \o l) = Len(wire) + Len(l)
        /\ \A j \in 1 .. Len(wire) + Len(l) : (wire \o l)[j] = IF j <= Len(wire) THEN wire[j] ELSE l[j - Len(wire)]
    BY <1>1, <2>1, Concatenated
  <2> QED
    BY <2>1, <2>2, <2>4, Zenon DEF l, n
<1>5. made' = made \/ made' = made + 1
  BY <1>2, Zenon
<1>6. /\ p <= 3 * made /\ p <= 3 * made' /\ p < 3 * (made + 1)
      /\ \A j \in 1 .. n : /\ p + j - 1 \in Nat /\ p + j - 1 < 3 * made /\ p + j - 1 < 3 * made'
                         /\ p + j - 1 <= 3 * made /\ p + j - 1 <= 3 * made'
  BY <1>2, <1>5, WhereLinesEnd
<1>7. Buffer(p, made, ending) = Buffer(p, made', ending') /\ Heard(contract, p, made, ending) = Heard(contract, p, made', ending')
  <2>1. p <= 3 * made /\ p <= 3 * made'
    BY <1>6, Zenon
  <2> QED
    BY <1>2, <2>1, LinesStay
<1>8. ASSUME NEW j \in 1 .. n + 3 PROVE wire'[j] = NextPiece(p + j - 1, made', ending')
  <2>1. CASE j <= n
    <3>1. j \in 1 .. n
      BY <1>2, <2>1
    <3>2. NextPiece(p + j - 1, made, ending) = NextPiece(p + j - 1, made', ending')
      <4> DEFINE q == p + j - 1
      <4>1. q \in Nat /\ q < 3 * made /\ q < 3 * made' /\ q <= 3 * made /\ q <= 3 * made'
        BY <1>6, <3>1
      <4> HIDE DEF q
      <4>2. NextPiece(q, made, ending) = NextPiece(q, made', ending')
        BY <1>2, <4>1, LinesStay
      <4> QED
        BY <4>2 DEF q
    <3>3. wire[j] = NextPiece(p + j - 1, made, ending)
      BY <2>1 DEF Flow, n
    <3> QED
      BY <1>4, <2>1, <3>2, <3>3
  <2>2. CASE ~(j <= n)
    <3> DEFINE h == j - n
               q == p + j - 1
    <3>1. h \in 1 .. 3 /\ q = 3 * made + (h - 1) /\ wire'[j] = Line(e)[h]
      BY <1>2, <1>4, <2>2
    <3>2. Line(e)[h] = <<e, h>>
      BY <3>1, LineThree
    <3>3. q \div 3 = made /\ q % 3 = h - 1 /\ (q % 3) + 1 = h
      BY <1>2, <3>1, PieceOfLine
    <3> HIDE DEF e, h
    <3>4. NextPiece(q, made', ending') = <<e, h>>
      <4>1. NextPiece(q, made', ending') = <<LineNo((q \div 3) + 1, made', ending'), (q % 3) + 1>>
        BY DEF NextPiece
      <4> HIDE DEF q
      <4> QED
        BY <3>3, <4>1 DEF e
    <3> QED
      BY <3>1, <3>2, <3>4
  <2> QED
    BY <2>1, <2>2
<1>9. p + Len(wire') = 3 * LinesOf(made', ending')
  BY <1>2, <1>3, <1>4
<1>10. p = bytes' /\ rest' = Buffer(p, made', ending') /\ got' = Heard(contract', p, made', ending')
  BY <1>7 DEF Flow, LineGoesOut
<1>11. ending' = "error" => p < 3 * LinesOf(made', ending')
  BY <1>3, <1>6
<1>12. \A j \in 1 .. Len(wire') : wire'[j] = NextPiece(p + j - 1, made', ending')
  BY <1>4, <1>8
<1>13. p \in Nat /\ p + Len(wire') <= 3 * LinesOf(made', ending')
  BY <1>2, <1>3, <1>9
<1> QED
  BY <1>9, <1>10, <1>11, <1>12, <1>13, Zenon DEF Flow

\* What is on its way is cut off at a piece.
LEMMA WireCut ==
    ASSUME StreamingTypeOK, NEW p, Flow(p), UNCHANGED <<contract, made, ending, got, rest, bytes>>,
           link' \in {"closed", "broken"}, NEW k \in 0 .. Len(wire), wire' = SubSeq(wire, 1, k)
    PROVE  Flow(p)'
<1> DEFINE n == Len(wire)
           most == 3 * LinesOf(made, ending)
<1>1. p \in Nat /\ made \in Nat /\ n \in Nat /\ most \in Nat /\ p + n <= most /\ k \in Nat /\ k <= n
  BY StreamingAssumption DEF Flow, StreamingTypeOK, LinesOf
<1>2. Len(wire') = k /\ \A j \in 1 .. k : wire'[j] = wire[j]
  BY <1>1 DEF StreamingTypeOK
<1> HIDE DEF most
<1>3. p + Len(wire') <= most
  BY <1>1, <1>2
<1>4. \A j \in 1 .. Len(wire') : wire'[j] = NextPiece(p + j - 1, made, ending)
  BY <1>1, <1>2 DEF Flow
<1> QED
  BY <1>3, <1>4 DEF Flow, most

-----------------------------------------------------------------------------
(* What the user is told *)

LEMMA ToldEither ==
    ASSUME NEW a \in Seq(Event), NEW b \in Seq(Event), NEW e, Told(a \o b, e)
    PROVE  Told(a, e) \/ Told(b, e)
<1>1. /\ a \o b \in Seq(Event) /\ Len(a \o b) = Len(a) + Len(b) /\ Len(a) \in Nat /\ Len(b) \in Nat
      /\ \A i \in 1 .. Len(a) + Len(b) : (a \o b)[i] = IF i <= Len(a) THEN a[i] ELSE b[i - Len(a)]
  BY Concat
<1>2. PICK i \in 1 .. Len(a) + Len(b) : (a \o b)[i] = e
  BY <1>1 DEF Told
<1>3. CASE i <= Len(a)
  BY <1>1, <1>2, <1>3 DEF Told
<1>4. CASE ~(i <= Len(a))
  <2>1. i - Len(a) \in 1 .. Len(b) /\ b[i - Len(a)] = e
    BY <1>1, <1>2, <1>4
  <2> QED
    BY <2>1 DEF Told
<1> QED
  BY <1>3, <1>4

LEMMA ToldLater ==
    ASSUME NEW a \in Seq(Event), NEW b \in Seq(Event), NEW e, Told(b, e)
    PROVE  Told(a \o b, e)
<1>1. PICK i \in 1 .. Len(b) : b[i] = e
  BY DEF Told
<1>2. Len(a) + i \in DOMAIN (a \o b) /\ (a \o b)[Len(a) + i] = e
  BY <1>1
<1> QED
  BY <1>2 DEF Told

\* What such a reply has told.
LEMMA ToldForms ==
    ASSUME NEW c, NEW t \in Nat, NEW tail \in Tails
    PROVE  /\ Told(Events(c, t, tail), Finish) <=> tail \in Finished
           /\ Told(Events(c, t, tail), Error) <=> tail \in Failed
           /\ Cardinality(TextsIn(Events(c, t, tail))) = t
<1>1. Told(Events(c, t, tail), Finish) <=> tail \in Finished
  BY ToldTail, TailType
<1>2. Told(Events(c, t, tail), Error) <=> tail \in Failed
  BY ToldTail, TailType
<1> QED
  BY <1>1, <1>2, EventsTexts

LEMMA TailKinds ==
    /\ <<>> \notin Finished /\ <<>> \notin Failed
    /\ <<Finish>> \in Finished /\ <<Finish>> \notin Failed
    /\ <<Error, Done>> \notin Finished /\ <<Error, Done>> \in Failed
    /\ <<Finish, Error, Done>> \in Finished /\ <<Finish, Error, Done>> \in Failed
    /\ <<Done>> \notin Finished /\ <<Done>> \notin Failed
    /\ <<Finish, Done>> \in Finished /\ <<Finish, Done>> \notin Failed
    /\ <<Finish, Usage, Done>> \in Finished /\ <<Finish, Usage, Done>> \notin Failed
    /\ <<>> # <<Finish>>
BY EventKinds DEF Finished, Failed

\* The reply of a stream that has passed n lines on.
LEMMA Passed ==
    ASSUME UNCHANGED <<contract, made, ending, link, bytes>>, made \in Nat,
           NEW t \in Nat, NEW final \in Tails, got' = Events(contract, t, final),
           NEW n \in Nat, LinesPassed = n, t = IF n <= made THEN n ELSE made,
           final \in Finished <=> ending = "done" /\ n > made,
           final \in Failed <=> (ending = "error" /\ n > made) \/ (link = "broken" /\ bytes % 3 = 0)
    PROVE  ToldAsPassed'
<1>1. /\ Told(got', Finish) <=> final \in Finished
      /\ Told(got', Error) <=> final \in Failed
      /\ Cardinality(TextsIn(got')) = t
  BY ToldForms
<1>2. LinesPassed' = n
  BY DEF LinesPassed, Unended
<1> QED
  BY <1>1, <1>2 DEF ToldAsPassed

\* Where to_chat_sse has returned at the node's own error.
LeftAtError == bytes = 3 * (made + 1) /\ ending = "error" /\ got = Events(contract, made, <<Error, Done>>)

\* No line, and no whole line, tells nothing.
LEMMA NoLine ==
    \A b : Len(b) # 2 => EventsOf(b) = <<>>
BY DEF EventsOf, Parses

\* A step that tells, with what it tells.
TellsMore ==
    /\ Tell
    /\ got' \in Seq(ToldEvents)

LEMMA Telling ==
    ASSUME StreamingTypeOK, got \in Seq(Event), NEW x \in Seq(Event), got' = got \o x,
           NEW t \in 0 .. made, NEW tail \in Tails, got' = Events(contract, t, tail),
           Fair(tail, t, made, ending, link), UNCHANGED <<contract, made, ending, link>>
    PROVE  TellsMore
<1>1. made \in Nat /\ contract \in {"chat", "completion"} /\ t \in Nat /\ t <= MaxTexts
  BY StreamingAssumption DEF StreamingTypeOK
<1>2. Tell
  BY <1>1, Tells
<1>3. got' \in Seq(ToldEvents)
  BY <1>1, EventsOfLines
<1> QED
  BY <1>2, <1>3 DEF TellsMore

LEMMA GreetTells ==
    ASSUME StreamingTypeOK, Greet, got = <<>>
    PROVE  TellsMore /\ got' = Heard(contract, 0, 0, "none")
<1>1. 0 \in Nat /\ 0 \div 3 = 0
  OBVIOUS
<1>2. Heard(contract, 0, 0, "none") = Events(contract, 0, <<>>)
  BY <1>1 DEF Heard
<1>3. got' = Events(contract, 0, <<>>)
  <2>1. PICK t \in Nat, tail \in Seq(Event) : t = 0 /\ tail = <<>> /\ Len(tail) = 0
    BY NilTail
  <2> DEFINE s == Events(contract, t, tail)
             o == Opening(contract)
  <2>2. /\ s \in Seq(Event) /\ Len(s) = o + t + Len(tail) /\ DOMAIN s = 1 .. o + t + Len(tail)
        /\ o \in {0, 1}
        /\ \A i \in DOMAIN s : s[i] = IF i <= o THEN Role ELSE IF i <= o + t THEN Text(i - o) ELSE tail[i - o - t]
    BY EventsType
  <2>3. o = IF contract = "chat" THEN 1 ELSE 0
    BY DEF Opening
  <2> HIDE DEF s, o
  <2>4. Len(s) = o /\ \A i \in 1 .. o : s[i] = Role
    BY <2>1, <2>2
  <2>5. CASE contract = "chat"
    <3>1. o = 1
      BY <2>3, <2>5
    <3>2. s = <<Role>>
      <4>1. s \in Seq(Event)
        BY <2>2
      <4>2. Len(s) = 1 /\ s[1] = Role
        BY <2>4, <3>1
      <4> QED
        BY <4>1, <4>2
    <3> QED
      BY <2>1, <2>5, <3>2, Zenon DEF Greet, s
  <2>6. CASE contract # "chat"
    <3>1. o = 0
      BY <2>3, <2>6
    <3>2. s = <<>>
      BY <2>2, <2>4, <3>1
    <3> QED
      BY <2>1, <2>6, <3>2, Zenon DEF Greet, s
  <2> QED
    BY <2>5, <2>6
<1>4. got' \in Seq(Event)
  BY <1>3, NilTail, EventsType
<1>5. got' = got \o got' /\ got \in Seq(Event)
  BY <1>4
<1>6. Fair(<<>>, 0, made, ending, link) /\ 0 \in 0 .. made
  BY StreamingAssumption DEF Fair, Finished, Failed, StreamingTypeOK
<1>7. UNCHANGED <<contract, made, ending, link>>
  BY DEF Greet
<1>8. TellsMore
  BY <1>3, <1>4, <1>5, <1>6, <1>7, NilTail, Telling
<1> QED
  BY <1>2, <1>3, <1>8


\* A chunk: what is told is true, and the reading stands further on, unless an error has
\* been told.
LEMMA ReadTells ==
    ASSUME StreamingTypeOK, NEW p, Flow(p), Read
    PROVE  /\ TellsMore
           /\ stream' = "flowing" => \E q : Flow(q)'
           /\ stream' = "leaving" => LeftAtError'
<1>1. PICK k \in 1 .. Len(wire) :
          /\ wire' = SubSeq(wire, k + 1, Len(wire))
          /\ rest' = Converted(SubSeq(wire, 1, k)).line
          /\ got' = got \o Converted(SubSeq(wire, 1, k)).events
          /\ bytes' = bytes + k
          /\ stream' = IF Told(Converted(SubSeq(wire, 1, k)).events, Error) THEN "leaving" ELSE stream
  BY DEF Read, LeftOver
<1> DEFINE after == Converted(SubSeq(wire, 1, k))
           x == after.events
           n == Len(wire)
<1>2. Stands(after, got, contract, p + k, made, ending)
  BY ChunkRead
<1> HIDE DEF after
<1>3. rest' = Buffer(p + k, made, ending) /\ x \in Seq(Event) /\ got' = got \o x
      /\ got' = Heard(contract, p + k, made, ending)
  BY <1>1, <1>2 DEF Stands, after
<1>4. stream = "flowing" /\ UNCHANGED <<contract, made, ending, link>>
  BY DEF Read
<1>5. p \in Nat /\ n \in Nat /\ k \in Nat /\ made \in Nat /\ k <= n /\ p + n <= 3 * LinesOf(made, ending)
      /\ contract \in {"chat", "completion"} /\ wire \in Seq(Pieces)
  BY StreamingAssumption DEF Flow, StreamingTypeOK
<1>6. got = Heard(contract, p, made, ending) /\ got \in Seq(Event)
  BY <1>5, HeardType DEF Flow
<1>7. LinesOf(made, ending) \in Nat
  BY <1>5 DEF LinesOf
<1> HIDE DEF n, x
<1>8. p + k \in Nat /\ p + k <= 3 * LinesOf(made, ending)
  BY <1>5, <1>7
<1>9. PICK t \in 0 .. made, tail \in {<<>>, <<Finish>>, <<Error, Done>>} :
          /\ Heard(contract, p + k, made, ending) = Events(contract, t, tail)
          /\ Fair(tail, t, made, ending, link)
          /\ LastAt(p + k, t, tail, made, ending)
  <2> DEFINE q == p + k
  <2>1. q \in Nat /\ q <= 3 * LinesOf(made, ending) /\ made \in Nat
    BY <1>5, <1>8
  <2> HIDE DEF q
  <2>2. HeardIs(contract, q, made, ending, link)
    BY <2>1, HeardForms
  <2> QED
    BY <2>2, Zenon DEF q, HeardIs
<1>10. tail \in Tails
  BY DEF Tails
<1>11. TellsMore
  BY <1>3, <1>4, <1>6, <1>9, <1>10, Telling
<1>13. got' = Events(contract, t, tail) /\ t \in Nat
  BY <1>3, <1>5, <1>9
<1>14. Told(got', Error) <=> tail = <<Error, Done>>
  BY <1>10, <1>13, ToldForms, TailKinds
<1>15. ~Told(got, Error)
  <2>1. p \div 3 \in Nat /\ p \div 3 <= made
    <3>1. p \in Nat /\ made \in Nat /\ p + 1 <= 3 * LinesOf(made, ending)
      BY <1>5, <1>7
    <3>2. LinesOf(made, ending) <= made + 1
      BY <1>5 DEF LinesOf
    <3>3. p < 3 * (made + 1)
      BY <1>7, <3>1, <3>2
    <3> QED
      BY <3>1, <3>3, Thirds
  <2>2. got = Events(contract, p \div 3, <<>>)
    BY <1>6, <2>1 DEF Heard
  <2> QED
    BY <2>1, <2>2, NilTail, ToldForms, TailKinds
<1>16. Told(x, Error) <=> tail = <<Error, Done>>
  <2>1. Told(got', Error) => Told(x, Error)
    <3>1. Told(got \o x, Error) => Told(got, Error) \/ Told(x, Error)
      BY <1>3, <1>6, ToldEither
    <3> QED
      BY <1>3, <1>15, <3>1
  <2>2. Told(x, Error) => Told(got', Error)
    BY <1>3, <1>6, ToldLater
  <2> QED
    BY <1>14, <2>1, <2>2
<1>17. tail = <<Error, Done>> => t = made /\ p + k = 3 * (made + 1) /\ ending = "error"
  BY <1>9, EventKinds DEF LastAt
<1>18. ASSUME stream' = "leaving" PROVE LeftAtError'
  <2>1. Told(x, Error)
    BY <1>1, <1>4, <1>18 DEF x, after
  <2> QED
    BY <1>1, <1>4, <1>5, <1>13, <1>16, <1>17, <2>1 DEF LeftAtError, Flow
<1>12. ASSUME stream' = "flowing" PROVE Flow(p + k)'
  <2>1. ~Told(x, Error)
    BY <1>1, <1>12 DEF x, after
  <2>2. ~(ending = "error" /\ p + k = 3 * LinesOf(made, ending))
    <3> SUFFICES ASSUME ending = "error", p + k = 3 * LinesOf(made, ending) PROVE FALSE
      OBVIOUS
    <3>1. p + k = 3 * (made + 1)
      BY <1>5 DEF LinesOf
    <3>2. ~((p + k) \div 3 <= made)
      BY <1>5, <3>1
    <3> QED
      BY <1>9, <1>16, <2>1, <3>2, Zenon DEF LastAt
  <2>3. Len(wire') = n - k /\ \A j \in 1 .. n - k : wire'[j] = wire[k + j]
    BY <1>1, <1>5 DEF n
  <2>4. ASSUME NEW j \in 1 .. n - k PROVE wire'[j] = NextPiece((p + k) + j - 1, made, ending)
    <3>1. k + j \in 1 .. n /\ p + (k + j) - 1 = (p + k) + j - 1
      BY <1>5
    <3>2. wire[k + j] = NextPiece(p + (k + j) - 1, made, ending)
      BY <3>1 DEF Flow, n
    <3> QED
      BY <2>3, <3>1, <3>2
  <2>5. (p + k) + (n - k) = p + n
    BY <1>5
  <2>6. /\ (p + k) + Len(wire') <= 3 * LinesOf(made, ending)
        /\ link = "open" => (p + k) + Len(wire') = 3 * LinesOf(made, ending)
    BY <1>5, <2>3, <2>5 DEF Flow, n
  <2>7. ending = "error" => p + k < 3 * LinesOf(made, ending)
    BY <1>7, <1>8, <2>2
  <2>8. p + k = bytes'
    BY <1>1 DEF Flow
  <2> QED
    BY <1>3, <1>4, <1>8, <2>3, <2>4, <2>6, <2>7, <2>8 DEF Flow
<1> QED
  BY <1>11, <1>12, <1>18


\* The end of the node's lines.
LEMMA Ended ==
    ASSUME NEW a \in Event
    PROVE  /\ <<>> \o <<Done>> = <<Done>>
           /\ <<a>> \o <<Done>> = <<a, Done>>
           /\ <<a>> \o <<Usage, Done>> = <<a, Usage, Done>>
<1>1. Done \in Event /\ Usage \in Event
  BY DEF Event
<1>2. <<>> \o <<Done>> = <<Done>> /\ <<a>> \o <<Done>> = <<a, Done>>
  BY <1>1, Joined
<1>3. <<a>> \o <<Usage, Done>> = <<a, Usage, Done>>
  <2> DEFINE x == <<a>>
             y == <<Usage, Done>>
             z == x \o y
  <2>1. x \in Seq(Event) /\ y \in Seq(Event) /\ Len(x) = 1 /\ Len(y) = 2 /\ x[1] = a /\ y[1] = Usage /\ y[2] = Done
    BY <1>1
  <2> HIDE DEF x, y
  <2>2. /\ z \in Seq(Event) /\ Len(z) = Len(x) + Len(y)
        /\ \A i \in 1 .. Len(x) + Len(y) : z[i] = IF i <= Len(x) THEN x[i] ELSE y[i - Len(x)]
    BY <2>1, Concat, Zenon
  <2> HIDE DEF z
  <2>3. Len(z) = 3 /\ \A i \in 1 .. 3 : z[i] = IF i <= 1 THEN x[i] ELSE y[i - 1]
    BY <2>1, <2>2
  <2>4. z[1] = x[1] /\ z[2] = y[2 - 1] /\ z[3] = y[3 - 1]
    BY <2>3
  <2>5. z = <<a, Usage, Done>>
    BY <2>1, <2>2, <2>3, <2>4
  <2> QED
    BY <2>5 DEF x, y, z
<1> QED
  BY <1>2, <1>3

\* What is left in the buffer when a node has closed: a whole line is read as with its
\* newline.
LineEnd(p) == IF p % 3 = 2 THEN p + 1 ELSE p

LastIsRead(c, p, m, end) ==
    /\ EventsOf(Buffer(p, m, end)) \in Seq(Event)
    /\ LineEnd(p) \in Nat /\ LineEnd(p) <= 3 * LinesOf(m, end)
    /\ LineEnd(p) \div 3 = (p \div 3) + (IF p % 3 = 2 THEN 1 ELSE 0)
    /\ Heard(c, p, m, end) \o EventsOf(Buffer(p, m, end)) = Heard(c, LineEnd(p), m, end)

LEMMA LastOfBuffer ==
    ASSUME NEW c, NEW p \in Nat, NEW m \in Nat, NEW end, p <= 3 * LinesOf(m, end)
    PROVE  LastIsRead(c, p, m, end)
<1> DEFINE t == p \div 3
           b == Buffer(p, m, end)
           l == LineNo(t + 1, m, end)
<1>1. t \in Nat /\ p % 3 \in 0 .. 2 /\ p = (3 * t) + (p % 3) /\ (p % 3 = 2 => (p + 1) \div 3 = t + 1)
  BY Thirds
<1>2. LinesOf(m, end) \in Nat
  BY DEF LinesOf
<1>3. CASE p % 3 = 2
  <2>1. LineEnd(p) = p + 1 /\ p + 1 <= 3 * LinesOf(m, end)
    BY <1>1, <1>2, <1>3 DEF LineEnd
  <2>2. EventsOf(b) = IF l = Error THEN <<Error, Done>> ELSE <<l>>
    BY <1>3, LineTold
  <2>3. EventsOf(b) \in Seq(Event)
    <3>1. l \in Event /\ Error \in Event /\ Done \in Event
      BY <1>1, LineType DEF Event
    <3> HIDE DEF l, b
    <3> QED
      BY <2>2, <3>1
  <2>4. Heard(c, p, m, end) \o EventsOf(b) = Heard(c, p + 1, m, end)
    <3>1. Heard(c, p, m, end) \o (IF l = Error THEN <<Error, Done>> ELSE <<l>>) = Heard(c, p + 1, m, end)
      BY <1>3, <2>1, HeardMore
    <3> QED
      BY <2>2, <3>1, Zenon
  <2> QED
    BY <1>1, <1>3, <2>1, <2>3, <2>4 DEF LastIsRead
<1>4. CASE p % 3 # 2
  <2>1. Len(b) # 2
    BY <1>4, BufferType
  <2>2. EventsOf(b) = <<>> /\ EventsOf(b) \in Seq(Event)
    BY <2>1, NoLine, NilTail
  <2>3. LineEnd(p) = p
    BY <1>4 DEF LineEnd
  <2>4. Heard(c, p, m, end) \o <<>> = Heard(c, p, m, end)
    <3> DEFINE s == Heard(c, p, m, end)
    <3>1. s \in Seq(Event)
      BY HeardType
    <3> HIDE DEF s
    <3>2. s \o <<>> = s
      BY <3>1
    <3> QED
      BY <3>2 DEF s
  <2>5. LineEnd(p) \div 3 = (p \div 3) + (IF p % 3 = 2 THEN 1 ELSE 0)
    BY <1>1, <1>4, <2>3
  <2>6. LineEnd(p) \in Nat /\ LineEnd(p) <= 3 * LinesOf(m, end)
    BY <2>3
  <2> QED
    BY <1>2, <2>2, <2>3, <2>4, <2>5, <2>6, Zenon DEF LastIsRead
<1> QED
  BY <1>3, <1>4

\* The closing of a reply: nothing behind an error.
LEMMA Closed ==
    ASSUME NEW c, NEW t \in Nat, NEW tail \in {<<>>, <<Finish>>, <<Error, Done>>, <<Finish, Error, Done>>}
    PROVE  \E final \in Tails :
               /\ Events(c, t, tail) \o Closing(Events(c, t, tail)) = Events(c, t, final)
               /\ Closing(Events(c, t, tail)) \in Seq(Event)
               /\ final \in Finished <=> tail \in Finished
               /\ final \in Failed <=> tail \in Failed
<1> DEFINE s == Events(c, t, tail)
           x == Closing(s)
<1>1. Finish \in Event /\ Done \in Event /\ Usage \in Event /\ Error \in Event
  BY DEF Event
<1>2. tail \in Tails
  BY DEF Tails
<1>3. /\ tail \in Failed => x = <<>>
      /\ tail = <<>> => x = <<Done>>
      /\ tail = <<Finish>> => x \in {<<Done>>, <<Usage, Done>>}
  BY ClosingAdds
<1>4. tail \in Seq(Event)
  BY <1>2, TailType
<1> HIDE DEF x
<1>5. CASE tail \in Failed
  <2>1. s \in Seq(Event)
    BY <1>4, EventsType
  <2> HIDE DEF s
  <2>2. s \o <<>> = s /\ <<>> \in Seq(Event)
    BY <2>1
  <2>3. s \o x = s /\ x \in Seq(Event)
    BY <1>3, <1>5, <2>2, Zenon
  <2> QED
    BY <1>2, <2>3, Zenon DEF s, x
<1>6. CASE tail \notin Failed
  <2>1. tail = <<>> \/ tail = <<Finish>>
    BY <1>6, TailKinds
  <2>2. x \in {<<Done>>, <<Usage, Done>>}
    BY <1>3, <2>1
  <2>3. <<Done>> \in Seq(Event) /\ <<Usage, Done>> \in Seq(Event)
    BY <1>1
  <2>4. x \in Seq(Event)
    BY <2>2, <2>3
  <2>5. s \o x = Events(c, t, tail \o x)
    BY <1>4, <2>4, EventsAppend
  <2>6. /\ tail = <<>> => tail \o x = <<Done>>
        /\ tail = <<Finish>> => tail \o x \in {<<Finish, Done>>, <<Finish, Usage, Done>>}
    <3>1. <<>> \o <<Done>> = <<Done>> /\ <<Finish>> \o <<Done>> = <<Finish, Done>>
          /\ <<Finish>> \o <<Usage, Done>> = <<Finish, Usage, Done>>
      BY <1>1, Ended
    <3>2. tail = <<Finish>> => x = <<Done>> \/ x = <<Usage, Done>>
      BY <2>2
    <3> QED
      BY <1>3, <3>1, <3>2, Zenon
  <2> DEFINE final == tail \o x
  <2>7. final \in {<<Done>>, <<Finish, Done>>, <<Finish, Usage, Done>>}
    BY <2>1, <2>6, Zenon
  <2>8. final \in Tails /\ final \notin Failed
    BY <2>7, TailKinds DEF Tails
  <2>9. final \in Finished <=> tail \in Finished
    BY <2>1, <2>6, TailKinds, Zenon
  <2> QED
    BY <1>6, <2>4, <2>5, <2>8, <2>9, Zenon DEF s, x
<1> QED
  BY <1>5, <1>6

\* A closing is as true as what it closes, once the connection has ended.
LEMMA ClosedFair ==
    ASSUME NEW tail, NEW final \in Tails, NEW t, NEW texts, NEW end, NEW conn, conn # "open",
           Fair(tail, t, texts, end, conn),
           final \in Finished <=> tail \in Finished, final \in Failed <=> tail \in Failed
    PROVE  Fair(final, t, texts, end, conn)
BY DEF Fair

LEMMA EndTells ==
    ASSUME StreamingTypeOK, NEW p, Flow(p), EndOfStream
    PROVE  TellsMore /\ ToldAsPassed'
<1> DEFINE e == EventsOf(rest)
           all == got \o e
           x == Closing(all)
           q == LineEnd(p)
<1>1. wire = <<>> /\ link = "closed" /\ UNCHANGED <<contract, made, ending, link, bytes>> /\ got' = all \o x
  BY DEF EndOfStream
<1>2. p \in Nat /\ p = bytes /\ made \in Nat /\ p <= 3 * LinesOf(made, ending)
      /\ rest = Buffer(p, made, ending) /\ got = Heard(contract, p, made, ending)
  <2>1. p \in Nat /\ made \in Nat /\ Len(wire) = 0 /\ LinesOf(made, ending) \in Nat
    BY <1>1, StreamingAssumption DEF Flow, StreamingTypeOK, LinesOf
  <2> QED
    BY <2>1 DEF Flow
<1>3. got \in Seq(Event)
  BY <1>2, HeardType
<1> HIDE DEF x, all, e, q
<1>4. /\ e \in Seq(Event) /\ q \in Nat /\ q <= 3 * LinesOf(made, ending)
      /\ q \div 3 = (p \div 3) + (IF p % 3 = 2 THEN 1 ELSE 0)
      /\ all = Heard(contract, q, made, ending)
  <2>1. LastIsRead(contract, p, made, ending)
    BY <1>2, LastOfBuffer
  <2>2. rest = Buffer(p, made, ending) /\ got = Heard(contract, p, made, ending)
    BY <1>2
  <2> QED
    BY <2>1, <2>2, Zenon DEF e, all, q, LastIsRead
<1>5. PICK t \in 0 .. made, tail \in {<<>>, <<Finish>>, <<Error, Done>>} :
          /\ all = Events(contract, t, tail)
          /\ Fair(tail, t, made, ending, link)
          /\ LastAt(q, t, tail, made, ending)
  <2>1. HeardIs(contract, q, made, ending, link)
    BY <1>2, <1>4, HeardForms
  <2> QED
    BY <1>4, <2>1, Zenon DEF HeardIs
<1>6. t \in Nat
  BY <1>2
<1>7. PICK final \in Tails :
          /\ all \o x = Events(contract, t, final)
          /\ x \in Seq(Event)
          /\ final \in Finished <=> tail \in Finished
          /\ final \in Failed <=> tail \in Failed
  <2>1. \E final \in Tails :
            /\ Events(contract, t, tail) \o Closing(Events(contract, t, tail)) = Events(contract, t, final)
            /\ Closing(Events(contract, t, tail)) \in Seq(Event)
            /\ final \in Finished <=> tail \in Finished
            /\ final \in Failed <=> tail \in Failed
    BY <1>6, Closed
  <2> QED
    BY <1>5, <2>1, Zenon DEF x
<1>8. got' = got \o (e \o x) /\ e \o x \in Seq(Event)
  <2>1. got \o (e \o x) = (got \o e) \o x
    BY <1>3, <1>4, <1>7, Appended, Zenon
  <2>2. e \o x \in Seq(Event)
    BY <1>4, <1>7, Concat, Zenon
  <2> QED
    BY <1>1, <2>1, <2>2, Zenon DEF all
<1>9. Fair(final, t, made, ending, link)
  <2>1. link # "open"
    BY <1>1
  <2> QED
    BY <1>5, <1>7, <2>1, ClosedFair
<1>10. got' = Events(contract, t, final)
  BY <1>1, <1>7, Zenon
<1>11. TellsMore
  BY <1>1, <1>3, <1>8, <1>9, <1>10, Telling
<1>12. ToldAsPassed'
  <2> DEFINE n == q \div 3
  <2>1. n \in Nat /\ LinesPassed = n
    <3>1. n \in Nat
      BY <1>4, Thirds
    <3> QED
      BY <1>1, <1>2, <1>4, <3>1 DEF LinesPassed, Unended
  <2> HIDE DEF n
  <2>2. t = IF n <= made THEN n ELSE made
    BY <1>5 DEF n, LastAt
  <2>3. /\ n <= made => tail = <<>>
        /\ ~(n <= made) => ending \in {"done", "error"} /\ tail = IF ending = "done" THEN <<Finish>> ELSE <<Error, Done>>
    BY <1>5 DEF n, LastAt
  <2>4. n > made <=> ~(n <= made)
    BY <1>2, <2>1
  <2>5. final \in Finished <=> ending = "done" /\ n > made
    BY <1>7, <2>3, <2>4, TailKinds, Zenon
  <2>7. ending = "done" => ending # "error"
    OBVIOUS
  <2>8. final \in Failed <=> ending = "error" /\ n > made
    BY <1>7, <2>3, <2>4, <2>7, TailKinds, Zenon
  <2>6. final \in Failed <=> (ending = "error" /\ n > made) \/ (link = "broken" /\ bytes % 3 = 0)
    BY <1>1, <2>8
  <2> QED
    BY <1>1, <1>2, <1>6, <1>10, <2>1, <2>2, <2>5, <2>6, Passed
<1> QED
  BY <1>11, <1>12

\* The line that tells of a break: read behind a whole line it is an error, behind a piece
\* of a line it is lost with it.
LEMMA BreakLine ==
    ASSUME NEW p \in Nat, rest = Buffer(p, made, ending)
    PROVE  /\ p % 3 = 0 => Converted(Line(Error)).events = <<Error, Done>>
           /\ p % 3 # 0 => Converted(Line(Error)).events = <<>>
<1> DEFINE chunk == Line(Error)
           h == p % 3
           l == LineNo((p \div 3) + 1, made, ending)
           S == {<<l, j>> : j \in Nat} \cup {<<Error, j>> : j \in Nat}
<1>1. Len(chunk) = 3 /\ chunk[1] = <<Error, 1>> /\ chunk[2] = <<Error, 2>> /\ chunk[3] = <<Error, 3>>
  BY LineThree
<1> HIDE DEF chunk
<1>2. PICK f : /\ f[0] = [line |-> rest, events |-> <<>>]
               /\ \A i \in 1 .. 3 : f[i] = Feed(f[i - 1], chunk[i])
               /\ Converted(chunk) = f[3]
  <2>1. \E f : /\ f[0] = [line |-> rest, events |-> <<>>]
               /\ \A i \in 1 .. Len(chunk) : f[i] = Feed(f[i - 1], chunk[i])
               /\ Converted(chunk) = f[Len(chunk)]
    <3>1. Len(chunk) \in Nat
      BY <1>1
    <3> QED
      BY <3>1, ConvertedSteps, Zenon
  <2> QED
    BY <1>1, <2>1, Zenon
<1>3. f[1] = Feed(f[0], <<Error, 1>>) /\ f[2] = Feed(f[1], <<Error, 2>>) /\ f[3] = Feed(f[2], <<Error, 3>>)
  <2>1. 1 \in 1 .. 3 /\ 2 \in 1 .. 3 /\ 3 \in 1 .. 3 /\ 1 - 1 = 0 /\ 2 - 1 = 1 /\ 3 - 1 = 2
    OBVIOUS
  <2> QED
    BY <1>1, <1>2, <2>1
<1>4. ~Told(<<>>, Error)
  BY DEF Told
<1>5. rest \in Seq(S) /\ Len(rest) = h /\ h \in 0 .. 2
  <2>1. \A j \in 1 .. p % 3 : <<l, j>> \in S
    OBVIOUS
  <2>2. rest \in Seq(S) /\ Len(rest) = p % 3
    BY <2>1, BufferType
  <2> QED
    BY <2>2, Thirds
<1>6. <<Error, 1>> \in S /\ <<Error, 2>> \in S
  OBVIOUS
<1> HIDE DEF S, h, l
<1> DEFINE u == Append(rest, <<Error, 1>>)
           v == Append(u, <<Error, 2>>)
<1>7. u \in Seq(S) /\ Len(u) = h + 1 /\ (h = 0 => u[1] = <<Error, 1>>)
  BY <1>5, <1>6
<1> HIDE DEF u
<1>8. v \in Seq(S) /\ Len(v) = h + 2 /\ (h = 0 => v[1] = <<Error, 1>> /\ v[2] = <<Error, 2>>)
  BY <1>5, <1>6, <1>7
<1> HIDE DEF v
<1>9. f[1] = [line |-> u, events |-> <<>>]
  BY <1>2, <1>3, <1>4 DEF Feed, u
<1>10. f[2] = [line |-> v, events |-> <<>>]
  <2>1. f[1].line = u /\ f[1].events = <<>>
    BY <1>9
  <2>2. <<Error, 2>>[2] # 3
    OBVIOUS
  <2> QED
    BY <1>3, <1>4, <2>1, <2>2, Zenon DEF Feed, v
<1>11. f[3].events = <<>> \o EventsOf(v)
  <2>1. f[2].line = v /\ f[2].events = <<>>
    BY <1>10
  <2>2. <<Error, 3>>[2] = 3
    OBVIOUS
  <2>3. f[3] = [line |-> <<>>, events |-> <<>> \o EventsOf(v)]
    BY <1>3, <1>4, <2>1, <2>2, Zenon DEF Feed
  <2> QED
    BY <2>3
<1>12. CASE h = 0
  <2>1. EventsOf(v) = <<Error, Done>>
    BY <1>8, <1>12 DEF EventsOf, Parses
  <2>2. <<>> \o <<Error, Done>> = <<Error, Done>>
    <3>1. <<Error, Done>> \in Seq(Event)
      BY DEF Event
    <3> DEFINE w == <<Error, Done>>
    <3> HIDE DEF w
    <3>2. <<>> \o w = w
      BY <3>1 DEF w
    <3> QED
      BY <3>2 DEF w
  <2> QED
    BY <1>2, <1>11, <1>12, <2>1, <2>2 DEF h, chunk
<1>13. CASE h # 0
  <2>1. EventsOf(v) = <<>>
    <3>1. Len(v) # 2
      BY <1>5, <1>8, <1>13
    <3> QED
      BY <3>1, NoLine
  <2>2. <<>> \o <<>> = <<>>
    OBVIOUS
  <2> QED
    BY <1>2, <1>11, <1>13, <2>1, <2>2 DEF h, chunk
<1> QED
  BY <1>12, <1>13

\* An error behind what was told.
LEMMA BehindFinish ==
    /\ <<Error, Done>> \in Seq(Event) /\ <<>> \in Seq(Event) /\ <<Finish>> \in Seq(Event)
    /\ <<>> \o <<Error, Done>> = <<Error, Done>>
    /\ <<Finish>> \o <<Error, Done>> = <<Finish, Error, Done>>
<1> DEFINE x == <<Finish>>
           y == <<Error, Done>>
           z == x \o y
<1>1. x \in Seq(Event) /\ y \in Seq(Event) /\ Len(x) = 1 /\ Len(y) = 2 /\ x[1] = Finish /\ y[1] = Error /\ y[2] = Done
  BY DEF Event
<1> HIDE DEF x, y
<1>2. /\ z \in Seq(Event) /\ Len(z) = Len(x) + Len(y)
      /\ \A i \in 1 .. Len(x) + Len(y) : z[i] = IF i <= Len(x) THEN x[i] ELSE y[i - Len(x)]
  BY <1>1, Concat, Zenon
<1> HIDE DEF z
<1>3. Len(z) = 3 /\ \A i \in 1 .. 3 : z[i] = IF i <= 1 THEN x[i] ELSE y[i - 1]
  BY <1>1, <1>2
<1>4. z[1] = x[1] /\ z[2] = y[2 - 1] /\ z[3] = y[3 - 1]
  BY <1>3
<1>5. z = <<Finish, Error, Done>>
  BY <1>1, <1>2, <1>3, <1>4
<1>6. <<>> \o y = y /\ <<>> \in Seq(Event)
  BY <1>1
<1> QED
  BY <1>1, <1>5, <1>6 DEF x, y, z

LEMMA BreakTells ==
    ASSUME StreamingTypeOK, NEW p, Flow(p), TellBreak
    PROVE  TellsMore /\ ToldAsPassed'
<1> DEFINE e == Converted(Line(Error)).events
           all == got \o e
           x == Closing(all)
<1>1. wire = <<>> /\ link = "broken" /\ UNCHANGED <<contract, made, ending, link, bytes>> /\ got' = all \o x
  BY DEF TellBreak
<1>2. /\ p \in Nat /\ p = bytes /\ made \in Nat /\ p <= 3 * LinesOf(made, ending)
      /\ ending = "error" => p < 3 * (made + 1)
      /\ LinesOf(made, ending) \in {made, made + 1}
      /\ rest = Buffer(p, made, ending) /\ got = Heard(contract, p, made, ending)
  <2>1. p \in Nat /\ made \in Nat /\ Len(wire) = 0 /\ LinesOf(made, ending) \in {made, made + 1}
        /\ (ending = "error" => LinesOf(made, ending) = made + 1)
    BY <1>1, StreamingAssumption DEF Flow, StreamingTypeOK, LinesOf
  <2> QED
    BY <2>1 DEF Flow
<1>3. got \in Seq(Event)
  BY <1>2, HeardType
<1>4. (p % 3 = 0 => e = <<Error, Done>>) /\ (p % 3 # 0 => e = <<>>)
  BY <1>2, BreakLine
<1> HIDE DEF x, all, e
<1>5. PICK t \in 0 .. made, before \in {<<>>, <<Finish>>, <<Error, Done>>} :
          /\ got = Events(contract, t, before)
          /\ Fair(before, t, made, ending, link)
          /\ LastAt(p, t, before, made, ending)
  <2>1. HeardIs(contract, p, made, ending, link)
    BY <1>2, HeardForms
  <2>2. got = Heard(contract, p, made, ending)
    BY <1>2
  <2> QED
    BY <2>1, <2>2, Zenon DEF HeardIs
<1>6. t \in Nat /\ before \in {<<>>, <<Finish>>}
  BY <1>2, <1>5 DEF LastAt
<1>7. /\ <<Error, Done>> \in Seq(Event) /\ <<>> \in Seq(Event) /\ <<Finish>> \in Seq(Event)
      /\ <<>> \o <<Error, Done>> = <<Error, Done>>
      /\ <<Finish>> \o <<Error, Done>> = <<Finish, Error, Done>>
  BY BehindFinish
<1>8. \E tail \in {<<>>, <<Finish>>, <<Error, Done>>, <<Finish, Error, Done>>} :
          /\ all = Events(contract, t, tail)
          /\ tail \in Failed <=> p % 3 = 0
          /\ tail \in Finished <=> before = <<Finish>>
  <2>1. CASE p % 3 = 0
    <3>1. all = Events(contract, t, before \o <<Error, Done>>)
      <4>1. before \in Seq(Event)
        BY <1>6, <1>7, Zenon
      <4>2. Events(contract, t, before) \o <<Error, Done>> = Events(contract, t, before \o <<Error, Done>>)
        BY <1>6, <1>7, <4>1, EventsAppend, Zenon
      <4> QED
        BY <1>4, <1>5, <2>1, <4>2, Zenon DEF all
    <3>2. CASE before = <<>>
      BY <1>7, <2>1, <3>1, <3>2, TailKinds, Zenon
    <3>3. CASE before = <<Finish>>
      BY <1>7, <2>1, <3>1, <3>3, TailKinds, Zenon
    <3> QED
      BY <1>6, <3>2, <3>3
  <2>2. CASE p % 3 # 0
    <3>1. all = got
      <4>1. got \o <<>> = got
        BY <1>3
      <4> QED
        BY <1>4, <2>2, <4>1, Zenon DEF all
    <3>2. before = <<>>
      BY <1>2, <1>5, <2>2 DEF LastAt
    <3> QED
      BY <1>5, <2>2, <3>1, <3>2, TailKinds, Zenon
  <2> QED
    BY <2>1, <2>2
<1>9. PICK tail \in {<<>>, <<Finish>>, <<Error, Done>>, <<Finish, Error, Done>>} :
          /\ all = Events(contract, t, tail)
          /\ tail \in Failed <=> p % 3 = 0
          /\ tail \in Finished <=> before = <<Finish>>
  BY <1>8
<1>10. PICK final \in Tails :
          /\ all \o x = Events(contract, t, final)
          /\ x \in Seq(Event)
          /\ final \in Finished <=> tail \in Finished
          /\ final \in Failed <=> tail \in Failed
  <2>1. \E final \in Tails :
            /\ Events(contract, t, tail) \o Closing(Events(contract, t, tail)) = Events(contract, t, final)
            /\ Closing(Events(contract, t, tail)) \in Seq(Event)
            /\ final \in Finished <=> tail \in Finished
            /\ final \in Failed <=> tail \in Failed
    BY <1>6, Closed
  <2> QED
    BY <1>9, <2>1, Zenon DEF x
<1>11. before = <<Finish>> <=> ending = "done" /\ p \div 3 > made
  <2>1. p \div 3 \in Nat
    BY <1>2, Thirds
  <2> QED
    BY <1>2, <1>5, <1>6, <2>1, TailKinds DEF LastAt
<1>12. Fair(final, t, made, ending, link)
  <2>1. final \in Finished => t = made /\ ending = "done"
    BY <1>5, <1>9, <1>10, <1>11, TailKinds DEF Fair
  <2> QED
    BY <1>1, <2>1 DEF Fair
<1>13. e \in Seq(Event)
  BY <1>4, <1>7, Zenon
<1>14. got' = got \o (e \o x) /\ e \o x \in Seq(Event)
  <2>1. got \o (e \o x) = (got \o e) \o x
    BY <1>3, <1>10, <1>13, Appended, Zenon
  <2>2. e \o x \in Seq(Event)
    BY <1>10, <1>13, Concat, Zenon
  <2> QED
    BY <1>1, <2>1, <2>2, Zenon DEF all
<1>15. got' = Events(contract, t, final)
  BY <1>1, <1>10, Zenon
<1>16. TellsMore
  BY <1>1, <1>3, <1>12, <1>14, <1>15, Telling
<1>17. ToldAsPassed'
  <2> DEFINE n == p \div 3
  <2>1. n \in Nat
    BY <1>2, Thirds
  <2>2. LinesPassed = n
    BY <1>1, <1>2, <2>1 DEF LinesPassed, Unended
  <2>3. t = IF n <= made THEN n ELSE made
    BY <1>5 DEF LastAt
  <2>4. final \in Finished <=> ending = "done" /\ n > made
    BY <1>9, <1>10, <1>11
  <2>5. final \in Failed <=> (ending = "error" /\ n > made) \/ (link = "broken" /\ bytes % 3 = 0)
    <3>1. ~(ending = "error" /\ n > made)
      BY <1>2, <1>5 DEF LastAt
    <3> QED
      BY <1>1, <1>2, <1>9, <1>10, <3>1
  <2> HIDE DEF n
  <2> QED
    BY <1>1, <1>2, <1>6, <1>15, <2>1, <2>2, <2>3, <2>4, <2>5, Passed
<1> QED
  BY <1>16, <1>17

-----------------------------------------------------------------------------
(* Every step is one of the promise *)

StreamInv ==
    /\ StreamingTypeOK
    /\ stream \in {"new", "opening"} =>
          /\ slot = "free" /\ made = 0 /\ ending = "none" /\ link = "open" /\ wire = <<>> /\ rest = <<>>
          /\ bytes = 0
    /\ stream = "new" => got = <<>>
    /\ stream = "opening" => got = Heard(contract, 0, 0, "none")
    /\ stream = "flowing" => \E p : Flow(p)
    /\ stream = "leaving" => LeftAtError
    /\ stream = "failing" => link = "broken" /\ ToldAsPassed
    /\ stream = "over" => slot # "held" /\ (bytes > 0 => ToldAsPassed)

ReplyStep == ReplyNext \/ UNCHANGED replyVars

\* A step of the node's.
LEMMA NodeWrites ==
    ASSUME StreamInv, WriteText \/ WriteLast
    PROVE  StreamInv' /\ ReplyStep
<1>1. slot = "held" /\ LineGoesOut /\ UNCHANGED <<slot, stream, bytes, counted, outcome>>
  <2>1. CASE WriteText
    <3>1. LineNo(made + 1, made', ending') = Text(made + 1)
      <4>1. made' = made + 1 /\ made \in Nat
        BY <2>1, StreamingAssumption DEF WriteText, StreamInv, StreamingTypeOK
      <4>2. made + 1 <= made'
        BY <4>1
      <4> QED
        BY <4>2 DEF LineNo
    <3> QED
      BY <2>1, <3>1 DEF WriteText, Writes, LineGoesOut
  <2>2. CASE WriteLast
    <3>1. made' = made /\ made \in Nat /\ ~(made + 1 <= made')
      BY <2>2, StreamingAssumption DEF WriteLast, StreamInv, StreamingTypeOK
    <3>2. LineNo(made + 1, made', ending') = IF ending' = "done" THEN Finish ELSE Error
      BY <3>1 DEF LineNo
    <3>3. CASE ending' = "done" /\ wire' = wire \o Line(Finish)
      BY <2>2, <3>1, <3>2, <3>3 DEF WriteLast, Writes, LineGoesOut
    <3>4. CASE ending' = "error" /\ wire' = wire \o Line(Error)
      BY <2>2, <3>1, <3>2, <3>4 DEF WriteLast, Writes, LineGoesOut
    <3> QED
      BY <2>2, <3>3, <3>4 DEF WriteLast
  <2> QED
    BY <2>1, <2>2
<1>2. StreamingTypeOK'
  <2>1. made' \in 0 .. MaxTexts
    BY StreamingAssumption DEF WriteText, WriteLast, StreamInv, StreamingTypeOK
  <2>2. LineNo(made + 1, made', ending') \in Lines
    <3>1. made + 1 <= made' => made + 1 \in 1 .. MaxTexts
      BY <2>1, StreamingAssumption DEF StreamInv, StreamingTypeOK
    <3> QED
      BY <3>1 DEF LineNo, Lines
  <2>3. wire' \in Seq(Pieces)
    <3> DEFINE l == Line(LineNo(made + 1, made', ending'))
    <3>1. l \in Seq(Pieces)
      BY <2>2 DEF Line, Pieces
    <3>2. wire' = wire \o l /\ wire \in Seq(Pieces)
      BY <1>1 DEF LineGoesOut, StreamInv, StreamingTypeOK
    <3> HIDE DEF l
    <3> QED
      BY <3>1, <3>2
  <2>4. ending' \in {"none", "done", "error"}
    BY <1>1 DEF LineGoesOut
  <2> QED
    BY <1>1, <2>1, <2>3, <2>4 DEF LineGoesOut, StreamInv, StreamingTypeOK
<1>3. stream' = "flowing" => \E p : Flow(p)'
  <2> SUFFICES ASSUME stream' = "flowing" PROVE \E p : Flow(p)'
    OBVIOUS
  <2>1. PICK p : Flow(p)
    BY <1>1 DEF StreamInv
  <2>2. Flow(p)'
    BY <1>1, <2>1, LineWritten DEF StreamInv
  <2> QED
    BY <2>2
<1>4. stream' \notin {"new", "opening", "leaving", "failing", "over"}
  BY <1>1 DEF StreamInv, LineGoesOut, LeftAtError
<1>5. ReplyStep
  BY DEF WriteText, WriteLast, Writes, ReplyStep, ReplyNext, Produce, Close
<1> QED
  BY <1>2, <1>3, <1>4, <1>5 DEF StreamInv

LEMMA ConnectionEnds ==
    ASSUME StreamInv, Disconnect
    PROVE  StreamInv' /\ ReplyStep
<1>1. PICK k \in 0 .. Len(wire) : wire' = SubSeq(wire, 1, k)
  BY DEF Disconnect
<1>2. /\ slot = "held" /\ link = "open" /\ link' \in {"closed", "broken"}
      /\ UNCHANGED <<contract, made, ending, got, rest, stream, bytes, counted, slot, outcome>>
  BY DEF Disconnect
<1>3. StreamingTypeOK'
  <2>1. wire' \in Seq(Pieces)
    <3>1. wire \in Seq(Pieces)
      BY DEF StreamInv, StreamingTypeOK
    <3> QED
      BY <1>1, <3>1
  <2> QED
    BY <1>2, <2>1 DEF StreamInv, StreamingTypeOK
<1>4. stream' = "flowing" => \E p : Flow(p)'
  <2> SUFFICES ASSUME stream' = "flowing" PROVE \E p : Flow(p)'
    OBVIOUS
  <2>1. PICK p : Flow(p)
    BY <1>2 DEF StreamInv
  <2>2. Flow(p)'
    BY <1>1, <1>2, <2>1, WireCut DEF StreamInv
  <2> QED
    BY <2>2
<1>5. stream' \notin {"new", "opening", "failing", "over"}
  BY <1>2 DEF StreamInv
<1>6. stream' = "leaving" => LeftAtError'
  BY <1>2 DEF StreamInv, LeftAtError
<1>7. ReplyStep
  BY <1>2 DEF ReplyStep, ReplyNext, HangUp
<1> QED
  BY <1>3, <1>4, <1>5, <1>6, <1>7 DEF StreamInv

\* Steps that tell nothing and read nothing.
LEMMA StreamOpens ==
    ASSUME StreamInv, Open \/ FailToOpen
    PROVE  StreamInv' /\ ReplyStep
<1>1. UNCHANGED <<contract, made, ending, link, got>> /\ UNCHANGED <<wire, rest, bytes>>
      /\ stream' \in {"flowing", "over"} /\ stream = "opening" /\ (stream' = "over" => slot' # "held")
  BY DEF Open, FailToOpen, Settle, replyVars, StreamInv
<1>2. StreamingTypeOK'
  BY <1>1 DEF Open, FailToOpen, Settle, StreamInv, StreamingTypeOK, Stages
<1>3. Flow(0)'
  <2>1. got = Heard(contract, 0, 0, "none") /\ made = 0 /\ ending = "none" /\ wire = <<>> /\ rest = <<>>
        /\ bytes = 0
    BY <1>1 DEF StreamInv
  <2>2. Len(wire) = 0 /\ LinesOf(0, "none") = 0
    BY <2>1 DEF LinesOf
  <2>3. Buffer(0, 0, "none") = <<>>
    <3>1. 0 % 3 = 0 /\ 1 .. 0 = {}
      OBVIOUS
    <3> DEFINE b == Buffer(0, 0, "none")
    <3>2. b \in Seq(Event) /\ Len(b) = 0
      BY <3>1, BufferType
    <3> HIDE DEF b
    <3>3. b = <<>>
      BY <3>2
    <3> QED
      BY <3>3 DEF b
  <2> QED
    BY <1>1, <2>1, <2>2, <2>3 DEF Flow
<1>4. bytes' = 0
  BY <1>1 DEF StreamInv
<1> QED
  BY <1>1, <1>2, <1>3, <1>4 DEF StreamInv, ReplyStep, replyVars

LEMMA StreamLeaves ==
    ASSUME StreamInv, RaiseBreak \/ CloseLeftStream \/ ClientLeaves
    PROVE  StreamInv' /\ ReplyStep
<1>1. UNCHANGED replyVars /\ UNCHANGED <<contract, made, ending, link, got, bytes>> /\ stream' \in {"over", "gone"}
      /\ slot' = "returned"
  BY DEF RaiseBreak, CloseLeftStream, ClientLeaves, Settle, replyVars
<1>2. StreamingTypeOK'
  BY DEF RaiseBreak, CloseLeftStream, ClientLeaves, Settle, StreamInv, StreamingTypeOK, Stages, replyVars
<1>3. stream' = "over" /\ bytes > 0 => ToldAsPassed'
  <2>1. CASE RaiseBreak \/ ClientLeaves
    BY <2>1 DEF RaiseBreak, ClientLeaves
  <2>2. CASE CloseLeftStream /\ stream = "leaving"
    <3>1. bytes = 3 * (made + 1) /\ ending = "error" /\ got = Events(contract, made, <<Error, Done>>) /\ made \in Nat
      BY <2>2, StreamingAssumption DEF StreamInv, StreamingTypeOK, LeftAtError
    <3> DEFINE final == <<Error, Done>>
               n == made + 1
    <3>2. final \in Tails /\ final \notin Finished /\ final \in Failed
      BY TailKinds DEF Tails
    <3> HIDE DEF final
    <3>3. n \in Nat /\ n > made /\ LinesPassed = n
      BY <3>1 DEF LinesPassed, Unended
    <3> QED
      BY <1>1, <3>1, <3>2, <3>3, Passed DEF final
  <2>3. CASE CloseLeftStream /\ stream = "failing"
    BY <1>1, <2>3 DEF StreamInv, ToldAsPassed, LinesPassed, Unended
  <2> QED
    BY <2>1, <2>2, <2>3 DEF CloseLeftStream
<1> QED
  BY <1>1, <1>2, <1>3 DEF StreamInv, ReplyStep

\* Steps that tell.
LEMMA StreamGreets ==
    ASSUME StreamInv, Greet
    PROVE  StreamInv' /\ ReplyStep
<1>1. TellsMore /\ got' = Heard(contract, 0, 0, "none")
  BY GreetTells DEF StreamInv, Greet
<1>2. StreamingTypeOK'
  BY <1>1 DEF Greet, StreamInv, StreamingTypeOK, Stages, TellsMore, ToldEvents
<1> QED
  BY <1>1, <1>2 DEF Greet, StreamInv, ReplyStep, ReplyNext, TellsMore

LEMMA StreamReads ==
    ASSUME StreamInv, Read
    PROVE  StreamInv' /\ ReplyStep
<1>1. PICK p : Flow(p)
  BY DEF StreamInv, Read
<1>2. TellsMore /\ (stream' = "flowing" => \E q : Flow(q)') /\ (stream' = "leaving" => LeftAtError')
  BY <1>1, ReadTells DEF StreamInv
<1>3. PICK k \in 1 .. Len(wire) :
          /\ wire' = SubSeq(wire, k + 1, Len(wire))
          /\ rest' = Converted(SubSeq(wire, 1, k)).line
  BY DEF Read, LeftOver
<1>4. p \in Nat /\ made \in Nat /\ wire \in Seq(Pieces) /\ p + k \in Nat
  BY StreamingAssumption, <1>1 DEF Flow, StreamInv, StreamingTypeOK
<1>5. rest' = Buffer(p + k, made, ending)
  BY <1>1, <1>3, ChunkRead DEF Stands, StreamInv
<1>6. rest' \in Seq(Pieces)
  <2> DEFINE q == p + k
  <2>1. q \in Nat
    BY <1>4
  <2> HIDE DEF q
  <2>2. ASSUME NEW j \in 1 .. q % 3 PROVE <<LineNo((q \div 3) + 1, made, ending), j>> \in Pieces
    <3>1. j \in 1 .. 3 /\ q \div 3 \in Nat
      BY <2>1, Thirds
    <3>2. LineNo((q \div 3) + 1, made, ending) \in Lines
      <4>1. (q \div 3) + 1 <= made => (q \div 3) + 1 \in 1 .. MaxTexts
        BY <1>4, <3>1, StreamingAssumption DEF StreamInv, StreamingTypeOK
      <4> QED
        BY <4>1 DEF LineNo, Lines
    <3> QED
      BY <3>1, <3>2 DEF Pieces
  <2>3. Buffer(q, made, ending) \in Seq(Pieces)
    BY <2>1, <2>2, BufferType
  <2> QED
    BY <1>5, <2>3 DEF q
<1>7. wire' \in Seq(Pieces)
  BY <1>3, <1>4
<1>8. StreamingTypeOK'
  <2>1. UNCHANGED <<contract, made, ending, link, slot, outcome>> /\ counted' \in BOOLEAN /\ bytes' \in Nat
        /\ stream' \in {"flowing", "leaving"}
    BY DEF Read, StreamInv, StreamingTypeOK, CountsTokens
  <2> QED
    BY <1>2, <1>6, <1>7, <2>1 DEF StreamInv, StreamingTypeOK, Stages, TellsMore, ToldEvents
<1>9. stream' \notin {"new", "opening", "failing", "over"}
  BY DEF Read
<1> QED
  BY <1>2, <1>8, <1>9 DEF StreamInv, ReplyStep, ReplyNext, TellsMore

LEMMA StreamEnds ==
    ASSUME StreamInv, EndOfStream \/ TellBreak
    PROVE  StreamInv' /\ ReplyStep
<1>1. PICK p : Flow(p)
  BY DEF StreamInv, EndOfStream, TellBreak
<1>2. TellsMore /\ ToldAsPassed'
  BY <1>1, EndTells, BreakTells DEF StreamInv
<1>3. /\ rest' = <<>> /\ UNCHANGED <<contract, made, ending, link, wire, bytes, counted>>
      /\ \/ stream' = "over" /\ slot' = "returned" /\ outcome' \in {"ok", "failed"}
         \/ stream' = "failing" /\ UNCHANGED <<slot, outcome>> /\ link = "broken"
  BY DEF EndOfStream, TellBreak, Settle
<1>4. StreamingTypeOK'
  <2>1. <<>> \in Seq(Pieces)
    OBVIOUS
  <2> QED
    BY <1>2, <1>3, <2>1 DEF StreamInv, StreamingTypeOK, Stages, TellsMore, ToldEvents
<1> QED
  BY <1>2, <1>3, <1>4 DEF StreamInv, ReplyStep, ReplyNext, TellsMore

LEMMA StreamInvInit == StreamingInit => StreamInv
<1>1. <<>> \in Seq(Lines \cup {Role, Usage, Done}) /\ <<>> \in Seq(Pieces)
  OBVIOUS
<1>2. StreamingInit => StreamingTypeOK
  <2> SUFFICES ASSUME StreamingInit PROVE StreamingTypeOK
    OBVIOUS
  <2>1. contract \in {"chat", "completion"} /\ ending = "none" /\ link = "open" /\ stream \in Stages /\ bytes \in Nat
        /\ counted \in BOOLEAN /\ slot = "free" /\ outcome = "none"
    BY DEF StreamingInit, ReplyInit, Stages
  <2>2. made \in 0 .. MaxTexts
    BY StreamingAssumption DEF StreamingInit, ReplyInit
  <2>3. got \in Seq(Lines \cup {Role, Usage, Done}) /\ wire \in Seq(Pieces) /\ rest \in Seq(Pieces)
    BY <1>1, Zenon DEF StreamingInit, ReplyInit
  <2> QED
    BY <2>1, <2>2, <2>3 DEF StreamingTypeOK
<1> QED
  BY <1>2 DEF StreamingInit, ReplyInit, StreamInv

LEMMA StreamInvNext ==
    ASSUME StreamInv, [StreamingNext]_streamingVars
    PROVE  StreamInv' /\ ReplyStep
<1>1. ASSUME StreamingNext PROVE StreamInv' /\ ReplyStep
  BY <1>1, NodeWrites, ConnectionEnds, StreamOpens, StreamLeaves, StreamGreets, StreamReads, StreamEnds DEF StreamingNext
<1>2. ASSUME UNCHANGED streamingVars PROVE StreamInv' /\ ReplyStep
  <2>1. UNCHANGED replyVars /\ UNCHANGED <<contract, made, ending, link, got>>
        /\ UNCHANGED <<wire, rest, stream, bytes, counted, slot, outcome>>
    BY <1>2 DEF streamingVars, streamVars, replyVars
  <2> QED
    BY <2>1 DEF StreamInv, StreamingTypeOK, Flow, ReplyStep, LeftAtError, ToldAsPassed, LinesPassed, Unended
<1> QED
  BY <1>1, <1>2

\* The variables of a stream have their types, whatever the chunks (_ndjson_lines,
\* stream_ndjson).
THEOREM StreamingTypeCorrect == StreamingSpec => []StreamingTypeOK
<1>1. StreamInv => StreamingTypeOK
  BY DEF StreamInv
<1> QED
  BY <1>1, StreamInvInit, StreamInvNext, PTL DEF StreamingSpec

LEMMA SamePromise ==
    ASSUME ReplyStep
    PROVE  [Reply!ReplyNext]_Reply!replyVars
<1>1. /\ Reply!Role = Role /\ Reply!Finish = Finish /\ Reply!Usage = Usage /\ Reply!Error = Error
      /\ Reply!Done = Done /\ \A i : Reply!Text(i) = Text(i)
  BY DEF Role, Text, Finish, Usage, Error, Done, Reply!Role, Reply!Text, Reply!Finish, Reply!Usage, Reply!Error, Reply!Done
<1>2. \A e : Reply!Turn(e) = Turn(e)
  BY <1>1, Zenon DEF Turn, Reply!Turn
<1>3. (\A events : Reply!TextsIn(events) = TextsIn(events)) /\ \A events, e : Reply!Told(events, e) <=> Told(events, e)
  BY Zenon DEF TextsIn, Reply!TextsIn, Told, Reply!Told
<1>4. \A events : InOrder(contract, events) => Reply!InOrder(contract, events)
  <2> SUFFICES ASSUME NEW events, InOrder(contract, events) PROVE Reply!InOrder(contract, events)
    OBVIOUS
  <2>1. \A i, j \in DOMAIN events : i < j =>
            Turn(events[i]) < Turn(events[j]) \/ (events[i][1] = "text" /\ events[j][1] = "text")
    BY DEF InOrder
  <2>2. \A i, j \in DOMAIN events : i < j =>
            Reply!Turn(events[i]) < Reply!Turn(events[j]) \/ (events[i][1] = "text" /\ events[j][1] = "text")
    BY <1>2, <2>1
  <2> QED
    BY <1>1, <1>3, <2>2 DEF InOrder, Reply!InOrder
<1>5. \A events : IsTrue(events, made, ending, link) => Reply!IsTrue(events, made, ending, link)
  <2> SUFFICES ASSUME NEW events, IsTrue(events, made, ending, link) PROVE Reply!IsTrue(events, made, ending, link)
    OBVIOUS
  <2>1. Reply!TextsIn(events) = TextsIn(events)
    BY <1>3, Zenon
  <2>2. \A i \in Reply!TextsIn(events) : events[i] = Reply!Text(Cardinality({j \in Reply!TextsIn(events) : j <= i}))
    BY <1>1, <2>1, Zenon DEF IsTrue
  <2>3. Cardinality(Reply!TextsIn(events)) <= made
    BY <2>1 DEF IsTrue
  <2>4. /\ Reply!Told(events, Reply!Finish) => ending = "done" /\ Cardinality(Reply!TextsIn(events)) = made
        /\ Reply!Told(events, Reply!Error) => ending = "error" \/ link = "broken"
        /\ Reply!Told(events, Reply!Done) => Reply!Told(events, Reply!Error) \/ link # "open"
    BY <1>1, <1>3, <2>1, Zenon DEF IsTrue
  <2> QED
    BY <2>2, <2>3, <2>4, Zenon DEF Reply!IsTrue, Reply!Cardinality, Cardinality
<1>6. Tell => Reply!Tell
  BY <1>4, <1>5, Zenon DEF Tell, Reply!Tell, IsPrefix, Reply!IsPrefix
<1>7. Produce => Reply!Produce
  BY DEF Produce, Reply!Produce
<1>8. Close => Reply!Close
  BY DEF Close, Reply!Close
<1>9. HangUp => Reply!HangUp
  BY DEF HangUp, Reply!HangUp
<1> QED
  BY <1>7, <1>8, <1>9, <1>6 DEF ReplyStep, ReplyNext, Reply!ReplyNext, replyVars, Reply!replyVars

\* The stream implements the promise of StreamReply, for any number of texts, chunks cut
\* anywhere, and a connection that ends at any piece, behind the last line too: every step of it is one of the promise or tells
\* nothing (to_chat_sse, to_completion_sse, _ndjson_lines, stream_ndjson).
THEOREM StreamImplementsReply == StreamingSpec => KeepsReplyPromise
<1>1. StreamingInit => Reply!ReplyInit
  BY DEF StreamingInit, ReplyInit, Reply!ReplyInit
<1> QED
  BY <1>1, StreamInvInit, StreamInvNext, SamePromise, PTL DEF StreamingSpec, KeepsReplyPromise, Reply!ReplySpec

\* What a stream that began has told at its end is what the bytes it passed on say, for any
\* number of texts, chunks cut anywhere and a connection that ends at any piece
\* (_ndjson_lines, to_chat_sse, stream_ndjson).
THEOREM EndIsToldByBytes == StreamingSpec => []ToldByBytes
<1>1. StreamInv => ToldByBytes
  BY DEF StreamInv, ToldByBytes
<1> QED
  BY <1>1, StreamInvInit, StreamInvNext, PTL DEF StreamingSpec

-----------------------------------------------------------------------------
(* The components together *)

\* A behavior of ComponentsMC is one of each component: a step is a step of one of them and
\* leaves the variables of the others (what fairness says of them is left out).
LEMMA OfEachComponent ==
    ComponentsSpec => /\ KeysSpec /\ SettingsSpec /\ DiscoverySpec /\ OwnershipSpec
                      /\ HealthInit /\ [][HealthNext]_healthVars
                      /\ BalancerSpec /\ UpstreamSpec
                      /\ StreamingInit /\ [][StreamingNext]_streamingVars
<1>1. ComponentsInit => /\ KeysInit /\ SettingsInit /\ DiscoveryInit /\ OwnershipInit /\ HealthInit
                        /\ BalancerInit /\ UpstreamInit /\ StreamingInit
  BY DEF ComponentsInit
<1>2. [ComponentsNext]_componentsVars =>
          /\ [KeysNext]_keysVars /\ [SettingsNext]_settingsVars /\ [DiscoveryNext]_discoveryVars
          /\ [OwnershipNext]_ownershipVars /\ [HealthNext]_healthVars
          /\ [BalancerNext]_balancerVars /\ [UpstreamNext]_upstreamVars /\ [StreamingNext]_streamingVars
  BY Zenon DEF ComponentsNext, componentsVars, controlVars, servingVars, KeysPart, SettingsPart,
         DiscoveryPart, OwnershipPart, HealthPart, BalancerPart, UpstreamPart, StreamingPart
<1> QED
  BY <1>1, <1>2, PTL DEF ComponentsSpec, KeysSpec, SettingsSpec, DiscoverySpec, OwnershipSpec,
                         BalancerSpec, UpstreamSpec

\* The variables of the eight components have their types, together as each alone.
THEOREM ComponentsTypeCorrect == ComponentsSpec => []ComponentsTypeOK
<1>1. /\ KeysInv => KeysTypeOK
      /\ SettingsInv => SettingsTypeOK
      /\ DiscoveryInv => DiscoveryTypeOK
      /\ HealthInv => HealthTypeOK
      /\ UpstreamInv => UpstreamTypeOK
      /\ StreamInv => StreamingTypeOK
  BY DEF KeysInv, SettingsInv, DiscoveryInv, HealthInv, UpstreamInv, StreamInv
<1>2. UpstreamSpec => []UpstreamInv
  BY UpstreamInitInv, UpstreamNextInv, PTL DEF UpstreamSpec
<1> QED
  BY <1>1, <1>2, OfEachComponent, KeysAreSound, SettingsAreSound, DiscoveryIsSound, ConsentsAreProven,
     HealthInitInv, HealthNextInv, BalancerTypeCorrect, StreamInvInit, StreamInvNext, PTL DEF ComponentsTypeOK

=============================================================================

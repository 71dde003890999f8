---------------------------- MODULE ComponentsMC ----------------------------
(***************************************************************************)
(* Small instances of the components that share no state with the others:  *)
(* those that decide who may use the gateway and with what (keys,          *)
(* settings, candidates, proofs of ownership, health checks) and those     *)
(* that serve one call (the balancer, the call to the nodes, the stream).  *)
(* A behavior is one of one of them; the others keep their initial state.  *)
(***************************************************************************)
EXTENDS ApiKeys, Settings, Discovery, Ownership, HealthCheck, Balancer, Upstream, Streaming

CONSTANTS Parts, k1, k2, k3, chat, read, other, admin, g1, a1, s1, loop, operator,
          r1, r2, h1, alice, bob, n1, b1, b2, b3, q1, u1, u2

VARIABLE part     \* the component this behavior is about

\* Files: none of the parameters set; a metadata policy without and with storage; a longer
\* sync interval than the time to apply; one that is not allowed in any combination.
Contents == {<<>>, [metaOnly |-> 0], [metaOnly |-> 0, store |-> 1], [apply |-> 2],
             [sync |-> 2, apply |-> 2, loops |-> 0], [safe |-> 0], Broken}
Surroundings == {<<>>, [loops |-> 0], [limit |-> 0], [apply |-> 1]}

ActiveSources == <<s1>>
Scopes == [s \in {s1} |-> {a1}]
Intervals == [k \in Kinds |-> IF k = "live" THEN 1 ELSE IF k = "consent" THEN 3 ELSE 2]

\* Three nodes with one slot each, the one in the middle with twice the weight.
Identifiers == <<b1, b2, b3>>
Weights == [n \in ToSet(Identifiers) |-> IF n = b2 THEN 2 ELSE 1]
OneSlot == [n \in ToSet(Identifiers) |-> 1]
PointsOf == [k \in {q1} |-> << <<b2, 2>>, <<b1, 1>>, <<b3, 1>>, <<b2, 1>> >>]

RetryPolicies == [retries : {0, 1, 2}, streams : BOOLEAN, started : BOOLEAN]

ComponentsInit ==
    /\ part \in Parts
    /\ KeysInit /\ SettingsInit /\ DiscoveryInit /\ OwnershipInit /\ HealthInit
    /\ BalancerInit /\ UpstreamInit /\ StreamingInit
    /\ part # "settings" => file = <<>> /\ \A g \in Gateways : environ[g] = <<>>
    /\ part # "balancer" => algorithm = CHOOSE a \in Algorithms : TRUE
    /\ part # "upstream" => kind = "embed" /\ lb = CHOOSE p \in Policies : TRUE
    /\ part # "stream" => contract = "chat"

controlVars == <<keysVars, settingsVars, discoveryVars, ownershipVars, healthVars>>
servingVars == <<balancerVars, upstreamVars, streamingVars>>

KeysPart == part = "keys" /\ KeysNext /\ UNCHANGED <<part, settingsVars, discoveryVars, ownershipVars, healthVars, servingVars>>
SettingsPart == part = "settings" /\ SettingsNext /\ UNCHANGED <<part, keysVars, discoveryVars, ownershipVars, healthVars, servingVars>>
DiscoveryPart == part = "discovery" /\ DiscoveryNext /\ UNCHANGED <<part, keysVars, settingsVars, ownershipVars, healthVars, servingVars>>
OwnershipPart == part = "ownership" /\ OwnershipNext /\ UNCHANGED <<part, keysVars, settingsVars, discoveryVars, healthVars, servingVars>>
HealthPart == part = "health" /\ HealthNext /\ UNCHANGED <<part, keysVars, settingsVars, discoveryVars, ownershipVars, servingVars>>
BalancerPart == part = "balancer" /\ BalancerNext /\ UNCHANGED <<part, controlVars, upstreamVars, streamingVars>>
UpstreamPart == part = "upstream" /\ UpstreamNext /\ UNCHANGED <<part, controlVars, balancerVars, streamingVars>>
StreamingPart == part = "stream" /\ StreamingNext /\ UNCHANGED <<part, controlVars, balancerVars, upstreamVars>>

ComponentsNext ==
    \/ KeysPart \/ SettingsPart \/ DiscoveryPart \/ OwnershipPart \/ HealthPart
    \/ BalancerPart \/ UpstreamPart \/ StreamingPart

componentsVars == <<part, controlVars, servingVars>>
ATurn(A) == part = "health" /\ A /\ UNCHANGED <<part, keysVars, settingsVars, discoveryVars, ownershipVars, servingVars>>
Flows(A) == part = "stream" /\ A /\ UNCHANGED <<part, controlVars, balancerVars, upstreamVars>>
ComponentsFair ==
    /\ WF_componentsVars(ATurn(StartRound))
    /\ WF_componentsVars(ATurn(CommitRound))
    /\ \A n \in Checked : WF_componentsVars(ATurn(CheckInRound(n)))
    /\ WF_componentsVars(Flows(Disconnect))
    /\ WF_componentsVars(Flows(Read)) /\ WF_componentsVars(Flows(EndOfStream))
    /\ WF_componentsVars(Flows(TellBreak)) /\ WF_componentsVars(Flows(RaiseBreak))
    /\ WF_componentsVars(Flows(CloseLeftStream))

ComponentsSpec == ComponentsInit /\ [][ComponentsNext]_componentsVars /\ ComponentsFair

\* The variables of every component have their types.
ComponentsTypeOK ==
    /\ KeysTypeOK /\ SettingsTypeOK /\ DiscoveryTypeOK /\ OwnershipTypeOK /\ HealthTypeOK
    /\ BalancerTypeOK /\ UpstreamTypeOK /\ StreamingTypeOK

=============================================================================

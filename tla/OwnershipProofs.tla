-------------------------- MODULE OwnershipProofs --------------------------
(***************************************************************************)
(* Proofs about Ownership, for any registrations, addresses and owners: a  *)
(* consent comes from the owner of this very registration, and the silence *)
(* of an address takes no consent by file away.                            *)
(***************************************************************************)
EXTENDS Ownership, TLAPS

Regs == [at : Hosts \cup {NoHost}, owner : Owners \cup {NoOwner},
         status : {"none", "challenge_sent", "verified", "quarantined", "revoked", "deleted"}]
Grants == [status : {"none", "challenge_sent", "verified", "lapsed", "expired", "failed", "revoked"},
           method : Methods]

\* Whatever is out as a proof was put out by somebody who knew the challenge: a file and
\* a record, and a token that the owner of the registration signed.  Nobody signs for a
\* node before it is registered, and an id is registered once.
FilesPublished == \A h \in Hosts : site[h] # NoDoc => site[h].node \in published
RecordsPublished == \A h \in Hosts : \A d \in zone[h] : d.node \in published
TokensPublished ==
    \A t \in tokens : reg[t.node].status # "none" /\ (t.owner = reg[t.node].owner => t.node \in published)

RegisteredHasStatus == \A m \in Ids : Registered(m) => reg[m].status # "none"

OwnershipInv ==
    OwnershipTypeOK /\ RegisteredHasStatus /\ FilesPublished /\ RecordsPublished /\ TokensPublished /\ ProvenByOwner

LEMMA RegistryTypes ==
    ASSUME OwnershipTypeOK, NEW n \in Ids
    PROVE  /\ reg \in [Ids -> Regs] /\ grant \in [Ids -> Grants]
           /\ reg[n] \in Regs /\ grant[n] \in Grants
           /\ Registered(n) => reg[n].at \in Hosts
BY DEF OwnershipTypeOK, Registered, Regs, Grants

\* Changes of the registry alone: what they must keep for the invariant to go on.
LEMMA RegistryStep ==
    ASSUME OwnershipInv, UNCHANGED <<proofVars, published>>,
           reg' \in [Ids -> Regs], grant' \in [Ids -> Grants], pubkey' \subseteq Owners,
           \A m \in Ids : reg'[m].owner # NoOwner /\ reg[m].status # "none" => reg'[m].owner = reg[m].owner,
           \A m \in Ids : reg'[m].at # NoHost \/ reg[m].status # "none" => reg'[m].status # "none",
           \A m \in Ids : grant'[m].status \in {"verified", "lapsed"} =>
               grant[m].status \in {"verified", "lapsed"} \/ m \in published
    PROVE  OwnershipInv'
<1>1. OwnershipTypeOK'
  BY DEF OwnershipInv, OwnershipTypeOK, proofVars, Regs, Grants
<1>2. FilesPublished' /\ RecordsPublished'
  BY DEF OwnershipInv, FilesPublished, RecordsPublished, proofVars
<1>3. TokensPublished'
  <2> SUFFICES ASSUME NEW t \in tokens
      PROVE  reg'[t.node].status # "none" /\ (t.owner = reg'[t.node].owner => t.node \in published)
    BY DEF TokensPublished, proofVars
  <2>1. t.node \in Ids /\ t.owner \in Owners /\ t.owner # NoOwner /\ reg[t.node].status # "none"
        /\ (t.owner = reg[t.node].owner => t.node \in published)
    BY OwnershipAssumption DEF OwnershipInv, OwnershipTypeOK, TokensPublished, Tokens
  <2> QED
    BY <2>1
<1>4. ProvenByOwner' /\ RegisteredHasStatus'
  BY DEF OwnershipInv, ProvenByOwner, RegisteredHasStatus, Registered
<1> QED
  BY <1>1, <1>2, <1>3, <1>4 DEF OwnershipInv

-----------------------------------------------------------------------------
(* The gateway                                                              *)

LEMMA RegisterNodeInv ==
    ASSUME OwnershipInv, NEW c, NEW n \in Ids, NEW h \in Hosts, NEW o \in Owners, NEW method \in Methods,
           RegisterNode(c, n, h, o, method)
    PROVE  OwnershipInv'
<1>1. /\ reg[n].status = "none" /\ UNCHANGED <<proofVars, pubkey, published>>
      /\ reg' = [reg EXCEPT ![n] = [at |-> h, owner |-> o, status |-> "challenge_sent"]]
      /\ grant' = [grant EXCEPT ![n] = Enrolled(method)]
  BY DEF RegisterNode, NoReg
<1>2. reg' \in [Ids -> Regs] /\ reg \in [Ids -> Regs]
  BY <1>1, RegistryTypes DEF OwnershipInv, Regs
<1>3. grant' \in [Ids -> Grants] /\ grant \in [Ids -> Grants] /\ grant'[n].status = "challenge_sent"
  BY <1>1, RegistryTypes DEF OwnershipInv, Grants, Enrolled
<1>4. reg'[n].status = "challenge_sent" /\ \A m \in Ids \ {n} : reg'[m] = reg[m] /\ grant'[m] = grant[m]
  BY <1>1, <1>2, <1>3
<1>5. \A m \in Ids : reg'[m].at # NoHost \/ reg[m].status # "none" => reg'[m].status # "none"
  BY <1>4 DEF OwnershipInv, RegisteredHasStatus, Registered
<1>6. pubkey' \subseteq Owners
  BY <1>1 DEF OwnershipInv, OwnershipTypeOK
<1> QED
  BY <1>1, <1>2, <1>3, <1>4, <1>5, <1>6, RegistryStep

LEMMA SetKeyInv == ASSUME OwnershipInv, NEW o \in Owners, SetKey(o) PROVE OwnershipInv'
<1>1. reg' = reg /\ grant' = grant /\ UNCHANGED <<proofVars, published>> /\ pubkey' \subseteq Owners
  BY DEF SetKey, OwnershipInv, OwnershipTypeOK
<1>2. reg \in [Ids -> Regs] /\ grant \in [Ids -> Grants]
  BY DEF OwnershipInv, OwnershipTypeOK, Regs, Grants
<1>3. \A m \in Ids : reg'[m].at # NoHost => reg'[m].status # "none"
  BY <1>1 DEF OwnershipInv, RegisteredHasStatus, Registered
<1> QED
  BY <1>1, <1>2, <1>3, RegistryStep

\* A proof that passes was put out by somebody who knew the challenge (verify_proof).
LEMMA PassedWasPublished ==
    ASSUME OwnershipInv, NEW n \in Ids, Registered(n), NEW method \in Methods, NEW t \in tokens \cup {NoToken},
           "pass" \in Proof(n, method, t)
    PROVE  n \in published
<1>1. reg[n].at \in Hosts
  BY RegistryTypes DEF OwnershipInv
<1>2. CASE method = "http_well_known"
  <2>1. "pass" \in HttpProof(n)
    BY <1>2 DEF Proof
  <2>2. site[reg[n].at] = [node |-> n, fresh |-> TRUE]
    BY <2>1 DEF HttpProof
  <2>3. [node |-> n, fresh |-> TRUE] # NoDoc
    <3>1. [node |-> n, fresh |-> TRUE] \in [node : Ids, fresh : BOOLEAN]
      OBVIOUS
    <3> QED
      BY <3>1, OwnershipAssumption
  <2> QED
    BY <1>1, <2>2, <2>3 DEF OwnershipInv, FilesPublished
<1>3. CASE method = "dns_txt"
  <2>1. "pass" \in DnsProof(n)
    BY <1>3 DEF Proof
  <2>2. \E d \in Lookup(reg[n].at) : d.node = n
    BY <2>1 DEF DnsProof
  <2> QED
    BY <1>1, <2>2 DEF Lookup, OwnershipInv, RecordsPublished
<1>4. CASE method = "signed_token"
  <2>1. t \in tokens /\ t.node = n /\ t.owner = reg[n].owner
    BY <1>4 DEF Proof, TokenProof
  <2> QED
    BY <2>1 DEF OwnershipInv, TokensPublished
<1> QED
  BY <1>2, <1>3, <1>4 DEF Methods

\* A handler or a check that gives one node a status, and its consent another.
LEMMA OneNodeStep ==
    ASSUME OwnershipInv, NEW n \in Ids, NEW st \in {"verified", "quarantined", "revoked"}, NEW g \in Grants,
           reg[n].status # "none",
           reg' = [reg EXCEPT ![n].status = st], grant' = [grant EXCEPT ![n] = g],
           g.status \in {"verified", "lapsed"} => grant[n].status \in {"verified", "lapsed"} \/ n \in published,
           UNCHANGED <<proofVars, pubkey, published>>
    PROVE  OwnershipInv'
<1>1. reg \in [Ids -> Regs] /\ grant \in [Ids -> Grants] /\ reg[n] \in Regs
  BY RegistryTypes DEF OwnershipInv
<1>2. grant' \in [Ids -> Grants] /\ grant'[n] = g /\ \A m \in Ids \ {n} : grant'[m] = grant[m]
  BY <1>1
<1>3. reg' \in [Ids -> Regs]
  BY <1>1 DEF Regs
<1>4. reg'[n].owner = reg[n].owner /\ reg'[n].status = st /\ \A m \in Ids \ {n} : reg'[m] = reg[m]
  BY <1>1 DEF Regs
<1>5. \A m \in Ids : reg'[m].at # NoHost \/ reg[m].status # "none" => reg'[m].status # "none"
  BY <1>4 DEF OwnershipInv, RegisteredHasStatus, Registered
<1>6. pubkey' \subseteq Owners /\ UNCHANGED <<proofVars, published>>
  BY DEF OwnershipInv, OwnershipTypeOK
<1> QED
  BY <1>2, <1>3, <1>4, <1>5, <1>6, RegistryStep

LEMMA UnchangedInv == OwnershipInv /\ UNCHANGED ownershipVars => OwnershipInv'
BY DEF ownershipVars, OwnershipInv, OwnershipTypeOK, RegisteredHasStatus, Registered, FilesPublished,
   RecordsPublished, TokensPublished, ProvenByOwner

LEMMA VerifyInv ==
    ASSUME OwnershipInv, NEW c, NEW n \in Ids, NEW method \in Methods, NEW t \in tokens \cup {NoToken},
           Verify(c, n, method, t)
    PROVE  OwnershipInv'
<1>1. Registered(n) /\ reg[n].status # "none" /\ UNCHANGED <<proofVars, pubkey, published>>
  BY DEF Verify, OwnershipInv, RegisteredHasStatus
<1>2. grant[n] \in Grants /\ AfterVerification(method) \in {"verified", "quarantined"}
  BY RegistryTypes DEF OwnershipInv, AfterVerification
<1>3. PICK outcome \in Proof(n, method, t) :
          \/ /\ outcome = "pass"
             /\ grant' = [grant EXCEPT ![n] = [status |-> "verified", method |-> method]]
             /\ reg' = [reg EXCEPT ![n].status = AfterVerification(method)]
          \/ /\ outcome = "fail"
             /\ grant' = [grant EXCEPT ![n].status = "failed"]
             /\ reg' = [reg EXCEPT ![n].status = "quarantined"]
          \/ outcome = "open" /\ UNCHANGED <<reg, grant>>
  BY DEF Verify
<1>4. CASE outcome = "pass"
  <2> DEFINE g == [status |-> "verified", method |-> method]
  <2>1. n \in published
    BY <1>1, <1>3, <1>4, PassedWasPublished
  <2>2. g \in Grants
    BY DEF Grants
  <2>3. grant' = [grant EXCEPT ![n] = g] /\ reg' = [reg EXCEPT ![n].status = AfterVerification(method)]
    BY <1>3, <1>4
  <2> HIDE DEF g
  <2> QED
    BY <1>1, <1>2, <2>1, <2>2, <2>3, OneNodeStep
<1>5. CASE outcome = "fail"
  <2> DEFINE g == [grant[n] EXCEPT !.status = "failed"]
  <2>1. g \in Grants /\ g.status = "failed"
    BY <1>2 DEF Grants
  <2>2. grant' = [grant EXCEPT ![n] = g] /\ reg' = [reg EXCEPT ![n].status = "quarantined"]
    BY <1>3, <1>5
  <2> HIDE DEF g
  <2> QED
    BY <1>1, <2>1, <2>2, OneNodeStep
<1>6. CASE outcome = "open"
  BY <1>1, <1>3, <1>6, UnchangedInv DEF ownershipVars, proofVars
<1> QED
  BY <1>3, <1>4, <1>5, <1>6

LEMMA RecheckInv == ASSUME OwnershipInv, NEW n \in Ids, Recheck(n) PROVE OwnershipInv'
<1> DEFINE g == [grant[n] EXCEPT !.status = IF @ = "lapsed" THEN "expired" ELSE @]
<1>1. grant[n] \in Grants
  BY RegistryTypes DEF OwnershipInv
<1>2. g \in Grants /\ (g.status \in {"verified", "lapsed"} => grant[n].status \in {"verified", "lapsed"})
  BY <1>1 DEF Grants
<1>3. grant' = [grant EXCEPT ![n] = g] /\ reg[n].status = "verified" /\ UNCHANGED <<proofVars, pubkey, published>>
  BY DEF Recheck
<1>4. PICK outcome \in Rechecked(n) :
          reg' = [reg EXCEPT ![n].status = IF outcome = "fail" THEN "quarantined" ELSE reg[n].status]
  BY DEF Recheck
<1> HIDE DEF g
<1>5. (IF outcome = "fail" THEN "quarantined" ELSE reg[n].status) \in {"verified", "quarantined", "revoked"}
  BY <1>3
<1> QED
  BY <1>2, <1>3, <1>4, <1>5, OneNodeStep

LEMMA ForceRecheckInv == ASSUME OwnershipInv, NEW n \in Ids, ForceRecheck(n) PROVE OwnershipInv'
<1>1. grant[n] \in Grants /\ grant' = [grant EXCEPT ![n] = grant[n]] /\ reg[n].status = "quarantined"
      /\ reg' = [reg EXCEPT ![n].status = "verified"] /\ UNCHANGED <<proofVars, pubkey, published>>
  BY RegistryTypes DEF ForceRecheck, OwnershipInv
<1> QED
  BY <1>1, OneNodeStep

LEMMA RevokeConsentInv == ASSUME OwnershipInv, NEW c, NEW n \in Ids, RevokeConsent(c, n) PROVE OwnershipInv'
<1> DEFINE g == [grant[n] EXCEPT !.status = "revoked"]
<1>1. g \in Grants /\ g.status = "revoked"
  BY RegistryTypes DEF OwnershipInv, Grants
<1>2. /\ grant' = [grant EXCEPT ![n] = g] /\ reg' = [reg EXCEPT ![n].status = "revoked"]
      /\ UNCHANGED <<proofVars, pubkey, published>> /\ reg[n].status # "none"
  BY DEF RevokeConsent, OwnershipInv, RegisteredHasStatus
<1> HIDE DEF g
<1> QED
  BY <1>1, <1>2, OneNodeStep

LEMMA DeleteNodeInv == ASSUME OwnershipInv, NEW c, NEW n \in Ids, DeleteNode(c, n) PROVE OwnershipInv'
<1> DEFINE r == [NoReg EXCEPT !.status = "deleted"]
<1>1. r \in Regs /\ r.owner = NoOwner /\ r.at = NoHost /\ r.status = "deleted"
  BY DEF NoReg, Regs
<1>2. NoGrant \in Grants /\ NoGrant.status = "none"
  BY DEF NoGrant, Grants, Methods
<1>3. /\ reg' = [reg EXCEPT ![n] = r] /\ grant' = [grant EXCEPT ![n] = NoGrant]
      /\ UNCHANGED <<proofVars, pubkey, published>>
  BY DEF DeleteNode
<1>4. reg \in [Ids -> Regs] /\ grant \in [Ids -> Grants]
  BY RegistryTypes DEF OwnershipInv
<1> HIDE DEF r
<1>5. reg' \in [Ids -> Regs] /\ grant' \in [Ids -> Grants] /\ reg'[n] = r /\ grant'[n] = NoGrant
      /\ \A m \in Ids \ {n} : reg'[m] = reg[m] /\ grant'[m] = grant[m]
  BY <1>1, <1>2, <1>3, <1>4
<1>6. \A m \in Ids : reg'[m].at # NoHost \/ reg[m].status # "none" => reg'[m].status # "none"
  BY <1>1, <1>5 DEF OwnershipInv, RegisteredHasStatus, Registered
<1> QED
  BY <1>1, <1>2, <1>3, <1>5, <1>6, RegistryStep DEF OwnershipInv, OwnershipTypeOK

-----------------------------------------------------------------------------
(* Owners, time and the network                                             *)

\* The registry stays, and everything that is out was published.
LEMMA ProofStep ==
    ASSUME OwnershipInv, UNCHANGED <<reg, grant, pubkey>>,
           published \subseteq published', published' \subseteq Ids,
           site' \in [Hosts -> Docs \cup {NoDoc}], net' \in [Hosts -> Nets], zone' \in [Hosts -> SUBSET Docs],
           resolver' \in BOOLEAN, tokens' \subseteq Tokens,
           FilesPublished', RecordsPublished', TokensPublished'
    PROVE  OwnershipInv'
<1>1. OwnershipTypeOK'
  BY DEF OwnershipInv, OwnershipTypeOK
<1>2. RegisteredHasStatus' /\ ProvenByOwner'
  BY DEF OwnershipInv, RegisteredHasStatus, Registered, ProvenByOwner
<1> QED
  BY <1>1, <1>2 DEF OwnershipInv

LEMMA DocumentType == ASSUME NEW n \in Ids PROVE DocumentFor(n) \in Docs /\ DocumentFor(n).node = n
BY DEF DocumentFor, Docs

\* What was out stays published when the history grows.
LEMMA StillPublished ==
    ASSUME OwnershipInv, published \subseteq published'
    PROVE  /\ site' = site => FilesPublished'
           /\ zone' = zone => RecordsPublished'
           /\ tokens' \subseteq tokens /\ reg' = reg => TokensPublished'
BY DEF OwnershipInv, FilesPublished, RecordsPublished, TokensPublished

LEMMA PublishFileInv == ASSUME OwnershipInv, NEW n \in Ids, PublishFile(n) \/ ServeConsent(n) PROVE OwnershipInv'
<1>1. /\ site' = [site EXCEPT ![reg[n].at] = DocumentFor(n)] /\ published' = published \cup {n}
      /\ UNCHANGED <<reg, grant, zone, resolver, tokens, pubkey>> /\ Registered(n)
      /\ net' = net \/ net' = [net EXCEPT ![reg[n].at] = "up"]
  BY DEF PublishFile, ServeConsent
<1>2. /\ site \in [Hosts -> Docs \cup {NoDoc}] /\ net \in [Hosts -> Nets] /\ published \subseteq Ids
      /\ zone \in [Hosts -> SUBSET Docs] /\ resolver \in BOOLEAN /\ tokens \subseteq Tokens
  BY DEF OwnershipInv, OwnershipTypeOK
<1>3. site' \in [Hosts -> Docs \cup {NoDoc}] /\ net' \in [Hosts -> Nets]
  BY <1>1, <1>2, DocumentType DEF Nets
<1>4. FilesPublished'
  BY <1>1, <1>2, DocumentType DEF OwnershipInv, FilesPublished
<1>5. RecordsPublished' /\ TokensPublished'
  BY <1>1, StillPublished
<1> QED
  BY <1>1, <1>2, <1>3, <1>4, <1>5, ProofStep

LEMMA PublishRecordInv == ASSUME OwnershipInv, NEW n \in Ids, PublishRecord(n) PROVE OwnershipInv'
<1>1. /\ zone' = [zone EXCEPT ![reg[n].at] = @ \cup {DocumentFor(n)}] /\ published' = published \cup {n}
      /\ UNCHANGED <<reg, grant, site, net, resolver, tokens, pubkey>>
  BY DEF PublishRecord
<1>2. /\ site \in [Hosts -> Docs \cup {NoDoc}] /\ net \in [Hosts -> Nets] /\ published \subseteq Ids
      /\ zone \in [Hosts -> SUBSET Docs] /\ resolver \in BOOLEAN /\ tokens \subseteq Tokens
  BY DEF OwnershipInv, OwnershipTypeOK
<1>3. zone' \in [Hosts -> SUBSET Docs]
  BY <1>1, <1>2, DocumentType
<1>4. RecordsPublished'
  BY <1>1, <1>2, DocumentType DEF OwnershipInv, RecordsPublished
<1>5. FilesPublished' /\ TokensPublished'
  BY <1>1, StillPublished
<1> QED
  BY <1>1, <1>2, <1>3, <1>4, <1>5, ProofStep

LEMMA SignTokenInv == ASSUME OwnershipInv, NEW o \in Owners, NEW n \in Ids, SignToken(o, n) PROVE OwnershipInv'
<1> DEFINE t == [node |-> n, owner |-> o]
<1>1. /\ tokens' = tokens \cup {t} /\ UNCHANGED <<reg, grant, site, net, zone, resolver, pubkey>>
      /\ published' = (IF reg[n].owner = o THEN published \cup {n} ELSE published)
      /\ reg[n].status # "none"
  BY DEF SignToken, OwnershipInv, RegisteredHasStatus
<1>2. t \in Tokens /\ t.node = n /\ t.owner = o
  BY DEF Tokens
<1> HIDE DEF t
<1>3. /\ site \in [Hosts -> Docs \cup {NoDoc}] /\ net \in [Hosts -> Nets] /\ published \subseteq Ids
      /\ zone \in [Hosts -> SUBSET Docs] /\ resolver \in BOOLEAN /\ tokens \subseteq Tokens
  BY DEF OwnershipInv, OwnershipTypeOK
<1>4. published \subseteq published' /\ published' \subseteq Ids
  BY <1>1, <1>3
<1>5. TokensPublished'
  BY <1>1, <1>2, <1>4 DEF OwnershipInv, TokensPublished
<1>6. FilesPublished' /\ RecordsPublished'
  BY <1>1, <1>4, StillPublished
<1> QED
  BY <1>1, <1>2, <1>3, <1>4, <1>5, <1>6, ProofStep

LEMMA StopServingInv == ASSUME OwnershipInv, NEW h \in Hosts, StopServing(h) PROVE OwnershipInv'
<1>1. /\ site' = [site EXCEPT ![h] = NoDoc] /\ net' = [net EXCEPT ![h] = "down"]
      /\ UNCHANGED <<reg, grant, zone, resolver, tokens, pubkey, published>>
  BY DEF StopServing
<1>2. /\ site \in [Hosts -> Docs \cup {NoDoc}] /\ net \in [Hosts -> Nets] /\ published \subseteq Ids
      /\ zone \in [Hosts -> SUBSET Docs] /\ resolver \in BOOLEAN /\ tokens \subseteq Tokens
  BY DEF OwnershipInv, OwnershipTypeOK
<1>3. site' \in [Hosts -> Docs \cup {NoDoc}] /\ net' \in [Hosts -> Nets]
  BY <1>1, <1>2 DEF Nets
<1>4. FilesPublished'
  BY <1>1, <1>2 DEF OwnershipInv, FilesPublished
<1>5. RecordsPublished' /\ TokensPublished'
  BY <1>1, StillPublished
<1> QED
  BY <1>1, <1>2, <1>3, <1>4, <1>5, ProofStep

LEMMA WithdrawInv == ASSUME OwnershipInv, NEW h \in Hosts, Withdraw(h) PROVE OwnershipInv'
<1>1. /\ site \in [Hosts -> Docs \cup {NoDoc}] /\ net \in [Hosts -> Nets] /\ published \subseteq Ids
      /\ zone \in [Hosts -> SUBSET Docs] /\ resolver \in BOOLEAN /\ tokens \subseteq Tokens
  BY DEF OwnershipInv, OwnershipTypeOK
<1>2. UNCHANGED <<reg, grant, net, resolver, tokens, pubkey, published>>
  BY DEF Withdraw
<1>3. TokensPublished'
  BY <1>2, StillPublished
<1>4. CASE site' = [site EXCEPT ![h] = NoDoc] /\ UNCHANGED zone
  <2>1. site' \in [Hosts -> Docs \cup {NoDoc}] /\ FilesPublished'
    BY <1>1, <1>2, <1>4 DEF OwnershipInv, FilesPublished
  <2>2. RecordsPublished'
    BY <1>2, <1>4, StillPublished
  <2> QED
    BY <1>1, <1>2, <1>3, <1>4, <2>1, <2>2, ProofStep
<1>5. CASE (\E d \in zone[h] : zone' = [zone EXCEPT ![h] = @ \ {d}]) /\ UNCHANGED site
  <2>1. zone' \in [Hosts -> SUBSET Docs] /\ RecordsPublished'
    BY <1>1, <1>2, <1>5 DEF OwnershipInv, RecordsPublished
  <2>2. FilesPublished'
    BY <1>2, <1>5, StillPublished
  <2> QED
    BY <1>1, <1>2, <1>3, <1>5, <2>1, <2>2, ProofStep
<1> QED
  BY <1>4, <1>5 DEF Withdraw

LEMMA WeatherInv == ASSUME OwnershipInv, NEW h \in Hosts, Weather(h) PROVE OwnershipInv'
<1>1. UNCHANGED <<reg, grant, site, zone, tokens, pubkey, published>>
  BY DEF Weather
<1>2. net' \in [Hosts -> Nets] /\ resolver' \in BOOLEAN
  BY DEF Weather, OwnershipInv, OwnershipTypeOK
<1>3. FilesPublished' /\ RecordsPublished' /\ TokensPublished'
  BY <1>1, StillPublished
<1> QED
  BY <1>1, <1>2, <1>3, ProofStep DEF OwnershipInv, OwnershipTypeOK

LEMMA LapseInv == ASSUME OwnershipInv, NEW n \in Ids, Lapse(n) PROVE OwnershipInv'
<1>1. /\ site \in [Hosts -> Docs \cup {NoDoc}] /\ net \in [Hosts -> Nets] /\ published \subseteq Ids
      /\ zone \in [Hosts -> SUBSET Docs] /\ resolver \in BOOLEAN /\ tokens \subseteq Tokens
  BY DEF OwnershipInv, OwnershipTypeOK
<1>2. UNCHANGED <<reg, net, resolver, pubkey, published>>
  BY DEF Lapse
<1>3. \A d \in Docs : [d EXCEPT !.fresh = FALSE] \in Docs /\ [d EXCEPT !.fresh = FALSE].node = d.node
  BY DEF Docs
<1>4. CASE /\ site' = [h \in Hosts |-> IF site[h] # NoDoc /\ site[h].node = n
                                       THEN [site[h] EXCEPT !.fresh = FALSE] ELSE site[h]]
           /\ UNCHANGED <<grant, zone, tokens>>
  <2>1. site' \in [Hosts -> Docs \cup {NoDoc}]
    BY <1>1, <1>3, <1>4
  <2>2. \A h \in Hosts : site'[h] # NoDoc => site[h] # NoDoc /\ site'[h].node = site[h].node
    BY <1>1, <1>3, <1>4
  <2>3. FilesPublished'
    BY <1>2, <2>2 DEF OwnershipInv, FilesPublished
  <2>4. RecordsPublished' /\ TokensPublished'
    BY <1>2, <1>4, StillPublished
  <2> QED
    BY <1>1, <1>2, <1>4, <2>1, <2>3, <2>4, ProofStep
<1>5. CASE /\ zone' = [h \in Hosts |-> {IF d.node = n THEN [d EXCEPT !.fresh = FALSE] ELSE d : d \in zone[h]}]
           /\ UNCHANGED <<grant, site, tokens>>
  <2>1. ASSUME NEW h \in Hosts, NEW d \in zone'[h] PROVE d \in Docs /\ \E e \in zone[h] : d.node = e.node
    <3>1. zone'[h] = {IF e.node = n THEN [e EXCEPT !.fresh = FALSE] ELSE e : e \in zone[h]}
      BY <1>5
    <3>2. PICK e \in zone[h] : d = IF e.node = n THEN [e EXCEPT !.fresh = FALSE] ELSE e
      BY <3>1
    <3>3. e \in Docs
      BY <1>1
    <3> QED
      BY <1>3, <3>2, <3>3
  <2>2. zone' \in [Hosts -> SUBSET Docs]
    <3>1. \A h \in Hosts : zone'[h] \subseteq Docs
      BY <2>1
    <3> QED
      BY <1>5, <3>1
  <2>3. RecordsPublished'
    BY <1>2, <2>1 DEF OwnershipInv, RecordsPublished
  <2>4. FilesPublished' /\ TokensPublished'
    BY <1>2, <1>5, StillPublished
  <2> QED
    BY <1>1, <1>2, <1>5, <2>2, <2>3, <2>4, ProofStep
<1>6. CASE tokens' = {t \in tokens : t.node # n} /\ UNCHANGED <<grant, site, zone>>
  <2>1. FilesPublished' /\ RecordsPublished' /\ TokensPublished'
    BY <1>2, <1>6, StillPublished
  <2> QED
    BY <1>1, <1>2, <1>6, <2>1, ProofStep
<1>7. CASE /\ grant[n].status = "verified" /\ grant' = [grant EXCEPT ![n].status = "lapsed"]
           /\ UNCHANGED <<site, zone, tokens>>
  <2>1. reg \in [Ids -> Regs] /\ grant \in [Ids -> Grants] /\ grant' \in [Ids -> Grants]
    BY <1>7, RegistryTypes DEF OwnershipInv, Grants
  <2>2. \A m \in Ids : grant'[m].status \in {"verified", "lapsed"} => grant[m].status \in {"verified", "lapsed"}
    BY <1>7, <2>1
  <2>3. \A m \in Ids : reg'[m].at # NoHost => reg'[m].status # "none"
    BY <1>2 DEF OwnershipInv, RegisteredHasStatus, Registered
  <2> QED
    BY <1>2, <1>7, <2>1, <2>2, <2>3, RegistryStep DEF proofVars, OwnershipInv, OwnershipTypeOK
<1> QED
  BY <1>4, <1>5, <1>6, <1>7 DEF Lapse

LEMMA OwnershipInitInv == OwnershipInit => OwnershipInv
<1> SUFFICES ASSUME OwnershipInit PROVE OwnershipInv
  OBVIOUS
<1>1. NoReg \in Regs /\ NoReg.at = NoHost /\ NoGrant \in Grants /\ NoGrant.status = "none"
  BY DEF NoReg, Regs, NoGrant, Grants, Methods
<1>2. OwnershipTypeOK
  BY <1>1 DEF OwnershipInit, OwnershipTypeOK, Regs, Grants, Nets
<1>3. RegisteredHasStatus /\ ProvenByOwner
  BY <1>1 DEF OwnershipInit, RegisteredHasStatus, Registered, ProvenByOwner
<1>4. FilesPublished /\ RecordsPublished /\ TokensPublished
  BY DEF OwnershipInit, FilesPublished, RecordsPublished, TokensPublished
<1> QED
  BY <1>2, <1>3, <1>4 DEF OwnershipInv

LEMMA OwnershipNextInv == OwnershipInv /\ [OwnershipNext]_ownershipVars => OwnershipInv'
BY UnchangedInv, RegisterNodeInv, SetKeyInv, VerifyInv, RecheckInv, ForceRecheckInv, RevokeConsentInv,
   DeleteNodeInv, PublishFileInv, PublishRecordInv, SignTokenInv, StopServingInv, WithdrawInv, WeatherInv,
   LapseInv DEF OwnershipNext

-----------------------------------------------------------------------------
(* The theorems                                                             *)

\* A consent is verified only after a proof of this very registration was put out by
\* somebody who was told its challenge, whatever was left at the address before and
\* whatever others sign (verify_proof, verify_ownership).
THEOREM ConsentsAreProven == OwnershipSpec => [](OwnershipTypeOK /\ ProvenByOwner)
<1>1. OwnershipSpec => []OwnershipInv
  BY OwnershipInitInv, OwnershipNextInv, PTL DEF OwnershipSpec
<1>2. OwnershipInv => OwnershipTypeOK /\ ProvenByOwner
  BY DEF OwnershipInv
<1> QED
  BY <1>1, <1>2, PTL

\* What a re-check that takes a node away has read.
BrokenOnAnAnswer ==
    \A n \in Ids : BrokenByRecheck(n) /\ grant[n].method = "http_well_known" => Readable(n, "http_well_known")

LEMMA StepKeepsFileNodes == OwnershipInv /\ [OwnershipNext]_ownershipVars => BrokenOnAnAnswer
<1> SUFFICES ASSUME OwnershipInv, [OwnershipNext]_ownershipVars, NEW n \in Ids, BrokenByRecheck(n),
                    grant[n].method = "http_well_known"
    PROVE  Readable(n, "http_well_known")
  BY DEF BrokenOnAnAnswer
<1>1. /\ reg[n].status = "verified" /\ reg'[n].status = "quarantined"
      /\ grant[n].status = "verified" /\ grant'[n] = grant[n]
      /\ reg \in [Ids -> Regs] /\ grant \in [Ids -> Grants] /\ reg[n] \in Regs /\ grant[n] \in Grants
  BY RegistryTypes DEF BrokenByRecheck, OwnershipInv
<1>2. ASSUME Recheck(n) PROVE Readable(n, "http_well_known")
  <2>1. "fail" \in Rechecked(n)
    BY <1>1, <1>2 DEF Recheck, Regs
  <2>2. "fail" \in HttpProof(n)
    BY <1>1, <2>1 DEF Rechecked, Proof
  <2> QED
    BY <2>2 DEF HttpProof, Readable
<1>3. ASSUME NEW m \in Ids, m # n, Recheck(m) PROVE FALSE
  BY <1>1, <1>3 DEF Recheck
<1>4. ASSUME NEW c, NEW m \in Ids, NEW method \in Methods, NEW t \in tokens \cup {NoToken}, Verify(c, m, method, t)
      PROVE  FALSE
  <2>1. m = n
    BY <1>1, <1>4 DEF Verify
  <2>2. PICK outcome \in Proof(n, method, t) :
            \/ /\ grant' = [grant EXCEPT ![n] = [status |-> "verified", method |-> method]]
               /\ reg' = [reg EXCEPT ![n].status = AfterVerification(method)]
            \/ grant' = [grant EXCEPT ![n].status = "failed"]
            \/ UNCHANGED <<reg, grant>>
    BY <1>4, <2>1 DEF Verify
  <2>3. CASE /\ grant' = [grant EXCEPT ![n] = [status |-> "verified", method |-> method]]
             /\ reg' = [reg EXCEPT ![n].status = AfterVerification(method)]
    <3>1. grant'[n].method = method /\ reg'[n].status = AfterVerification(method)
      BY <1>1, <2>3 DEF Regs
    <3> QED
      BY <1>1, <3>1 DEF AfterVerification
  <2>4. CASE grant' = [grant EXCEPT ![n].status = "failed"]
    <3>1. grant'[n].status = "failed"
      BY <1>1, <2>4 DEF Grants
    <3> QED
      BY <1>1, <3>1
  <2> QED
    BY <1>1, <2>2, <2>3, <2>4
<1>5. ASSUME NEW c, NEW m \in Ids, RevokeConsent(c, m) \/ DeleteNode(c, m) PROVE FALSE
  BY <1>1, <1>5 DEF RevokeConsent, DeleteNode, NoReg, Regs
<1>6. ASSUME NEW c, NEW m \in Ids, NEW h \in Hosts, NEW o \in Owners, NEW method \in Methods,
             RegisterNode(c, m, h, o, method)
      PROVE  FALSE
  BY <1>1, <1>6 DEF RegisterNode, NoReg
<1>7. ASSUME NEW m \in Ids, ForceRecheck(m) PROVE FALSE
  BY <1>1, <1>7 DEF ForceRecheck, Regs
<1>8. reg' # reg
  BY <1>1
<1> QED
  BY <1>2, <1>3, <1>4, <1>5, <1>6, <1>7, <1>8 DEF OwnershipNext, ownershipVars, PublishFile, ServeConsent,
     PublishRecord, Lapse, SetKey, SignToken, StopServing, Withdraw, Weather

\* A re-check quarantines a node whose consent is by file only on an answer of its
\* address: silence and error statuses are no withdrawal (_proof_http, _consent_status).
THEOREM SilenceKeepsFileNodes == OwnershipSpec => FileOutageKeepsNode
<1>1. OwnershipSpec => []OwnershipInv
  BY OwnershipInitInv, OwnershipNextInv, PTL DEF OwnershipSpec
<1>2. OwnershipSpec => [][BrokenOnAnAnswer]_ownershipVars
  BY <1>1, StepKeepsFileNodes, PTL DEF OwnershipSpec
<1> QED
  BY <1>2, PTL DEF FileOutageKeepsNode, BrokenOnAnAnswer

=============================================================================

----------------------------- MODULE Ownership -----------------------------
(***************************************************************************)
(* How an owner proves that a node is theirs: registration, the consent    *)
(* file, the DNS record and the signed token, their verification, the      *)
(* re-check, and the withdrawal; with the addresses and the name servers   *)
(* where the proofs are kept, which fail and change hands.                 *)
(*                                                                         *)
(* A node id stands for one registration, its challenge included: both are *)
(* generated together.  Whether a document is past its end is a flag that  *)
(* time may set.  Each handler is one step: how handlers interleave is     *)
(* NodeRegistry's subject.                                                 *)
(***************************************************************************)
EXTENDS Naturals, FiniteSets

CONSTANTS
    Ids,        \* registrations
    Hosts,      \* addresses a node may have
    Owners,     \* identities of owners
    TokenOwner, \* auth.owner_ref: the one the owner token stands for
    Admin,
    MaxProofs,  \* bound on the proofs that are out at a time
    NoHost, NoDoc, NoOwner, NoToken

ASSUME OwnershipAssumption ==
    /\ MaxProofs \in Nat
    /\ TokenOwner \in Owners
    /\ NoHost \notin Hosts /\ NoOwner \notin Owners /\ Admin \notin Owners
    /\ NoDoc \notin [node : Ids, fresh : BOOLEAN]
    /\ NoToken \notin [node : Ids, owner : Owners]

VARIABLES
    reg,        \* per id: the node's row
    grant,      \* per id: the consent's row
    site,       \* per host: the file at CONSENT_PATH, if there is one that may be read
    net,        \* per host: how it answers over HTTP
    zone,       \* per host: its TXT records
    resolver,   \* the gateway's name server answers
    tokens,     \* signed tokens that are out and still valid
    pubkey,     \* owners whose public key the gateway has
    published   \* history: ids for which somebody who was told the challenge put out a proof

proofVars == <<site, net, zone, resolver, tokens>>
ownershipVars == <<reg, grant, site, net, zone, resolver, tokens, pubkey, published>>

Methods == {"http_well_known", "dns_txt", "signed_token"}
Docs == [node : Ids, fresh : BOOLEAN]
Tokens == [node : Ids, owner : Owners]
Nets == {"up", "down", "erring"}
NoReg == [at |-> NoHost, owner |-> NoOwner, status |-> "none"]
NoGrant == [status |-> "none", method |-> "http_well_known"]

OwnershipTypeOK ==
    /\ reg \in [Ids -> [at : Hosts \cup {NoHost}, owner : Owners \cup {NoOwner},
                        status : {"none", "challenge_sent", "verified", "quarantined", "revoked", "deleted"}]]
    /\ grant \in [Ids -> [status : {"none", "challenge_sent", "verified", "lapsed", "expired", "failed", "revoked"},
                          method : Methods]]
    /\ site \in [Hosts -> Docs \cup {NoDoc}] /\ net \in [Hosts -> Nets]
    /\ zone \in [Hosts -> SUBSET Docs] /\ resolver \in BOOLEAN
    /\ tokens \subseteq Tokens /\ pubkey \subseteq Owners /\ published \subseteq Ids

OwnershipInit ==
    /\ reg = [n \in Ids |-> NoReg]
    /\ grant = [n \in Ids |-> NoGrant]
    /\ site = [h \in Hosts |-> NoDoc] /\ net = [h \in Hosts |-> "up"]
    /\ zone = [h \in Hosts |-> {}] /\ resolver = TRUE
    /\ tokens = {} /\ pubkey = {} /\ published = {}

Registered(n) == reg[n].at # NoHost

\* require_node_write: the administrator, or the owner of this node.
MayWrite(c, n) == c = Admin \/ (c = TokenOwner /\ reg[n].owner = c)
\* resolve_owner_identity.
Identity(c, o) == c = Admin \/ (c = TokenOwner /\ o = c)

-----------------------------------------------------------------------------
(* Proofs: each method passes, fails, or is left open                       *)

\* Mutant: any document at the address will do.
HttpProofOfAddress(n) ==
    LET h == reg[n].at IN
    CASE net[h] \in {"down", "erring"} -> {"open"}
      [] net[h] = "up" /\ site[h] # NoDoc /\ site[h].fresh -> {"pass"}
      [] OTHER -> {"fail"}

\* Mutant: only an exception leaves the proof open, an error status fails it.
HttpProofErrorFails(n) ==
    LET h == reg[n].at IN
    CASE net[h] = "down" -> {"open"}
      [] net[h] = "up" /\ site[h] = [node |-> n, fresh |-> TRUE] -> {"pass"}
      [] OTHER -> {"fail"}

\* _proof_http: no answer or an error status leaves it open; no file or none that may be
\* read (404, 401, 403), another node's document and one past its end fail.
HttpProof(n) ==
    LET h == reg[n].at IN
    CASE net[h] \in {"down", "erring"} -> {"open"}
      [] net[h] = "up" /\ site[h] = [node |-> n, fresh |-> TRUE] -> {"pass"}
      [] OTHER -> {"fail"}

\* _lookup_txt: every exception of the resolver reads as no records; an address that is
\* no name has none.
Lookup(h) == IF resolver THEN zone[h] ELSE {}

\* _proof_dns: the first record that names the node decides, in the resolver's order.
DnsProof(n) ==
    LET found == {d \in Lookup(reg[n].at) : d.node = n}
    IN  IF found = {} THEN {"fail"}
        ELSE {IF d.fresh THEN "pass" ELSE "fail" : d \in found}

\* _proof_signed_token: the token names the node and its owner, and the key the gateway
\* has for that owner verifies it.
TokenProof(n, t) ==
    IF t # NoToken /\ t.node = n /\ t.owner = reg[n].owner /\ t.owner \in pubkey
    THEN {"pass"} ELSE {"fail"}

\* verify_proof.
Proof(n, method, t) ==
    CASE method = "http_well_known" -> HttpProof(n)
      [] method = "dns_txt" -> DnsProof(n)
      [] method = "signed_token" -> TokenProof(n, t)

-----------------------------------------------------------------------------
(* The gateway                                                              *)

\* enroll: a challenge for this node, by one method.
Enrolled(method) == [status |-> "challenge_sent", method |-> method]

\* register_node: the caller may act for the owner and the address is free.
RegisterNode(c, n, h, o, method) ==
    /\ Identity(c, o) /\ reg[n] = NoReg
    /\ \A m \in Ids : reg[m].at # h
    /\ reg' = [reg EXCEPT ![n] = [at |-> h, owner |-> o, status |-> "challenge_sent"]]
    /\ grant' = [grant EXCEPT ![n] = Enrolled(method)]
    /\ UNCHANGED <<proofVars, pubkey, published>>

\* set_owner_public_key.
SetKey(o) ==
    /\ pubkey' = pubkey \cup {o}
    /\ UNCHANGED <<reg, grant, proofVars, published>>

\* The check nested in a verification: it has no token to present.
AfterVerification(method) == IF method = "signed_token" THEN "quarantined" ELSE "verified"

\* verify_node, submit_consent, verify_ownership: of a proof left open only the history
\* is told.
Verify(c, n, method, t) ==
    /\ Registered(n) /\ MayWrite(c, n)
    /\ \E outcome \in Proof(n, method, t) :
          \/ /\ outcome = "pass"
             /\ grant' = [grant EXCEPT ![n] = [status |-> "verified", method |-> method]]
             /\ reg' = [reg EXCEPT ![n].status = AfterVerification(method)]
          \/ /\ outcome = "fail"
             /\ grant' = [grant EXCEPT ![n].status = "failed"]
             /\ reg' = [reg EXCEPT ![n].status = "quarantined"]
          \/ outcome = "open" /\ UNCHANGED <<reg, grant>>
    /\ UNCHANGED <<proofVars, pubkey, published>>

\* _consent_status and revalidate, with the method of the consent and no token.
Rechecked(n) ==
    IF grant[n].status # "verified" THEN {"fail"} ELSE Proof(n, grant[n].method, NoToken)

\* The consent part of a check of the loop: a node that is offered goes into quarantine.
Recheck(n) ==
    /\ reg[n].status = "verified"
    /\ \E outcome \in Rechecked(n) :
          reg' = [reg EXCEPT ![n].status = IF outcome = "fail" THEN "quarantined" ELSE @]
    /\ grant' = [grant EXCEPT ![n].status = IF @ = "lapsed" THEN "expired" ELSE @]
    /\ UNCHANGED <<proofVars, pubkey, published>>

\* A forced check may bring a quarantined node back.
ForceRecheck(n) ==
    /\ reg[n].status = "quarantined"
    /\ "pass" \in Rechecked(n)
    /\ reg' = [reg EXCEPT ![n].status = "verified"]
    /\ UNCHANGED <<grant, proofVars, pubkey, published>>

RevokeConsent(c, n) ==
    /\ Registered(n) /\ MayWrite(c, n)
    /\ reg' = [reg EXCEPT ![n].status = "revoked"]
    /\ grant' = [grant EXCEPT ![n].status = "revoked"]
    /\ UNCHANGED <<proofVars, pubkey, published>>

\* delete_node, with its consent.
DeleteNode(c, n) ==
    /\ Registered(n) /\ MayWrite(c, n)
    /\ reg' = [reg EXCEPT ![n] = [NoReg EXCEPT !.status = "deleted"]]
    /\ grant' = [grant EXCEPT ![n] = NoGrant]
    /\ UNCHANGED <<proofVars, pubkey, published>>

-----------------------------------------------------------------------------
(* Owners: foa-owner and what they do by hand                               *)

ProofsOut ==
    Cardinality({h \in Hosts : site[h] # NoDoc}) + Cardinality({hd \in Hosts \X Docs : hd[2] \in zone[hd[1]]})
    + Cardinality(tokens)

RoomFor(n) == site[reg[n].at] # NoDoc \/ ProofsOut < MaxProofs
\* consent-document, or the same built from the challenge the owner was told.
DocumentFor(n) == [node |-> n, fresh |-> TRUE]

\* consent-file, publish: the document goes to the address of the node.
PublishFile(n) ==
    /\ Registered(n) /\ RoomFor(n)
    /\ site' = [site EXCEPT ![reg[n].at] = DocumentFor(n)]
    /\ published' = published \cup {n}
    /\ UNCHANGED <<reg, grant, net, zone, resolver, tokens, pubkey>>

\* serve-consent, publish --serve: the command itself answers at the address.
ServeConsent(n) ==
    /\ Registered(n) /\ RoomFor(n)
    /\ site' = [site EXCEPT ![reg[n].at] = DocumentFor(n)]
    /\ net' = [net EXCEPT ![reg[n].at] = "up"]
    /\ published' = published \cup {n}
    /\ UNCHANGED <<reg, grant, zone, resolver, tokens, pubkey>>

\* When it ends nothing answers there any more.
StopServing(h) ==
    /\ site[h] # NoDoc /\ net[h] = "up"
    /\ site' = [site EXCEPT ![h] = NoDoc] /\ net' = [net EXCEPT ![h] = "down"]
    /\ UNCHANGED <<reg, grant, zone, resolver, tokens, pubkey, published>>

\* dns-record, and publish for a domain.
PublishRecord(n) ==
    /\ Registered(n) /\ ProofsOut < MaxProofs
    /\ zone' = [zone EXCEPT ![reg[n].at] = @ \cup {DocumentFor(n)}]
    /\ published' = published \cup {n}
    /\ UNCHANGED <<reg, grant, site, net, resolver, tokens, pubkey>>

\* token: an owner signs, for whatever node.
SignToken(o, n) ==
    /\ Registered(n) /\ ProofsOut < MaxProofs
    /\ tokens' = tokens \cup {[node |-> n, owner |-> o]}
    /\ published' = IF reg[n].owner = o THEN published \cup {n} ELSE published
    /\ UNCHANGED <<reg, grant, site, net, zone, resolver, pubkey>>

\* A file or record removed.
Withdraw(h) ==
    /\ \/ site' = [site EXCEPT ![h] = NoDoc] /\ UNCHANGED zone
       \/ \E d \in zone[h] : zone' = [zone EXCEPT ![h] = @ \ {d}] /\ UNCHANGED site
    /\ UNCHANGED <<reg, grant, net, resolver, tokens, pubkey, published>>

\* Time: a document, a record, a token or a consent passes its end.
Lapse(n) ==
    /\ \/ /\ site' = [h \in Hosts |-> IF site[h] # NoDoc /\ site[h].node = n
                                      THEN [site[h] EXCEPT !.fresh = FALSE] ELSE site[h]]
          /\ UNCHANGED <<grant, zone, tokens>>
       \/ /\ zone' = [h \in Hosts |-> {IF d.node = n THEN [d EXCEPT !.fresh = FALSE] ELSE d : d \in zone[h]}]
          /\ UNCHANGED <<grant, site, tokens>>
       \/ /\ tokens' = {t \in tokens : t.node # n}
          /\ UNCHANGED <<grant, site, zone>>
       \/ /\ grant[n].status = "verified"
          /\ grant' = [grant EXCEPT ![n].status = "lapsed"]
          /\ UNCHANGED <<site, zone, tokens>>
    /\ UNCHANGED <<reg, net, resolver, pubkey, published>>

Weather(h) ==
    /\ \/ \E x \in Nets : net' = [net EXCEPT ![h] = x] /\ UNCHANGED resolver
       \/ resolver' = ~resolver /\ UNCHANGED net
    /\ UNCHANGED <<reg, grant, site, zone, tokens, pubkey, published>>

\* foa-owner sends the owner's token or, without one, the administrator's.
Callers == {Admin, TokenOwner}

OwnershipNext ==
    \/ \E c \in Callers, n \in Ids :
          \/ \E h \in Hosts, o \in Owners, method \in Methods : RegisterNode(c, n, h, o, method)
          \/ \E method \in Methods, t \in tokens \cup {NoToken} : Verify(c, n, method, t)
          \/ RevokeConsent(c, n) \/ DeleteNode(c, n)
    \/ \E n \in Ids : Recheck(n) \/ ForceRecheck(n) \/ PublishFile(n) \/ ServeConsent(n)
                       \/ PublishRecord(n) \/ Lapse(n)
    \/ \E o \in Owners : SetKey(o) \/ \E n \in Ids : SignToken(o, n)
    \/ \E h \in Hosts : StopServing(h) \/ Withdraw(h) \/ Weather(h)

OwnershipSpec == OwnershipInit /\ [][OwnershipNext]_ownershipVars

-----------------------------------------------------------------------------
(* Properties                                                               *)

\* A consent is verified only after a proof of this very registration was put out: not
\* by a document an earlier owner of the address has left there, nor by another node's
\* token, whatever method the caller names (verify_proof).
ProvenByOwner == \A n \in Ids : grant[n].status \in {"verified", "lapsed"} => n \in published

Readable(n, method) ==
    CASE method = "http_well_known" -> net[reg[n].at] \notin {"down", "erring"}
      [] method = "dns_txt" -> resolver
      [] OTHER -> TRUE
BrokenByRecheck(n) ==
    /\ reg[n].status = "verified" /\ reg'[n].status = "quarantined"
    /\ grant[n].status = "verified" /\ grant'[n] = grant[n]

\* The silence of an address is not a withdrawal: a re-check quarantines a node whose
\* consent is by file only on an answer (inconclusive, _consent_status).
FileOutageKeepsNode ==
    [][\A n \in Ids : BrokenByRecheck(n) /\ grant[n].method = "http_well_known" =>
          Readable(n, "http_well_known")]_ownershipVars

\* The same of every method: a re-check while the proof cannot be read breaks nothing.
\* For DNS it does: see the README.
OutageKeepsConsent ==
    [][\A n \in Ids : BrokenByRecheck(n) => Readable(n, grant[n].method)]_ownershipVars

=============================================================================

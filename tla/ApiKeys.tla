------------------------------ MODULE ApiKeys ------------------------------
(***************************************************************************)
(* The keys users come with: issued, rotated and revoked by an             *)
(* administrator, refused once they are revoked or have expired.  A        *)
(* rotation issues a successor and gives the old key a grace period.       *)
(* Hashes, labels and limits are left out; a scope is a name.              *)
(***************************************************************************)
EXTENDS Naturals

CONSTANTS
    KeyIds,          \* ids the generator can give out
    UserScopes,      \* what a key may be allowed
    AdminScopes,     \* what only the tokens of the configuration are allowed
    Asked,           \* lists of scopes an administrator may send, unknown names included
    DefaultScopes,   \* auth.default_scopes
    Ttls,            \* ttl_seconds of a request; 0: none
    Grace,           \* auth.key_rotation_grace_seconds
    KeyHorizon,      \* bound on the clock
    NoKey            \* no predecessor

ASSUME KeysAssumption ==
    /\ NoKey \notin KeyIds
    /\ UserScopes \cap AdminScopes = {}
    /\ DefaultScopes \subseteq UserScopes /\ DefaultScopes # {}
    /\ Ttls \subseteq Nat /\ Grace \in Nat /\ KeyHorizon \in Nat

VARIABLES
    clock,
    key      \* per id: its row

keysVars == <<clock, key>>

Never == 0     \* expires_at is null
Rows == [issued : BOOLEAN, scopes : SUBSET UserScopes, ends : Nat, revoked : BOOLEAN,
         from : KeyIds \cup {NoKey}]
NoKeyRow == [issued |-> FALSE, scopes |-> {}, ends |-> Never, revoked |-> FALSE, from |-> NoKey]

\* Every row is a row, and the clock has started.
KeysTypeOK == clock \in Nat \ {0} /\ key \in [KeyIds -> Rows]

KeysInit == clock = 1 /\ key = [k \in KeyIds |-> NoKeyRow]

\* Mutant: the names are not looked up in the enumeration of scopes.
ChosenUnfiltered(asked) == IF asked = {} THEN DefaultScopes ELSE asked \ AdminScopes

\* issue_key: unknown names are dropped; of an empty list the defaults are left.
Chosen(asked) ==
    LET known == (IF asked = {} THEN DefaultScopes ELSE asked) \cap (UserScopes \cup AdminScopes)
    IN  IF known = {} THEN DefaultScopes ELSE known

NewRow(asked, ttl, from) ==
    [issued |-> TRUE, scopes |-> Chosen(asked), ends |-> IF ttl = 0 THEN Never ELSE clock + ttl,
     revoked |-> FALSE, from |-> from]

\* POST /admin/keys.  A list that names an administrator's scope is refused.
Issue(k, asked, ttl) ==
    /\ ~key[k].issued
    /\ Chosen(asked) \cap AdminScopes = {}
    /\ key' = [key EXCEPT ![k] = NewRow(asked, ttl, NoKey)]
    /\ UNCHANGED clock

\* Mutant: a key that would end anyway is left to its own end.
RotateKeepingEnd(k, new) ==
    /\ key[k].issued /\ ~key[new].issued
    /\ key' = [key EXCEPT ![new] = NewRow(key[k].scopes, 0, k),
                          ![k].ends = IF @ = Never THEN clock + Grace ELSE @]
    /\ UNCHANGED clock

\* Mutant: the rotation starts the old key afresh.
RotateReviving(k, new) ==
    /\ key[k].issued /\ ~key[new].issued
    /\ key' = [key EXCEPT ![new] = NewRow(key[k].scopes, 0, k),
                          ![k].ends = clock + Grace, ![k].revoked = FALSE]
    /\ UNCHANGED clock

\* Mutant: the successor is issued like a new key, with the default rights.
RotateToDefaults(k, new) ==
    /\ key[k].issued /\ ~key[new].issued
    /\ key' = [key EXCEPT ![new] = NewRow({}, 0, k), ![k].ends = clock + Grace]
    /\ UNCHANGED clock

\* rotate_key: whatever the state of the old key, revoked and expired included, its
\* successor is issued without an end and the old one gets the grace period.
Rotate(k, new) ==
    /\ key[k].issued /\ ~key[new].issued
    /\ key' = [key EXCEPT ![new] = NewRow(key[k].scopes, 0, k), ![k].ends = clock + Grace]
    /\ UNCHANGED clock

\* revoke_key: an UPDATE of the row, if there is one.
Revoke(k) ==
    /\ key' = [key EXCEPT ![k].revoked = @ \/ key[k].issued]
    /\ UNCHANGED clock

\* authenticate, for a token that is none of the configuration's.
Accepts(k) ==
    /\ key[k].issued /\ ~key[k].revoked
    /\ key[k].ends = Never \/ clock < key[k].ends

KeyTick == clock < KeyHorizon /\ clock' = clock + 1 /\ UNCHANGED key

KeysNext ==
    \/ \E k \in KeyIds :
          \/ \E asked \in Asked, ttl \in Ttls : Issue(k, asked, ttl)
          \/ \E new \in KeyIds : Rotate(k, new)
          \/ Revoke(k)
    \/ KeyTick

KeysSpec == KeysInit /\ [][KeysNext]_keysVars

-----------------------------------------------------------------------------
(* Properties                                                               *)

Rotated(k) == \E s \in KeyIds : key[s].issued /\ key[s].from = k

\* A key that has been rotated does end: no later than the grace period from now,
\* however long it had been issued for (rotate_key, key_rotation_grace_seconds).
RotatedKeyEnds == \A k \in KeyIds : Rotated(k) => key[k].ends # Never /\ key[k].ends <= clock + Grace

\* A chain of rotations carries exactly the rights its first key was issued with, and
\* an administrator's scope never gets into it (issue_key, rotate_key).
RightsAsGranted ==
    \A k \in KeyIds : key[k].issued =>
        /\ key[k].scopes # {} /\ key[k].scopes \cap AdminScopes = {}
        /\ key[k].from # NoKey => key[key[k].from].issued /\ key[k].scopes = key[key[k].from].scopes

\* A key that authenticate refuses is accepted again only if it had expired and an
\* administrator has rotated it: never by the clock, a revocation undone or another
\* key's rotation.
Revived(k) == key[k].issued /\ ~Accepts(k) /\ Accepts(k)'
RefusalStands ==
    [][\A k \in KeyIds : Revived(k) =>
          ~key[k].revoked /\ \E s \in KeyIds : ~key[s].issued /\ key'[s].issued /\ key'[s].from = k]_keysVars

=============================================================================

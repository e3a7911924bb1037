--------------------------- MODULE MemberRegistry ---------------------------
(***************************************************************************)
(* The members rows: POST /members stores a device's public keys under     *)
(* whichever user asks first, a Root-signed registration in the log chains *)
(* the row, and the listing shows a user the rows of its own.  The handler *)
(* awaits between its lookup and its insert, so registrations of one id    *)
(* race; a malformed or misderived key is refused before either.           *)
(***************************************************************************)
EXTENDS Naturals, FiniteSets

CONSTANTS Registrar,  \* POST /members handlers in flight
          MemberId,   \* ids devices draw
          Account,    \* the users
          SignKey,    \* Ed25519 public keys
          KexKey,     \* X25519 public keys
          NoKey       \* a field left out of the body, and NULL

ASSUME RegistryAssumption == NoKey \notin SignKey \cup KexKey

VARIABLES members,    \* members: the rows, by member_id
          registrar,  \* the handlers
          registered  \* history: the requests answered 200 or 201

registryVars == <<members, registrar, registered>>

NotAsking == [at |-> "rest"]
MemberKind == {"device", "service"}

\* A key id is the hash of its key; the server never stores a client's claim.
DeriveKeyId(key) == <<"key_id", key>>

Request == [member_id : MemberId, user : Account, sign_pk : SignKey,
            kex_pk : KexKey \cup {NoKey}]

\* A second registration is the same device: its user, its keys, or no KEX key
\* named at all.
IsReregistration(row, q) ==
  /\ row.user = q.user /\ row.sign_pk = q.sign_pk
  /\ q.kex_pk \in {NoKey, row.kex_pk}

\* claim is the key whose id the body claims, if it claims one.
RegisterMember(r, q, claim) ==
  /\ registrar[r].at = "rest"
  /\ claim # NoKey => DeriveKeyId(claim) = DeriveKeyId(q.sign_pk)
  /\ IF q.member_id \in DOMAIN members
     THEN /\ registered' = IF IsReregistration(members[q.member_id], q)
                           THEN registered \cup {q} ELSE registered
          /\ UNCHANGED registrar
     ELSE /\ registrar' = [registrar EXCEPT ![r] = [at |-> "insert", request |-> q]]
          /\ UNCHANGED registered
  /\ UNCHANGED members

NewRow(q) == [user |-> q.user, sign_pk |-> q.sign_pk,
              key_id |-> DeriveKeyId(q.sign_pk), kex_pk |-> q.kex_pk,
              chained |-> FALSE, member_kind |-> NoKey]
WithRow(id, row) ==
  [m \in DOMAIN members \cup {id} |-> IF m = id THEN row ELSE members[m]]

\* mutant: db.merge, which updates a row that is there
MergeMember(r) ==
  LET q == registrar[r].request
  IN /\ registrar[r].at = "insert"
     /\ members' = WithRow(q.member_id, NewRow(q))
     /\ registered' = registered \cup {q}
     /\ registrar' = [registrar EXCEPT ![r] = NotAsking]

\* The commit.  An id another call inserted meanwhile is caught nowhere: 500.
InsertMember(r) ==
  LET q == registrar[r].request
  IN /\ registrar[r].at = "insert"
     /\ IF q.member_id \in DOMAIN members THEN UNCHANGED <<members, registered>>
        ELSE /\ members' = WithRow(q.member_id, NewRow(q))
             /\ registered' = registered \cup {q}
     /\ registrar' = [registrar EXCEPT ![r] = NotAsking]

\* _materialise_control of a genesis or a registration that names the row.
ChainMember(m, kind) ==
  /\ m \in DOMAIN members
  /\ members' = [members EXCEPT ![m].chained = TRUE, ![m].member_kind = kind]
  /\ UNCHANGED <<registrar, registered>>

\* What a device is shown: a row's keys, and the rows of its own user.
MemberOut(m) == [sign_pk |-> members[m].sign_pk, key_id |-> members[m].key_id,
                 kex_pk |-> members[m].kex_pk, chained |-> members[m].chained]
ListWorkspaceMembers(user) == {m \in DOMAIN members : members[m].user = user}

RegistryInit == /\ members = [m \in {} |-> NoKey]
                /\ registrar = [r \in Registrar |-> NotAsking]
                /\ registered = {}

RegistryNext ==
  \/ \E r \in Registrar :
       \/ \E q \in Request, claim \in SignKey \cup {NoKey} : RegisterMember(r, q, claim)
       \/ InsertMember(r)
  \/ \E m \in MemberId, kind \in MemberKind : ChainMember(m, kind)

RegistrySpec == RegistryInit /\ [][RegistryNext]_registryVars

-----------------------------------------------------------------------------
(* Properties.                                                             *)

MemberRow ==
  [user : Account, sign_pk : SignKey, key_id : {DeriveKeyId(k) : k \in SignKey},
   kex_pk : KexKey \cup {NoKey}, chained : BOOLEAN,
   member_kind : MemberKind \cup {NoKey}]

\* The type invariant.
RegistryTypeOK ==
  /\ DOMAIN members \subseteq MemberId
  /\ \A m \in DOMAIN members :
       /\ members[m] \in MemberRow
       /\ members[m].key_id = DeriveKeyId(members[m].sign_pk)
  /\ registrar \in [Registrar -> {NotAsking} \cup [at : {"insert"}, request : Request]]
  /\ registered \subseteq Request

\* Whoever was told that its device is registered finds it in its own listing
\* with the keys it sent, for good: registrations of one id that race leave
\* one of them standing, and no other was ever answered with success.
RegistrationsStand ==
  \A q \in registered :
    /\ q.member_id \in ListWorkspaceMembers(q.user)
    /\ LET out == MemberOut(q.member_id)
       IN /\ out.sign_pk = q.sign_pk /\ out.key_id = DeriveKeyId(q.sign_pk)
          /\ q.kex_pk \in {NoKey, out.kex_pk}
=============================================================================

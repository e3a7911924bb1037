--------------------------- MODULE ControlPayload ---------------------------
(***************************************************************************)
(* Control operations: the five payload types, the certificates they carry *)
(* and the shape rules checked while decoding.  JSON typing and byte       *)
(* lengths are abstracted away; what remains is what a well-typed payload  *)
(* can still get wrong.  A certificate names the domain it was signed      *)
(* under and the key that signed it, so a signature verifies exactly when  *)
(* both are the ones asked for.                                            *)
(***************************************************************************)
EXTENDS Envelope

CONSTANT MaxKeyEpoch    \* MAX_KEY_EPOCH, the header's u32

ASSUME MaxKeyEpochAssumption == MaxKeyEpoch \in Nat

GRANTER_ROOT == "root"
ROLE_OWNER == "owner"
KNOWN_ROLES == {ROLE_OWNER, "participant", "compactor", "suggester"}
MEMBER_KIND_DEVICE == "device"

SERVED_CONTROL_TYPES ==
  {"member_register", "workspace_genesis", "grant", "revoke", "rotate"}

\* Registration and genesis have no authority field: Root signs them always.
ROOT_ONLY_CONTROL_TYPES == {"member_register", "workspace_genesis"}

ROLE_OP_CLASS_MATRIX ==
  [class \in 1 .. 5 |->
     CASE class = OP_CLASS_CONTENT    -> {ROLE_OWNER, "participant"}
       [] class = OP_CLASS_CONTROL    -> {ROLE_OWNER}
       [] class = OP_CLASS_SUGGESTION -> KNOWN_ROLES
       [] OTHER                       -> {ROLE_OWNER, "compactor"}]

\* Control ops are the authority record and a prune attests a removal: neither
\* is ever folded away.
COMPACTION_EXEMPT_OP_CLASSES == {OP_CLASS_CONTROL, OP_CLASS_PRUNE}
IsCompactionExempt(class) == class \in COMPACTION_EXEMPT_OP_CLASSES

IsRootSigned(payload) ==
  payload.control_type \in ROOT_ONLY_CONTROL_TYPES
    \/ payload.authority = GRANTER_ROOT

\* A key id is a hash of the key.
KeyId(key) == <<"key_id", key>>

MALFORMED == "malformed_control_payload"

-----------------------------------------------------------------------------
(* What each certificate's decoder refuses.                                *)

MemberKeysFault(keys) == FirstFault(<<
  <<keys.sign_key_id # KeyId(keys.sign_pk), MALFORMED>>,
  <<keys.kex_key_id # KeyId(keys.kex_pk), MALFORMED>> >>)

RegistrationFault(cert) == MemberKeysFault(cert.keys)

\* A genesis embeds its founder's keys; as_registration reads them back out.
GenesisFault(cert) == MemberKeysFault(cert.keys)
AsRegistration(cert) == [member_id |-> cert.keys.member_id,
                         member_kind |-> cert.keys.member_kind]

GrantFault(cert) == FirstFault(<<
  <<cert.role \notin KNOWN_ROLES, "unknown_role">>,
  <<cert.role = ROLE_OWNER /\ cert.granter # GRANTER_ROOT,
    "owner_grant_requires_root">> >>)

\* A revoke names one grant and an authority: nothing a well-typed one gets wrong.
RevokeCertificate(workspace, gid, revoker) ==
  [workspace_id |-> workspace, grant_id |-> gid, revoker |-> revoker]

\* A rotation is one step.
RotateFault(rotate) == FirstFault(<<
  <<\/ rotate.from_epoch \notin 0 .. MaxKeyEpoch
    \/ rotate.to_epoch \notin 0 .. MaxKeyEpoch, MALFORMED>>,
  <<rotate.to_epoch # rotate.from_epoch + 1, MALFORMED>> >>)

\* An all-zero prev_control_hash belongs to a genesis and to nothing else.
ChainLinkFault(payload) == FirstFault(<<
  <<payload.prev_is_zero # (payload.control_type = "workspace_genesis"),
    "control_chain_break">> >>)

\* One class for every type: what the two mandatory fields and the authority
\* say.  A rotate carries its statement where the others carry a certificate.
CertifiedPayload(type, authority, cert) ==
  [control_type |-> type, prev_is_zero |-> type = "workspace_genesis",
   authority |-> authority, cert |-> cert]
RotatePayload(statement) ==
  [control_type |-> "rotate", prev_is_zero |-> FALSE, authority |-> "",
   rotate |-> statement]

\* decode, then require_served_type, then require_chain_link_shape.  Only a
\* rotate's own fields are decoded here: certificates are opaque until the
\* handler of their type decodes them.
PayloadFault(payload) ==
  LET served == payload.control_type \in SERVED_CONTROL_TYPES
      rotate == IF payload.control_type = "rotate"
                THEN RotateFault(payload.rotate) ELSE Ok
  IN FirstFault(<<
       <<~served, "unsupported_control_type">>,
       <<rotate # Ok, rotate>>,
       <<ChainLinkFault(payload) # Ok, ChainLinkFault(payload)>> >>)

-----------------------------------------------------------------------------
(* Signatures: one domain per certificate type, so that a signature made   *)
(* for one purpose verifies for no other.                                  *)

MEMBER_REGISTER_V1 == "jeeves/member-register/v1"
WORKSPACE_GENESIS_V1 == "jeeves/workspace-genesis/v1"
GRANT_V1 == "jeeves/grant/v1"
REVOKE_V1 == "jeeves/revoke/v1"

Signed(cert, domain, key) ==
  [f \in DOMAIN cert \cup {"domain", "signer"} |->
     CASE f = "domain" -> domain [] f = "signer" -> key [] OTHER -> cert[f]]
Verifies(cert, domain, key) == cert.domain = domain /\ cert.signer = key

SignRegistrationCertificate(cert, rootKey) == Signed(cert, MEMBER_REGISTER_V1, rootKey)
SignGenesisCertificate(cert, rootKey) == Signed(cert, WORKSPACE_GENESIS_V1, rootKey)
SignGrantCertificate(cert, key) == Signed(cert, GRANT_V1, key)
SignRevokeCertificate(cert, key) == Signed(cert, REVOKE_V1, key)

VerifyRegistrationCertificate(cert, rootPk) == Verifies(cert, MEMBER_REGISTER_V1, rootPk)
VerifyGenesisCertificate(cert, rootPk) == Verifies(cert, WORKSPACE_GENESIS_V1, rootPk)
VerifyGrantCertificate(cert, granterPk) == Verifies(cert, GRANT_V1, granterPk)
VerifyRevokeCertificate(cert, revokerPk) == Verifies(cert, REVOKE_V1, revokerPk)
=============================================================================

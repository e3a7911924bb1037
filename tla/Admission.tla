----------------------------- MODULE Admission ------------------------------
(***************************************************************************)
(* The door of POST /w/{workspace}/ops: _verify_and_authorize walks the    *)
(* batch in arrival order against the committed tables and either refuses  *)
(* the whole batch with the code of the first failing check or admits all  *)
(* of it.  The tables are the fields of a record db:                       *)
(*   log      the ops rows, by transport seq                               *)
(*   stamp    compacted_by of each row, Null where it is NULL              *)
(*   genesis  workspaces.genesis_seq, Null while there is no row           *)
(*   grants   the grants rows, by grant_id                                 *)
(*   epochs   workspace_epochs.rotate_seq, by epoch                        *)
(*   chained  members.member_kind where chained_at is set, else NotChained *)
(* One user and one workspace; a Member's signing key is the Member.       *)
(***************************************************************************)
EXTENDS ControlPayload, PrunePayload, FiniteSetsExt

CONSTANTS MaxOpsPerBatch, \* MAX_OPS_PER_BATCH
          Workspace,     \* the workspace of the route
          Member,        \* the members rows of the user
          RootPk,        \* recovery_escrows.root_pk of the slot
          IsPreferences  \* whether it is the user's preferences workspace

ASSUME IsPreferencesAssumption == IsPreferences \in BOOLEAN

Null == 0
NotChained == "not_chained"
NoEpoch == -1

-----------------------------------------------------------------------------
(* _GrantIndex: the in-memory view the walk carries forward.               *)

GrantIndex(db) ==
  [g \in DOMAIN db.grants |->
     [member_id |-> db.grants[g].member_id, role |-> db.grants[g].role,
      revoked |-> db.grants[g].revoked_by_seq # Null]]

\* mutant: a revoked grant's role counts
HeldRoles(index, m) ==
  {index[g].role : g \in {h \in DOMAIN index : index[h].member_id = m}}

LiveRoles(index, m) ==
  {index[g].role : g \in {h \in DOMAIN index :
                            index[h].member_id = m /\ ~index[h].revoked}}

HasAnyGrant(index, m) == \E g \in DOMAIN index : index[g].member_id = m

\* The answer the two read paths share: every grant it ever held was revoked.
IsRevoked(index, m) == HasAnyGrant(index, m) /\ LiveRoles(index, m) = {}

AddGrant(index, cert) ==
  [g \in DOMAIN index \cup {cert.grant_id} |->
     IF g = cert.grant_id
     THEN [member_id |-> cert.member_id, role |-> cert.role, revoked |-> FALSE]
     ELSE index[g]]

RevokeGrant(index, gid) ==
  [g \in DOMAIN index |->
     IF g = gid THEN [index[g] EXCEPT !.revoked = TRUE] ELSE index[g]]

-----------------------------------------------------------------------------
(* The per-op rules.                                                       *)

CurrentKeyEpoch(db) == IF DOMAIN db.epochs = {} THEN NoEpoch ELSE Max(DOMAIN db.epochs)

\* One epoch of slack below, none above; an unkeyed workspace refuses nothing.
RequireFreshKeyEpoch(op, current) == FirstFault(<<
  <<current # NoEpoch /\ op.key_epoch < current - 1, "key_epoch_stale">>,
  <<current # NoEpoch /\ op.key_epoch > current, "key_epoch_unknown">> >>)

RequireRole(index, m, class) ==
  LET roles == LiveRoles(index, m)
  IN FirstFault(<<
       <<roles = {}, "no_live_grant">>,
       <<roles \cap ROLE_OP_CLASS_MATRIX[class] = {}, "role_forbids_op_class">> >>)

VerifyRotate(rotate, current) == FirstFault(<<
  <<rotate.workspace_id # Workspace, "cert_workspace_mismatch">>,
  <<rotate.from_epoch # (IF current = NoEpoch THEN 0 ELSE current),
    "rotate_epoch_conflict">> >>)

\* Root, or the author itself: authority does not travel by courier.
AuthorityPublicKey(authority, op) ==
  IF authority = GRANTER_ROOT THEN RootPk ELSE op.author_member_id
AuthorityIsAuthor(authority, op) ==
  authority = GRANTER_ROOT \/ authority = op.author_member_id

IsReplay(db, op) ==
  \E seq \in DOMAIN db.log : /\ db.log[seq].op_id = op.op_id
                             /\ db.log[seq].author_member_id = op.author_member_id

\* What the walk carries: the refusal, and its forward view of the tables.
\* kinds, compactions and claimed stage what this batch alone has asserted.
WalkStart(db) ==
  [fault |-> Ok, exists |-> db.genesis # Null, index |-> GrantIndex(db),
   epoch |-> CurrentKeyEpoch(db), kinds |-> [m \in {} |-> NotChained],
   compactions |-> {}, claimed |-> {}]

-----------------------------------------------------------------------------
(* Control ops.                                                            *)

VerifyGenesis(walk, op, i) ==
  LET cert == op.payload.cert
  IN FirstFault(<<
       <<i # 1 \/ walk.exists, "genesis_not_first">>,
       <<op.author_seq # 1, "member_register_not_first">>,
       <<~VerifyGenesisCertificate(cert, RootPk), "bad_root_signature">>,
       <<GenesisFault(cert) # Ok, MALFORMED>>,
       <<cert.workspace_id # Workspace, "cert_workspace_mismatch">>,
       <<cert.root_pk # RootPk, "cert_root_pk_mismatch">>,
       <<cert.keys.member_id # op.author_member_id, "cert_member_mismatch">>,
       <<cert.keys.sign_pk # op.author_member_id, "cert_key_mismatch">> >>)

VerifyMemberRegister(op) ==
  LET cert == op.payload.cert
  IN FirstFault(<<
       <<op.author_seq # 1, "member_register_not_first">>,
       <<~VerifyRegistrationCertificate(cert, RootPk), "bad_root_signature">>,
       <<RegistrationFault(cert) # Ok, MALFORMED>>,
       <<cert.workspace_id # Workspace, "cert_workspace_mismatch">>,
       <<cert.keys.member_id # op.author_member_id, "cert_member_mismatch">>,
       <<cert.keys.sign_pk # op.author_member_id, "cert_key_mismatch">> >>)

\* The kind a grantee is certified under, by this batch or by the log.
GranteeKind(db, walk, m) ==
  IF m \in DOMAIN walk.kinds THEN walk.kinds[m]
  ELSE IF m \in Member THEN db.chained[m] ELSE NotChained

VerifyGrant(db, walk, op) ==
  LET payload == op.payload
      cert == payload.cert
      kind == GranteeKind(db, walk, cert.member_id)
  IN FirstFault(<<
       <<GrantFault(cert) # Ok, GrantFault(cert)>>,
       <<cert.workspace_id # Workspace, "cert_workspace_mismatch">>,
       <<cert.granter # payload.authority, "cert_granter_mismatch">>,
       <<~AuthorityIsAuthor(payload.authority, op), "cert_granter_mismatch">>,
       <<~VerifyGrantCertificate(cert, AuthorityPublicKey(payload.authority, op)),
         "bad_grant_signature">>,
       <<cert.role = ROLE_OWNER /\ payload.authority # GRANTER_ROOT,
         "owner_grant_requires_root">>,
       <<cert.member_id \notin Member \/ kind = NotChained, "unknown_grantee">>,
       <<IsPreferences /\ kind # MEMBER_KIND_DEVICE, "service_grant_forbidden">>,
       <<~IsReplay(db, op) /\ cert.grant_id \in DOMAIN walk.index,
         "grant_id_already_used">> >>)

\* Revocation names one grant; a revoke of an already revoked grant is refused
\* unless it is the op that did the revoking, posted again.
VerifyRevoke(db, walk, op) ==
  LET payload == op.payload
      cert == payload.cert
      known == cert.grant_id \in DOMAIN walk.index
  IN FirstFault(<<
       <<cert.workspace_id # Workspace, "cert_workspace_mismatch">>,
       <<cert.revoker # payload.authority, "cert_granter_mismatch">>,
       <<~AuthorityIsAuthor(payload.authority, op), "cert_granter_mismatch">>,
       <<~VerifyRevokeCertificate(cert, AuthorityPublicKey(payload.authority, op)),
         "bad_revoke_signature">>,
       <<~known, "unknown_grant">>,
       <<known /\ walk.index[cert.grant_id].revoked /\ ~IsReplay(db, op),
         "already_revoked">>,
       <</\ known /\ walk.index[cert.grant_id].role = ROLE_OWNER
         /\ payload.authority # GRANTER_ROOT, "owner_revoke_requires_root">> >>)

TypeFault(db, walk, op, i) ==
  CASE op.payload.control_type = "workspace_genesis" -> VerifyGenesis(walk, op, i)
    [] op.payload.control_type = "member_register"   -> VerifyMemberRegister(op)
    [] op.payload.control_type = "grant"             -> VerifyGrant(db, walk, op)
    [] op.payload.control_type = "revoke"            -> VerifyRevoke(db, walk, op)
    [] op.payload.control_type = "rotate"            ->
         VerifyRotate(op.payload.rotate, walk.epoch)

\* What an admitted control op changes in the walk's view.
Staged(walk, payload) ==
  CASE payload.control_type \in {"workspace_genesis", "member_register"} ->
         LET registration == AsRegistration(payload.cert)
         IN [walk EXCEPT !.exists = TRUE,
               !.kinds = [m \in DOMAIN @ \cup {registration.member_id} |->
                            IF m = registration.member_id
                            THEN registration.member_kind ELSE @[m]]]
    [] payload.control_type = "grant"  ->
         [walk EXCEPT !.index = AddGrant(@, payload.cert)]
    [] payload.control_type = "revoke" ->
         [walk EXCEPT !.index = RevokeGrant(@, payload.cert.grant_id)]
    [] payload.control_type = "rotate" ->
         [walk EXCEPT !.epoch = payload.rotate.to_epoch]

\* A body the framing cannot delimit never reaches control parsing.
DecodeControlPayload(op) ==
  IF ParseBody(op.body) = Ok THEN PayloadFault(op.payload) ELSE ParseBody(op.body)

\* A root-signed payload lands whatever its author was granted: that is how an
\* ungranted device registers at all.
ControlStep(db, walk, op, i) ==
  LET payload == op.payload
      shape == DecodeControlPayload(op)
      founding == payload.control_type = "workspace_genesis"
      role == IF founding \/ IsRootSigned(payload) THEN Ok
              ELSE RequireRole(walk.index, op.author_member_id, OP_CLASS_CONTROL)
      early == FirstFault(<<
        <<shape # Ok, shape>>,
        <<~founding /\ ~walk.exists, "workspace_not_created">>,
        <<role # Ok, role>> >>)
      fault == IF early # Ok THEN early ELSE TypeFault(db, walk, op, i)
  IN IF fault # Ok THEN [walk EXCEPT !.fault = fault] ELSE Staged(walk, payload)

-----------------------------------------------------------------------------
(* Prunes, and the content classes the server never opens.                 *)

PruneTargetRefusal(db, walk, op, target) ==
  IF target.seq \notin DOMAIN db.log THEN "prune_target_not_found"
  ELSE LET row == db.log[target.seq]
       IN FirstFault(<<
            <<row.op_class = OP_CLASS_CONTROL, "prune_target_is_control">>,
            <<IsCompactionExempt(row.op_class), "prune_target_is_prune">>,
            <<\/ row.author_member_id # target.author_member_id
              \/ row.author_seq # target.author_seq
              \/ row.op_id # target.envelope_hash,
              "prune_target_attestation_mismatch">>,
            <<~IsReplay(db, op) /\ (db.stamp[target.seq] # Null
                                      \/ target.seq \in walk.claimed),
              "prune_target_already_compacted">>,
            <<row.op_id = op.payload.compaction_op_id,
              "prune_target_is_its_own_compaction">> >>)

\* The compaction is staged earlier in this batch or stored under this author.
CompactionKnown(db, walk, op) ==
  \/ op.payload.compaction_op_id \in walk.compactions
  \/ \E seq \in DOMAIN db.log :
       /\ db.log[seq].op_id = op.payload.compaction_op_id
       /\ db.log[seq].author_member_id = op.author_member_id
       /\ db.log[seq].op_class = OP_CLASS_COMPACTION

VerifyPrune(db, walk, op) ==
  LET payload == op.payload
      parse == ParseBody(op.body)
      shape == IF parse = Ok THEN PruneDecodeFault(payload) ELSE parse
      refusal(i) == PruneTargetRefusal(db, walk, op, payload.targets[i])
  IN FirstFault(
       << <<shape # Ok, shape>>,
          <<~CompactionKnown(db, walk, op), "prune_compaction_not_found">> >>
       \o [i \in DOMAIN payload.targets |-> <<refusal(i) # Ok, refusal(i)>>])

ContentStep(db, walk, op) ==
  LET role == RequireRole(walk.index, op.author_member_id, op.op_class)
      epoch == RequireFreshKeyEpoch(op, walk.epoch)
      prune == IF op.op_class = OP_CLASS_PRUNE THEN VerifyPrune(db, walk, op) ELSE Ok
      fault == FirstFault(<<
        <<~walk.exists, "workspace_not_created">>,
        <<role # Ok, role>>, <<epoch # Ok, epoch>>, <<prune # Ok, prune>> >>)
  IN [walk EXCEPT
        !.fault = fault,
        !.compactions = IF op.op_class = OP_CLASS_COMPACTION
                        THEN @ \cup {op.op_id} ELSE @,
        !.claimed = IF op.op_class = OP_CLASS_PRUNE
                    THEN @ \cup {t.seq : t \in Targets(op.payload)} ELSE @]

-----------------------------------------------------------------------------
(* The whole POST: headers first, then the ordered walk.                   *)

WalkStep(db, walk, op, i) ==
  IF walk.fault # Ok THEN walk
  ELSE IF op.op_class = OP_CLASS_CONTROL THEN ControlStep(db, walk, op, i)
  ELSE ContentStep(db, walk, op)

\* The walk after each op of the batch.
Walk(db, batch) ==
  LET walk[i \in 0 .. Len(batch)] ==
        IF i = 0 THEN WalkStart(db) ELSE WalkStep(db, walk[i - 1], batch[i], i)
  IN walk

VerifyAndAuthorize(db, batch) == Walk(db, batch)[Len(batch)].fault

\* What the door answers to a batch posted with the token of a member.
Verdict(db, token, batch) ==
  LET header(i) == HeaderFault(batch[i], Workspace, token)
      first == FirstFault([i \in DOMAIN batch |-> <<header(i) # Ok, header(i)>>])
  IN IF Len(batch) > MaxOpsPerBatch THEN "batch_too_large"
     ELSE IF first # Ok THEN first ELSE VerifyAndAuthorize(db, batch)

-----------------------------------------------------------------------------
(* What the walk's view of the grants stands for, said of the tables and   *)
(* of the batch.                                                           *)

Asserting(op, type, g) == /\ op.op_class = OP_CLASS_CONTROL
                          /\ op.payload.control_type = type
                          /\ op.payload.cert.grant_id = g

RevokedGrants(db) == {g \in DOMAIN db.grants : db.grants[g].revoked_by_seq # Null}

\* After n ops a grant is revoked: by the tables or by one of the ops, and
\* asserted by none since.
Barred(gone, batch, n, g) ==
  \E k \in 0 .. n :
    /\ IF k = 0 THEN g \in gone ELSE Asserting(batch[k], "revoke", g)
    /\ \A j \in k + 1 .. n : ~Asserting(batch[j], "grant", g)
=============================================================================

--------------------------- MODULE AdmissionProofs ---------------------------
(***************************************************************************)
(* What a batch the door admits is known to be, for any tables and any     *)
(* batch.                                                                  *)
(***************************************************************************)
EXTENDS Admission, WellFoundedInduction, TLAPS

-----------------------------------------------------------------------------
(* Induction, without an operator to induct on: a set of naturals has a    *)
(* least element.                                                          *)

LEMMA LeastNat ==
  ASSUME NEW S \in SUBSET Nat, S # {}
  PROVE  \E n \in S : \A m \in S : n <= m
<1> DEFINE R == {ss \in Nat \X Nat : ss[1] < ss[2]}
<1>1. IsWellFoundedOn(R, Nat)
  BY NatLessThanWellFounded DEF OpToRel
<1>2. PICK n \in S : \A m \in S : <<m, n>> \notin R
  <2> HIDE DEF R
  <2> QED BY <1>1, WFMin
<1>3. \A m \in S : <<m, n>> \in R <=> m < n
  OBVIOUS
<1> HIDE DEF R
<1>4. \A m \in S : ~(m < n) /\ m \in Nat /\ n \in Nat
  BY <1>2, <1>3
<1> QED BY <1>4

\* A set that holds 0 and with any i below n also i + 1 holds all of 0 .. n.
LEMMA UpTo ==
  ASSUME NEW n \in Nat, NEW S, 0 \in S,
         \A i \in 0 .. n - 1 : i \in S => i + 1 \in S
  PROVE  \A i \in 0 .. n : i \in S
<1> DEFINE Out == {i \in 0 .. n : i \notin S}
<1> SUFFICES ASSUME Out # {} PROVE FALSE
  OBVIOUS
<1>0. Out \in SUBSET Nat
  OBVIOUS
<1>1. PICK i \in Out : \A j \in Out : i <= j
  <2> HIDE DEF Out
  <2> QED BY <1>0, LeastNat
<1>2. i # 0 /\ i - 1 \in 0 .. n - 1 /\ i - 1 \notin Out
  BY <1>1
<1>3. i - 1 \in S
  BY <1>2
<1> QED BY <1>1, <1>2, <1>3

-----------------------------------------------------------------------------
(* Checks.                                                                 *)

\* A list of checks that answers ok refused nothing, provided no check fails
\* with the answer ok.
LEMMA NoneFails ==
  ASSUME NEW checks, DOMAIN checks \subseteq Nat,
         \A i \in DOMAIN checks : checks[i][1] => checks[i][2] # Ok,
         FirstFault(checks) = Ok
  PROVE  \A i \in DOMAIN checks : ~checks[i][1]
<1> DEFINE Failing == {i \in DOMAIN checks : checks[i][1]}
<1> SUFFICES ASSUME Failing # {} PROVE FALSE
  OBVIOUS
<1>1. PICK i \in Failing : \A j \in Failing : i <= j
  BY LeastNat
<1>2. \A j \in DOMAIN checks : j < i => ~checks[j][1]
  BY <1>1
<1> DEFINE c == CHOOSE k \in DOMAIN checks :
                  /\ checks[k][1]
                  /\ \A j \in DOMAIN checks : j < k => ~checks[j][1]
<1>3. c \in DOMAIN checks /\ checks[c][1]
  <2>1. \E k \in DOMAIN checks :
          /\ checks[k][1]
          /\ \A j \in DOMAIN checks : j < k => ~checks[j][1]
    BY <1>1, <1>2
  <2> QED BY <2>1, Zenon
<1>4. FirstFault(checks) = checks[c][2]
  BY <1>1 DEF FirstFault
<1> QED BY <1>3, <1>4

\* A list of at most nine checks, check by check.
LEMMA EachPasses ==
  ASSUME NEW checks, NEW n \in 1 .. 9, DOMAIN checks = 1 .. n,
         \A i \in DOMAIN checks : checks[i][1] => checks[i][2] # Ok,
         FirstFault(checks) = Ok
  PROVE  /\ ~checks[1][1]
         /\ n >= 2 => ~checks[2][1]
         /\ n >= 3 => ~checks[3][1]
         /\ n >= 4 => ~checks[4][1]
         /\ n >= 5 => ~checks[5][1]
         /\ n >= 6 => ~checks[6][1]
         /\ n >= 7 => ~checks[7][1]
         /\ n >= 8 => ~checks[8][1]
         /\ n >= 9 => ~checks[9][1]
<1>1. \A i \in DOMAIN checks : ~checks[i][1]
  BY NoneFails
<1> QED BY <1>1

-----------------------------------------------------------------------------
(* What each rule of the door lets pass.                                   *)

LEMMA GenesisPasses ==
  ASSUME NEW walk, NEW op, NEW i, VerifyGenesis(walk, op, i) = Ok
  PROVE  /\ i = 1 /\ ~walk.exists /\ op.author_seq = 1
         /\ op.payload.cert.keys.member_id = op.author_member_id
<1> DEFINE cert == op.payload.cert
           checks == <<
             <<i # 1 \/ walk.exists, "genesis_not_first">>,
             <<op.author_seq # 1, "member_register_not_first">>,
             <<~VerifyGenesisCertificate(cert, RootPk), "bad_root_signature">>,
             <<GenesisFault(cert) # Ok, MALFORMED>>,
             <<cert.workspace_id # Workspace, "cert_workspace_mismatch">>,
             <<cert.root_pk # RootPk, "cert_root_pk_mismatch">>,
             <<cert.keys.member_id # op.author_member_id, "cert_member_mismatch">>,
             <<cert.keys.sign_pk # op.author_member_id, "cert_key_mismatch">> >>
<1>1. FirstFault(checks) = Ok
  BY DEF VerifyGenesis
<1>2. DOMAIN checks = 1 .. 8 /\ \A j \in DOMAIN checks : checks[j][1] => checks[j][2] # Ok
  BY DEF Ok, MALFORMED
<1>3. ~checks[1][1] /\ ~checks[2][1] /\ ~checks[7][1]
  <2> HIDE DEF checks
  <2> QED BY <1>1, <1>2, EachPasses
<1>4. ~(i # 1 \/ walk.exists)
  BY <1>3
<1> QED BY <1>3, <1>4

LEMMA RegisterPasses ==
  ASSUME NEW op, VerifyMemberRegister(op) = Ok
  PROVE  /\ op.author_seq = 1
         /\ op.payload.cert.keys.member_id = op.author_member_id
<1> DEFINE cert == op.payload.cert
           checks == <<
             <<op.author_seq # 1, "member_register_not_first">>,
             <<~VerifyRegistrationCertificate(cert, RootPk), "bad_root_signature">>,
             <<RegistrationFault(cert) # Ok, MALFORMED>>,
             <<cert.workspace_id # Workspace, "cert_workspace_mismatch">>,
             <<cert.keys.member_id # op.author_member_id, "cert_member_mismatch">>,
             <<cert.keys.sign_pk # op.author_member_id, "cert_key_mismatch">> >>
<1>1. FirstFault(checks) = Ok
  BY DEF VerifyMemberRegister
<1>2. DOMAIN checks = 1 .. 6 /\ \A j \in DOMAIN checks : checks[j][1] => checks[j][2] # Ok
  BY DEF Ok, MALFORMED
<1>3. ~checks[1][1] /\ ~checks[5][1]
  <2> HIDE DEF checks
  <2> QED BY <1>1, <1>2, EachPasses
<1> QED BY <1>3

LEMMA GrantPasses ==
  ASSUME NEW db, NEW walk, NEW op, VerifyGrant(db, walk, op) = Ok
  PROVE  LET cert == op.payload.cert
             kind == GranteeKind(db, walk, cert.member_id)
         IN /\ cert.role = ROLE_OWNER => cert.signer = RootPk
            /\ cert.member_id \in Member
            /\ IsPreferences => kind = MEMBER_KIND_DEVICE
            /\ cert.grant_id \in DOMAIN walk.index => IsReplay(db, op)
<1> DEFINE payload == op.payload
           cert == payload.cert
           kind == GranteeKind(db, walk, cert.member_id)
           checks == <<
             <<GrantFault(cert) # Ok, GrantFault(cert)>>,
             <<cert.workspace_id # Workspace, "cert_workspace_mismatch">>,
             <<cert.granter # payload.authority, "cert_granter_mismatch">>,
             <<~AuthorityIsAuthor(payload.authority, op), "cert_granter_mismatch">>,
             <<~VerifyGrantCertificate(cert, AuthorityPublicKey(payload.authority, op)),
               "bad_grant_signature">>,
             <<cert.role = ROLE_OWNER /\ payload.authority # GRANTER_ROOT,
               "owner_grant_requires_root">>,
             <<cert.member_id \notin Member \/ kind = NotChained, "unknown_grantee">>,
             <<IsPreferences /\ kind # MEMBER_KIND_DEVICE, "service_grant_forbidden">>,
             <<~IsReplay(db, op) /\ cert.grant_id \in DOMAIN walk.index,
               "grant_id_already_used">> >>
<1>1. FirstFault(checks) = Ok
  BY DEF VerifyGrant
<1>2. DOMAIN checks = 1 .. 9 /\ \A j \in DOMAIN checks : checks[j][1] => checks[j][2] # Ok
  <2>1. checks[1][1] => checks[1][2] # Ok
    OBVIOUS
  <2>2. \A j \in 2 .. 9 : checks[j][2] # Ok
    BY DEF Ok
  <2>3. DOMAIN checks = 1 .. 9
    OBVIOUS
  <2> HIDE DEF checks
  <2> QED BY <2>1, <2>2, <2>3
<1>3. /\ ~checks[5][1] /\ ~checks[6][1] /\ ~checks[7][1] /\ ~checks[8][1] /\ ~checks[9][1]
  <2> HIDE DEF checks
  <2> QED BY <1>1, <1>2, EachPasses
<1>4. VerifyGrantCertificate(cert, AuthorityPublicKey(payload.authority, op))
  BY <1>3
<1>5. ~(cert.role = ROLE_OWNER /\ payload.authority # GRANTER_ROOT)
  BY <1>3
<1>6. cert.role = ROLE_OWNER => cert.signer = RootPk
  BY <1>4, <1>5 DEF VerifyGrantCertificate, Verifies, AuthorityPublicKey
<1>7. ~(cert.member_id \notin Member \/ kind = NotChained)
  BY <1>3
<1>8. ~(IsPreferences /\ kind # MEMBER_KIND_DEVICE)
  BY <1>3
<1>9. ~(~IsReplay(db, op) /\ cert.grant_id \in DOMAIN walk.index)
  BY <1>3
<1> QED BY <1>6, <1>7, <1>8, <1>9

LEMMA RevokePasses ==
  ASSUME NEW db, NEW walk, NEW op, VerifyRevoke(db, walk, op) = Ok
  PROVE  op.payload.cert.grant_id \in DOMAIN walk.index
<1> DEFINE payload == op.payload
           cert == payload.cert
           known == cert.grant_id \in DOMAIN walk.index
           checks == <<
             <<cert.workspace_id # Workspace, "cert_workspace_mismatch">>,
             <<cert.revoker # payload.authority, "cert_granter_mismatch">>,
             <<~AuthorityIsAuthor(payload.authority, op), "cert_granter_mismatch">>,
             <<~VerifyRevokeCertificate(cert, AuthorityPublicKey(payload.authority, op)),
               "bad_revoke_signature">>,
             <<~known, "unknown_grant">>,
             <<known /\ walk.index[cert.grant_id].revoked /\ ~IsReplay(db, op),
               "already_revoked">>,
             <</\ known /\ walk.index[cert.grant_id].role = ROLE_OWNER
               /\ payload.authority # GRANTER_ROOT, "owner_revoke_requires_root">> >>
<1>1. FirstFault(checks) = Ok
  BY DEF VerifyRevoke
<1>2. DOMAIN checks = 1 .. 7 /\ \A j \in DOMAIN checks : checks[j][1] => checks[j][2] # Ok
  BY DEF Ok
<1>3. ~checks[5][1]
  <2> HIDE DEF checks
  <2> QED BY <1>1, <1>2, EachPasses
<1> QED BY <1>3

LEMMA RolePasses ==
  ASSUME NEW index, NEW m, NEW class, RequireRole(index, m, class) = Ok
  PROVE  \E g \in DOMAIN index : /\ index[g].member_id = m /\ ~index[g].revoked
                                 /\ index[g].role \in ROLE_OP_CLASS_MATRIX[class]
<1> DEFINE roles == LiveRoles(index, m)
           checks == <<
             <<roles = {}, "no_live_grant">>,
             <<roles \cap ROLE_OP_CLASS_MATRIX[class] = {}, "role_forbids_op_class">> >>
<1>1. FirstFault(checks) = Ok
  BY DEF RequireRole
<1>2. DOMAIN checks = 1 .. 2 /\ \A j \in DOMAIN checks : checks[j][1] => checks[j][2] # Ok
  BY DEF Ok
<1>3. ~checks[2][1]
  <2> HIDE DEF checks
  <2> QED BY <1>1, <1>2, EachPasses
<1>4. roles \cap ROLE_OP_CLASS_MATRIX[class] # {}
  BY <1>3
<1> QED BY <1>4 DEF LiveRoles

LEMMA FreshKeyEpochPasses ==
  ASSUME NEW op, NEW current, RequireFreshKeyEpoch(op, current) = Ok
  PROVE  current = NoEpoch \/ ~(op.key_epoch > current)
<1> DEFINE checks == <<
             <<current # NoEpoch /\ op.key_epoch < current - 1, "key_epoch_stale">>,
             <<current # NoEpoch /\ op.key_epoch > current, "key_epoch_unknown">> >>
<1>1. FirstFault(checks) = Ok
  BY DEF RequireFreshKeyEpoch
<1>2. DOMAIN checks = 1 .. 2 /\ \A j \in DOMAIN checks : checks[j][1] => checks[j][2] # Ok
  BY DEF Ok
<1>3. ~checks[2][1]
  <2> HIDE DEF checks
  <2> QED BY <1>1, <1>2, EachPasses
<1> QED BY <1>3

LEMMA RotatePasses ==
  ASSUME NEW rotate, NEW current, VerifyRotate(rotate, current) = Ok,
         RotateFault(rotate) = Ok
  PROVE  /\ rotate.to_epoch \in 0 .. MaxKeyEpoch
         /\ rotate.to_epoch = (IF current = NoEpoch THEN 0 ELSE current) + 1
<1> DEFINE checks == <<
             <<rotate.workspace_id # Workspace, "cert_workspace_mismatch">>,
             <<rotate.from_epoch # (IF current = NoEpoch THEN 0 ELSE current),
               "rotate_epoch_conflict">> >>
           shape == <<
             <<\/ rotate.from_epoch \notin 0 .. MaxKeyEpoch
               \/ rotate.to_epoch \notin 0 .. MaxKeyEpoch, MALFORMED>>,
             <<rotate.to_epoch # rotate.from_epoch + 1, MALFORMED>> >>
<1>1. FirstFault(checks) = Ok /\ FirstFault(shape) = Ok
  BY DEF VerifyRotate, RotateFault
<1>2. DOMAIN checks = 1 .. 2 /\ \A j \in DOMAIN checks : checks[j][1] => checks[j][2] # Ok
  BY DEF Ok
<1>3. DOMAIN shape = 1 .. 2 /\ \A j \in DOMAIN shape : shape[j][1] => shape[j][2] # Ok
  BY DEF Ok, MALFORMED
<1>4. ~checks[2][1] /\ ~shape[1][1] /\ ~shape[2][1]
  <2> HIDE DEF checks, shape
  <2> QED BY <1>1, <1>2, <1>3, EachPasses
<1> QED BY <1>4

LEMMA PayloadPasses ==
  ASSUME NEW op, DecodeControlPayload(op) = Ok
  PROVE  /\ op.payload.control_type \in SERVED_CONTROL_TYPES
         /\ op.payload.control_type = "rotate" => RotateFault(op.payload.rotate) = Ok
<1> DEFINE payload == op.payload
           served == payload.control_type \in SERVED_CONTROL_TYPES
           rotate == IF payload.control_type = "rotate"
                     THEN RotateFault(payload.rotate) ELSE Ok
           checks == <<
             <<~served, "unsupported_control_type">>,
             <<rotate # Ok, rotate>>,
             <<ChainLinkFault(payload) # Ok, ChainLinkFault(payload)>> >>
<1>1. FirstFault(checks) = Ok
  BY DEF DecodeControlPayload, PayloadFault
<1>2. DOMAIN checks = 1 .. 3 /\ \A j \in DOMAIN checks : checks[j][1] => checks[j][2] # Ok
  <2>1. checks[1][2] # Ok
    BY DEF Ok
  <2>2. checks[2][1] => checks[2][2] # Ok
    OBVIOUS
  <2>3. checks[3][1] => checks[3][2] # Ok
    OBVIOUS
  <2>4. DOMAIN checks = 1 .. 3
    OBVIOUS
  <2> HIDE DEF checks
  <2> QED BY <2>1, <2>2, <2>3, <2>4
<1>3. ~checks[1][1] /\ ~checks[2][1]
  <2> HIDE DEF checks
  <2> QED BY <1>1, <1>2, EachPasses
<1> QED BY <1>3

LEMMA TargetPasses ==
  ASSUME NEW db, NEW walk, NEW op, NEW target,
         PruneTargetRefusal(db, walk, op, target) = Ok
  PROVE  /\ target.seq \in DOMAIN db.log
         /\ ~IsCompactionExempt(db.log[target.seq].op_class)
         /\ target.author_seq = db.log[target.seq].author_seq
         /\ target.seq \in walk.claimed => IsReplay(db, op)
<1>1. target.seq \in DOMAIN db.log
  BY DEF PruneTargetRefusal, Ok
<1> DEFINE row == db.log[target.seq]
           checks == <<
            <<row.op_class = OP_CLASS_CONTROL, "prune_target_is_control">>,
            <<IsCompactionExempt(row.op_class), "prune_target_is_prune">>,
            <<\/ row.author_member_id # target.author_member_id
              \/ row.author_seq # target.author_seq
              \/ row.op_id # target.envelope_hash,
              "prune_target_attestation_mismatch">>,
            <<~IsReplay(db, op) /\ (db.stamp[target.seq] # Null
                                      \/ target.seq \in walk.claimed),
              "prune_target_already_compacted">>,
            <<row.op_id = op.payload.compaction_op_id,
              "prune_target_is_its_own_compaction">> >>
<1>2. FirstFault(checks) = Ok
  BY <1>1 DEF PruneTargetRefusal
<1>3. DOMAIN checks = 1 .. 5 /\ \A j \in DOMAIN checks : checks[j][1] => checks[j][2] # Ok
  BY DEF Ok
<1>4. ~checks[2][1] /\ ~checks[3][1] /\ ~checks[4][1]
  <2> HIDE DEF checks
  <2> QED BY <1>2, <1>3, EachPasses
<1> QED BY <1>1, <1>4

LEMMA CallsAreSeqs ==
  ASSUME NEW n \in Nat, NEW f, DOMAIN f = 1 .. n, f = [i \in 1 .. n |-> f[i]],
         NEW T, \A i \in 1 .. n : f[i] \in T
  PROVE  f \in Seq(T) /\ Len(f) = n
OBVIOUS

\* A list of checks continued by another refuses what either would.
LEMMA BothPass ==
  ASSUME NEW T, NEW head \in Seq(T), NEW tail \in Seq(T),
         \A i \in DOMAIN head : head[i][1] => head[i][2] # Ok,
         \A i \in DOMAIN tail : tail[i][1] => tail[i][2] # Ok,
         FirstFault(head \o tail) = Ok
  PROVE  /\ \A i \in DOMAIN head : ~head[i][1]
         /\ \A i \in DOMAIN tail : ~tail[i][1]
<1> DEFINE checks == head \o tail
           k == Len(head)
           n == Len(tail)
<1>1. /\ k \in Nat /\ n \in Nat /\ DOMAIN head = 1 .. k /\ DOMAIN tail = 1 .. n
      /\ DOMAIN checks = 1 .. k + n
      /\ \A i \in 1 .. k : checks[i] = head[i]
      /\ \A i \in 1 .. n : checks[i + k] = tail[i]
      /\ \A i \in k + 1 .. k + n : checks[i] = tail[i - k]
  OBVIOUS
<1>2. FirstFault(checks) = Ok
  OBVIOUS
<1> HIDE DEF checks, k, n
<1>3. ASSUME NEW i \in DOMAIN checks PROVE checks[i][1] => checks[i][2] # Ok
  <2>1. CASE i \in 1 .. k
    BY <1>1, <2>1
  <2>2. CASE i \in k + 1 .. k + n
    <3>1. i - k \in 1 .. n
      BY <1>1, <2>2
    <3> QED BY <1>1, <2>2, <3>1
  <2> QED BY <1>1, <2>1, <2>2
<1>4. \A i \in DOMAIN checks : ~checks[i][1]
  <2>1. DOMAIN checks \subseteq Nat
    BY <1>1
  <2> QED BY <1>2, <1>3, <2>1, NoneFails
<1>5. ASSUME NEW i \in 1 .. n PROVE ~tail[i][1]
  <2>1. i + k \in DOMAIN checks
    BY <1>1
  <2> QED BY <1>1, <1>4, <2>1
<1>6. ASSUME NEW i \in 1 .. k PROVE ~head[i][1]
  <2>1. i \in DOMAIN checks
    BY <1>1
  <2> QED BY <1>1, <1>4, <2>1
<1> QED BY <1>1, <1>5, <1>6

LEMMA PruneShapePasses ==
  ASSUME NEW payload, PruneDecodeFault(payload) = Ok
  PROVE  Len(payload.targets) # 0
<1> DEFINE decode == <<
             <<\E t \in Targets(payload) : PruneTargetFault(t) # Ok,
               "malformed_prune_payload">>,
             <<PruneShapeFault(payload) # Ok, PruneShapeFault(payload)>> >>
<1>1. FirstFault(decode) = Ok
  BY DEF PruneDecodeFault
<1>2. DOMAIN decode = 1 .. 2 /\ \A j \in DOMAIN decode : decode[j][1] => decode[j][2] # Ok
  <2>1. decode[1][2] # Ok
    BY DEF Ok
  <2>2. decode[2][1] => decode[2][2] # Ok
    OBVIOUS
  <2>3. DOMAIN decode = 1 .. 2
    OBVIOUS
  <2> HIDE DEF decode
  <2> QED BY <2>1, <2>2, <2>3
<1>3. ~decode[2][1]
  <2> HIDE DEF decode
  <2> QED BY <1>1, <1>2, EachPasses
<1>4. PruneShapeFault(payload) = Ok
  BY <1>3
<1> DEFINE n == Len(payload.targets)
           seqs == {t.seq : t \in Targets(payload)}
           positions == {<<t.author_member_id, t.author_seq>> : t \in Targets(payload)}
           rules == <<
             <<n = 0, "prune_targets_empty">>,
             <<n > MaxPruneTargets, "prune_targets_too_many">>,
             <<Cardinality(seqs) # n, "prune_duplicate_target">>,
             <<Cardinality(positions) # n, "prune_duplicate_target">> >>
<1>5. FirstFault(rules) = Ok
  BY <1>4 DEF PruneShapeFault
<1>6. DOMAIN rules = 1 .. 4 /\ \A j \in DOMAIN rules : rules[j][1] => rules[j][2] # Ok
  <2>1. DOMAIN rules = 1 .. 4
    OBVIOUS
  <2>2. rules[1][2] # Ok /\ rules[2][2] # Ok /\ rules[3][2] # Ok /\ rules[4][2] # Ok
    BY DEF Ok
  <2> HIDE DEF rules
  <2> QED BY <2>1, <2>2
<1>7. ~rules[1][1]
  <2> HIDE DEF rules
  <2> QED BY <1>5, <1>6, EachPasses
<1> QED BY <1>7

\* A prune that passes names something, and each of its targets passed.
LEMMA PrunePasses ==
  ASSUME NEW db, NEW walk, NEW op, NEW S, op.payload.targets \in Seq(S),
         VerifyPrune(db, walk, op) = Ok
  PROVE  /\ CompactionKnown(db, walk, op)
         /\ Targets(op.payload) # {}
         /\ \A t \in Targets(op.payload) : PruneTargetRefusal(db, walk, op, t) = Ok
<1> DEFINE payload == op.payload
           parse == ParseBody(op.body)
           shape == IF parse = Ok THEN PruneDecodeFault(payload) ELSE parse
           refusal(i) == PruneTargetRefusal(db, walk, op, payload.targets[i])
           head == << <<shape # Ok, shape>>,
                      <<~CompactionKnown(db, walk, op), "prune_compaction_not_found">> >>
           tail == [i \in DOMAIN payload.targets |-> <<refusal(i) # Ok, refusal(i)>>]
           n == Len(payload.targets)
           T == {head[1], head[2]} \cup {tail[i] : i \in 1 .. n}
<1>1. FirstFault(head \o tail) = Ok
  BY DEF VerifyPrune
<1>2. n \in Nat /\ DOMAIN payload.targets = 1 .. n
  OBVIOUS
<1>3. DOMAIN head = 1 .. 2
  OBVIOUS
<1>4. head \in Seq(T)
  <2>1. head[1] \in T /\ head[2] \in T
    <3> HIDE DEF head, tail
    <3> QED OBVIOUS
  <2> HIDE DEF T
  <2> QED BY <2>1
<1>5. tail \in Seq(T)
  <2>1. DOMAIN tail = 1 .. n /\ tail = [i \in 1 .. n |-> tail[i]]
    BY <1>2
  <2>2. \A i \in 1 .. n : tail[i] \in T
    <3> HIDE DEF head, tail
    <3> QED OBVIOUS
  <2> HIDE DEF tail, T, n
  <2> QED BY <1>2, <2>1, <2>2, CallsAreSeqs
<1>6. \A i \in DOMAIN head : head[i][1] => head[i][2] # Ok
  <2>1. head[1][1] => head[1][2] # Ok
    OBVIOUS
  <2>2. head[2][2] # Ok
    BY DEF Ok
  <2> HIDE DEF head
  <2> QED BY <1>3, <2>1, <2>2
<1>7. \A i \in DOMAIN tail : tail[i][1] => tail[i][2] # Ok
  <2> HIDE DEF refusal
  <2> QED OBVIOUS
<1>8. (\A i \in DOMAIN head : ~head[i][1]) /\ (\A i \in DOMAIN tail : ~tail[i][1])
  <2> HIDE DEF head, tail, T
  <2> QED BY <1>1, <1>4, <1>5, <1>6, <1>7, BothPass
<1>9. ~head[1][1] /\ ~head[2][1]
  <2>1. 1 \in DOMAIN head /\ 2 \in DOMAIN head
    BY <1>3
  <2> HIDE DEF head, tail
  <2> QED BY <1>8, <2>1
<1>10. shape = Ok /\ CompactionKnown(db, walk, op)
  BY <1>9
<1>11. \A i \in DOMAIN payload.targets : refusal(i) = Ok
  <2> HIDE DEF refusal
  <2> QED BY <1>8
<1>12. n # 0
  BY <1>10, PruneShapePasses DEF Ok
<1>13. Targets(payload) = {payload.targets[i] : i \in DOMAIN payload.targets}
  BY DEF Targets
<1>14. Targets(payload) # {}
  <2>1. 1 \in DOMAIN payload.targets
    <3> HIDE DEF n
    <3> QED BY <1>2, <1>12
  <2> QED BY <2>1, <1>13
<1> QED BY <1>10, <1>11, <1>13, <1>14

LEMMA HeaderPasses ==
  ASSUME NEW op, NEW token, HeaderFault(op, Workspace, token) = Ok
  PROVE  op.author_member_id = token /\ op.op_class \in SERVED_OP_CLASSES
<1> DEFINE envelopeLength == ENVELOPE_OVERHEAD_BYTES + op.body.length
           parse == ParseHeader(envelopeLength)
           served == CheckServed(op)
           checks == <<
             <<parse # Ok, parse>>,
             <<envelopeLength < MinimumEnvelopeBytesForSuite(op.suite),
               "envelope_too_short">>,
             <<served # Ok, served>>,
             <<op.workspace_id # Workspace, "workspace_mismatch">>,
             <<op.author_member_id # token, "author_member_mismatch">> >>
<1>1. FirstFault(checks) = Ok
  BY DEF HeaderFault
<1>2. DOMAIN checks = 1 .. 5 /\ \A j \in DOMAIN checks : checks[j][1] => checks[j][2] # Ok
  <2>1. (checks[1][1] => checks[1][2] # Ok) /\ (checks[3][1] => checks[3][2] # Ok)
    OBVIOUS
  <2>2. checks[2][2] # Ok /\ checks[4][2] # Ok /\ checks[5][2] # Ok
    BY DEF Ok
  <2>3. DOMAIN checks = 1 .. 5
    OBVIOUS
  <2> HIDE DEF checks
  <2> QED BY <2>1, <2>2, <2>3
<1>3. ~checks[3][1] /\ ~checks[5][1]
  <2> HIDE DEF checks
  <2> QED BY <1>1, <1>2, EachPasses
<1>4. CheckServed(op) = Ok
  BY <1>3
<1> DEFINE rules == <<
             <<op.suite \notin SERVED_SUITES, "unsupported_suite">>,
             <<op.op_class \notin SERVED_OP_CLASSES, "unsupported_op_class">>,
             <<op.suite = SUITE_AEAD_V1 /\ op.op_class = OP_CLASS_CONTROL,
               "encrypted_control_op">>,
             <<op.suite = SUITE_AEAD_V1 /\ op.op_class = OP_CLASS_PRUNE,
               "encrypted_prune_op">> >>
<1>5. FirstFault(rules) = Ok
  BY <1>4 DEF CheckServed
<1>6. DOMAIN rules = 1 .. 4 /\ \A j \in DOMAIN rules : rules[j][1] => rules[j][2] # Ok
  BY DEF Ok
<1>7. ~rules[2][1]
  <2> HIDE DEF rules
  <2> QED BY <1>5, <1>6, EachPasses
<1> QED BY <1>3, <1>7

\* The door lets a batch pass when every header and the whole walk do.
LEMMA VerdictPasses ==
  ASSUME NEW db, NEW token, NEW S, NEW batch \in Seq(S), Verdict(db, token, batch) = Ok
  PROVE  /\ \A i \in DOMAIN batch : /\ batch[i].author_member_id = token
                                    /\ batch[i].op_class \in SERVED_OP_CLASSES
         /\ VerifyAndAuthorize(db, batch) = Ok
<1> DEFINE header(i) == HeaderFault(batch[i], Workspace, token)
           checks == [i \in DOMAIN batch |-> <<header(i) # Ok, header(i)>>]
<1>1. /\ FirstFault(checks) = Ok
      /\ VerifyAndAuthorize(db, batch) = Ok
  <2> HIDE DEF header
  <2>1. Verdict(db, token, batch) =
          IF Len(batch) > MaxOpsPerBatch THEN "batch_too_large"
          ELSE IF FirstFault(checks) # Ok THEN FirstFault(checks)
          ELSE VerifyAndAuthorize(db, batch)
    BY DEF Verdict, header
  <2> HIDE DEF checks
  <2> QED BY <2>1 DEF Ok
<1>2. DOMAIN checks \subseteq Nat /\ DOMAIN checks = DOMAIN batch
  OBVIOUS
<1>3. \A i \in DOMAIN checks : checks[i][1] => checks[i][2] # Ok
  <2> HIDE DEF header
  <2> QED OBVIOUS
<1>4. \A i \in DOMAIN checks : ~checks[i][1]
  <2> HIDE DEF checks
  <2> QED BY <1>1, <1>2, <1>3, NoneFails
<1>5. \A i \in DOMAIN batch : header(i) = Ok
  <2> HIDE DEF header
  <2> QED BY <1>4
<1> QED BY <1>1, <1>5, HeaderPasses

-----------------------------------------------------------------------------
(* The walk.                                                               *)

\* The walk's states exist and are what its defining equation says.
LEMMA WalkUnfolds ==
  ASSUME NEW db, NEW batch, Len(batch) \in Nat
  PROVE  /\ Walk(db, batch)[0] = WalkStart(db)
         /\ \A i \in 1 .. Len(batch) :
              Walk(db, batch)[i] = WalkStep(db, Walk(db, batch)[i - 1], batch[i], i)
<1> DEFINE N == Len(batch)
           IsWalk(w, n) == w = [i \in 0 .. n |-> IF i = 0 THEN WalkStart(db)
                                  ELSE WalkStep(db, w[i - 1], batch[i], i)]
           Good == {n \in 0 .. N : \E w : IsWalk(w, n)}
<1>1. 0 \in Good
  <2>1. IsWalk([i \in 0 .. 0 |-> WalkStart(db)], 0)
    OBVIOUS
  <2> HIDE DEF IsWalk
  <2> QED BY <2>1
<1>2. ASSUME NEW n \in 0 .. N - 1, n \in Good PROVE n + 1 \in Good
  <2>1. PICK w : IsWalk(w, n)
    BY <1>2
  <2> DEFINE v == [i \in 0 .. n + 1 |-> IF i = n + 1
                     THEN WalkStep(db, w[n], batch[n + 1], n + 1) ELSE w[i]]
  <2>2. IsWalk(v, n + 1)
    BY <2>1
  <2>3. n + 1 \in 0 .. N
    OBVIOUS
  <2> HIDE DEF IsWalk
  <2> QED BY <2>2, <2>3
<1>3. N \in Good
  <2> HIDE DEF Good, N
  <2>1. N \in Nat
    BY DEF N
  <2>2. \A i \in 0 .. N : i \in Good
    BY <1>1, <1>2, <2>1, UpTo
  <2> QED BY <2>1, <2>2
<1>4. Walk(db, batch) = CHOOSE w : IsWalk(w, N)
  BY DEF Walk
<1>5. IsWalk(Walk(db, batch), N)
  <2> HIDE DEF IsWalk
  <2> QED BY <1>3, <1>4
<1>6. N \in Nat
  OBVIOUS
<1> HIDE DEF N
<1>7. \A i \in 0 .. N : Walk(db, batch)[i] =
        IF i = 0 THEN WalkStart(db)
        ELSE WalkStep(db, Walk(db, batch)[i - 1], batch[i], i)
  BY <1>5
<1>8. Walk(db, batch)[0] = WalkStart(db)
  BY <1>6, <1>7
<1>9. ASSUME NEW i \in 1 .. N
      PROVE  Walk(db, batch)[i] = WalkStep(db, Walk(db, batch)[i - 1], batch[i], i)
  BY <1>6, <1>7
<1> QED BY <1>8, <1>9 DEF N

\* A refusal stands to the end of the walk, so a batch that passes never met one.
LEMMA WalkNeverFailed ==
  ASSUME NEW db, NEW batch, Len(batch) \in Nat, VerifyAndAuthorize(db, batch) = Ok
  PROVE  \A i \in 0 .. Len(batch) : Walk(db, batch)[i].fault = Ok
<1> DEFINE N == Len(batch)
           walk == Walk(db, batch)
           Good == {k \in 0 .. N : walk[N - k].fault = Ok}
<1>1. N \in Nat /\ walk[N].fault = Ok
  BY DEF VerifyAndAuthorize
<1>2. \A i \in 1 .. N : walk[i] = WalkStep(db, walk[i - 1], batch[i], i)
  BY WalkUnfolds
<1> HIDE DEF N, walk
<1>3. 0 \in Good
  BY <1>1
<1>4. ASSUME NEW k \in 0 .. N - 1, k \in Good PROVE k + 1 \in Good
  <2>1. N - k \in 1 .. N /\ N - (k + 1) = (N - k) - 1 /\ k + 1 \in 0 .. N
    BY <1>1
  <2>2. walk[N - k] = WalkStep(db, walk[(N - k) - 1], batch[N - k], N - k)
    BY <1>2, <2>1
  <2>3. walk[(N - k) - 1].fault = Ok
    BY <1>4, <2>2 DEF WalkStep
  <2> QED BY <2>1, <2>3
<1>5. \A k \in 0 .. N : k \in Good
  <2> HIDE DEF Good
  <2> QED BY <1>1, <1>3, <1>4, UpTo
<1>6. ASSUME NEW i \in 0 .. N PROVE walk[i].fault = Ok
  <2>1. N - i \in 0 .. N /\ N - (N - i) = i
    BY <1>1
  <2> QED BY <1>5, <2>1
<1> QED BY <1>6 DEF N, walk

-----------------------------------------------------------------------------
(* One step of the walk.                                                   *)

WalkFields == {"fault", "exists", "index", "epoch", "kinds", "compactions", "claimed"}

IsControl(op, type) == op.op_class = OP_CLASS_CONTROL /\ op.payload.control_type = type
IsRegistration(op) == IsControl(op, "workspace_genesis") \/ IsControl(op, "member_register")
IsPrune(op) == op.op_class = OP_CLASS_PRUNE
RootSigned(op) == op.op_class = OP_CLASS_CONTROL /\ IsRootSigned(op.payload)
TargetSeqs(op) == {t.seq : t \in Targets(op.payload)}

LEMMA ControlPasses ==
  ASSUME NEW db, NEW walk, NEW op, NEW i, op.op_class = OP_CLASS_CONTROL,
         DOMAIN walk = WalkFields, walk.fault = Ok, WalkStep(db, walk, op, i).fault = Ok
  PROVE  /\ DecodeControlPayload(op) = Ok
         /\ op.payload.control_type = "workspace_genesis" \/ walk.exists
         /\ \/ RootSigned(op)
            \/ RequireRole(walk.index, op.author_member_id, OP_CLASS_CONTROL) = Ok
         /\ TypeFault(db, walk, op, i) = Ok
         /\ WalkStep(db, walk, op, i) = Staged(walk, op.payload)
<1> DEFINE payload == op.payload
           shape == DecodeControlPayload(op)
           founding == payload.control_type = "workspace_genesis"
           role == IF founding \/ IsRootSigned(payload) THEN Ok
                   ELSE RequireRole(walk.index, op.author_member_id, OP_CLASS_CONTROL)
           checks == <<
             <<shape # Ok, shape>>,
             <<~founding /\ ~walk.exists, "workspace_not_created">>,
             <<role # Ok, role>> >>
           early == FirstFault(checks)
           fault == IF early # Ok THEN early ELSE TypeFault(db, walk, op, i)
<1>1. WalkStep(db, walk, op, i) =
        IF fault # Ok THEN [walk EXCEPT !.fault = fault] ELSE Staged(walk, payload)
  BY DEF WalkStep, ControlStep
<1>2. fault = Ok
  <2> HIDE DEF fault
  <2> QED BY <1>1 DEF WalkFields
<1>3. early = Ok /\ TypeFault(db, walk, op, i) = Ok
  <2> HIDE DEF early
  <2> QED BY <1>2
<1>4. DOMAIN checks = 1 .. 3 /\ \A j \in DOMAIN checks : checks[j][1] => checks[j][2] # Ok
  <2>1. (checks[1][1] => checks[1][2] # Ok) /\ (checks[3][1] => checks[3][2] # Ok)
    <3> HIDE DEF role, shape
    <3> QED OBVIOUS
  <2>2. checks[2][2] # Ok
    BY DEF Ok
  <2>3. DOMAIN checks = 1 .. 3
    OBVIOUS
  <2> HIDE DEF checks
  <2> QED BY <2>1, <2>2, <2>3
<1>5. ~checks[1][1] /\ ~checks[2][1] /\ ~checks[3][1]
  <2> HIDE DEF checks
  <2> QED BY <1>3, <1>4, EachPasses DEF early
<1>6. shape = Ok /\ (founding \/ walk.exists) /\ role = Ok
  <2> HIDE DEF shape, role, founding
  <2>1. ~(shape # Ok)
    BY <1>5
  <2>2. ~(~founding /\ ~walk.exists)
    BY <1>5
  <2>3. ~(role # Ok)
    BY <1>5
  <2> QED BY <2>1, <2>2, <2>3
<1>7. founding => IsRootSigned(payload)
  BY DEF IsRootSigned, ROOT_ONLY_CONTROL_TYPES
<1>8. \/ RootSigned(op)
      \/ RequireRole(walk.index, op.author_member_id, OP_CLASS_CONTROL) = Ok
  BY <1>6, <1>7 DEF RootSigned
<1>9. WalkStep(db, walk, op, i) = Staged(walk, op.payload)
  <2> HIDE DEF fault
  <2> QED BY <1>1, <1>2
<1> QED BY <1>3, <1>6, <1>8, <1>9

LEMMA ContentPasses ==
  ASSUME NEW db, NEW walk, NEW op, NEW i, op.op_class # OP_CLASS_CONTROL,
         DOMAIN walk = WalkFields, walk.fault = Ok, WalkStep(db, walk, op, i).fault = Ok
  PROVE  /\ walk.exists
         /\ RequireRole(walk.index, op.author_member_id, op.op_class) = Ok
         /\ RequireFreshKeyEpoch(op, walk.epoch) = Ok
         /\ IsPrune(op) => VerifyPrune(db, walk, op) = Ok
         /\ LET next == WalkStep(db, walk, op, i)
            IN /\ DOMAIN next = WalkFields
               /\ next.index = walk.index /\ next.epoch = walk.epoch
               /\ next.kinds = walk.kinds
               /\ next.compactions = walk.compactions \cup
                    IF op.op_class = OP_CLASS_COMPACTION THEN {op.op_id} ELSE {}
               /\ next.claimed = walk.claimed \cup IF IsPrune(op) THEN TargetSeqs(op) ELSE {}
<1> DEFINE role == RequireRole(walk.index, op.author_member_id, op.op_class)
           epoch == RequireFreshKeyEpoch(op, walk.epoch)
           prune == IF op.op_class = OP_CLASS_PRUNE THEN VerifyPrune(db, walk, op) ELSE Ok
           checks == <<
             <<~walk.exists, "workspace_not_created">>,
             <<role # Ok, role>>, <<epoch # Ok, epoch>>, <<prune # Ok, prune>> >>
           fault == FirstFault(checks)
           compactions == IF op.op_class = OP_CLASS_COMPACTION
                          THEN walk.compactions \cup {op.op_id} ELSE walk.compactions
           claimed == IF op.op_class = OP_CLASS_PRUNE
                      THEN walk.claimed \cup {t.seq : t \in Targets(op.payload)}
                      ELSE walk.claimed
<1>1. WalkStep(db, walk, op, i) =
        [walk EXCEPT !.fault = fault, !.compactions = compactions, !.claimed = claimed]
  BY DEF WalkStep, ContentStep
<1>2. fault = Ok
  <2> HIDE DEF fault, compactions, claimed
  <2> QED BY <1>1 DEF WalkFields
<1>3. DOMAIN checks = 1 .. 4 /\ \A j \in DOMAIN checks : checks[j][1] => checks[j][2] # Ok
  <2>1. checks[1][2] # Ok
    BY DEF Ok
  <2>2. /\ checks[2][1] => checks[2][2] # Ok
        /\ checks[3][1] => checks[3][2] # Ok
        /\ checks[4][1] => checks[4][2] # Ok
    <3> HIDE DEF role, epoch, prune
    <3> QED OBVIOUS
  <2>3. DOMAIN checks = 1 .. 4
    OBVIOUS
  <2> HIDE DEF checks
  <2> QED BY <2>1, <2>2, <2>3
<1>4. ~checks[1][1] /\ ~checks[2][1] /\ ~checks[3][1] /\ ~checks[4][1]
  <2> HIDE DEF checks
  <2> QED BY <1>2, <1>3, EachPasses DEF fault
<1>5. walk.exists /\ role = Ok /\ epoch = Ok /\ prune = Ok
  <2> HIDE DEF role, epoch, prune
  <2>1. ~(~walk.exists)
    BY <1>4
  <2>2. ~(role # Ok) /\ ~(epoch # Ok)
    BY <1>4
  <2>3. ~(prune # Ok)
    BY <1>4
  <2> QED BY <2>1, <2>2, <2>3
<1> DEFINE next == WalkStep(db, walk, op, i)
<1>6. /\ DOMAIN next = WalkFields
      /\ next.index = walk.index /\ next.epoch = walk.epoch
      /\ next.kinds = walk.kinds
      /\ next.compactions = compactions
      /\ next.claimed = claimed
  <2> HIDE DEF fault, compactions, claimed
  <2> QED BY <1>1 DEF WalkFields
<1>7. compactions = walk.compactions \cup
        IF op.op_class = OP_CLASS_COMPACTION THEN {op.op_id} ELSE {}
  OBVIOUS
<1>8. claimed = walk.claimed \cup IF IsPrune(op) THEN TargetSeqs(op) ELSE {}
  BY DEF IsPrune, TargetSeqs
<1> QED BY <1>5, <1>6, <1>7, <1>8 DEF IsPrune

\* What an admitted control op changes in the walk's view, type by type.
LEMMA StagedFields ==
  ASSUME NEW walk, NEW payload, DOMAIN walk = WalkFields,
         payload.control_type \in SERVED_CONTROL_TYPES
  PROVE  LET next == Staged(walk, payload)
             type == payload.control_type
             cert == payload.cert
         IN /\ DOMAIN next = WalkFields
            /\ next.compactions = walk.compactions /\ next.claimed = walk.claimed
            /\ next.index = CASE type = "grant" -> AddGrant(walk.index, cert)
                              [] type = "revoke" -> RevokeGrant(walk.index, cert.grant_id)
                              [] OTHER -> walk.index
            /\ next.epoch = IF type = "rotate" THEN payload.rotate.to_epoch ELSE walk.epoch
            /\ next.kinds =
                 IF type \in {"workspace_genesis", "member_register"}
                 THEN [m \in DOMAIN walk.kinds \cup {cert.keys.member_id} |->
                         IF m = cert.keys.member_id THEN cert.keys.member_kind
                         ELSE walk.kinds[m]]
                 ELSE walk.kinds
<1> DEFINE type == payload.control_type
           next == Staged(walk, payload)
<1>1. CASE type \in {"workspace_genesis", "member_register"}
  <2> DEFINE kinds == [m \in DOMAIN walk.kinds \cup {payload.cert.keys.member_id} |->
                         IF m = payload.cert.keys.member_id
                         THEN payload.cert.keys.member_kind ELSE walk.kinds[m]]
  <2>1. next = [walk EXCEPT !.exists = TRUE, !.kinds = kinds]
    BY <1>1 DEF Staged, AsRegistration
  <2> HIDE DEF kinds
  <2>2. /\ DOMAIN next = WalkFields
        /\ next.compactions = walk.compactions /\ next.claimed = walk.claimed
        /\ next.index = walk.index /\ next.epoch = walk.epoch /\ next.kinds = kinds
    BY <2>1 DEF WalkFields
  <2> HIDE DEF next
  <2> QED BY <1>1, <2>2 DEF kinds, next
<1>2. CASE type = "grant"
  <2>1. next = [walk EXCEPT !.index = AddGrant(walk.index, payload.cert)]
    BY <1>2 DEF Staged
  <2> QED BY <1>2, <2>1 DEF WalkFields
<1>3. CASE type = "revoke"
  <2>1. next = [walk EXCEPT !.index = RevokeGrant(walk.index, payload.cert.grant_id)]
    BY <1>3 DEF Staged
  <2> QED BY <1>3, <2>1 DEF WalkFields
<1>4. CASE type = "rotate"
  <2>1. next = [walk EXCEPT !.epoch = payload.rotate.to_epoch]
    BY <1>4 DEF Staged
  <2> QED BY <1>4, <2>1 DEF WalkFields
<1> QED BY <1>1, <1>2, <1>3, <1>4 DEF SERVED_CONTROL_TYPES

-----------------------------------------------------------------------------
(* What the walk carries, after the first i ops, in terms of the tables it *)
(* started from and of those ops.                                          *)

GrantAsserted(op, g, m, role) ==
  /\ IsControl(op, "grant")
  /\ op.payload.cert.grant_id = g /\ op.payload.cert.member_id = m
  /\ op.payload.cert.role = role
GrantStored(db, g, m, role) ==
  g \in DOMAIN db.grants /\ db.grants[g].member_id = m /\ db.grants[g].role = role

IndexRow == {"member_id", "role", "revoked"}

IndexView(db, batch, i, index) ==
  /\ DOMAIN db.grants \subseteq DOMAIN index
  /\ \A j \in 1 .. i : IsControl(batch[j], "grant")
                         => batch[j].payload.cert.grant_id \in DOMAIN index
  /\ \A g \in DOMAIN index :
       /\ DOMAIN index[g] = IndexRow
       /\ \/ GrantStored(db, g, index[g].member_id, index[g].role)
          \/ \E j \in 1 .. i : GrantAsserted(batch[j], g, index[g].member_id, index[g].role)
       /\ Barred(RevokedGrants(db), batch, i, g) => index[g].revoked

MintsEpoch(op, e) == IsControl(op, "rotate") /\ op.payload.rotate.to_epoch = e

EpochView(db, batch, i, epoch) ==
  \/ /\ epoch = NoEpoch /\ DOMAIN db.epochs = {}
     /\ \A j \in 1 .. i : ~IsControl(batch[j], "rotate")
  \/ /\ epoch \in 1 .. MaxKeyEpoch
     /\ epoch \in DOMAIN db.epochs \/ \E j \in 1 .. i : MintsEpoch(batch[j], epoch)
     /\ DOMAIN db.epochs \subseteq 1 .. epoch
     /\ \A j \in 1 .. i : IsControl(batch[j], "rotate")
                            => batch[j].payload.rotate.to_epoch \in 1 .. epoch

KindView(batch, i, kinds) ==
  \A m \in DOMAIN kinds : \E j \in 1 .. i :
    /\ IsRegistration(batch[j])
    /\ batch[j].payload.cert.keys.member_id = m
    /\ batch[j].payload.cert.keys.member_kind = kinds[m]

CompactionView(batch, i, compactions) ==
  \A c \in compactions : \E j \in 1 .. i :
    batch[j].op_class = OP_CLASS_COMPACTION /\ batch[j].op_id = c

ClaimView(batch, i, claimed) ==
  \A j \in 1 .. i : IsPrune(batch[j]) => TargetSeqs(batch[j]) \subseteq claimed

WalkView(db, batch, i, walk) ==
  /\ DOMAIN walk = WalkFields
  /\ IndexView(db, batch, i, walk.index)
  /\ EpochView(db, batch, i, walk.epoch)
  /\ KindView(batch, i, walk.kinds)
  /\ CompactionView(batch, i, walk.compactions)
  /\ ClaimView(batch, i, walk.claimed)

LEMMA GreatestBelow ==
  ASSUME NEW n \in Nat, NEW S \in SUBSET (1 .. n), S # {}
  PROVE  Max(S) \in S /\ \A x \in S : x <= Max(S)
<1> DEFINE Gap == {k \in 0 .. n : n - k \in S}
<1>1. Gap \in SUBSET Nat
  OBVIOUS
<1>2. Gap # {}
  <2>1. PICK x \in S : TRUE
    OBVIOUS
  <2>2. x \in 1 .. n /\ n - x \in 0 .. n /\ n - (n - x) = x
    BY <2>1
  <2> QED BY <2>2
<1>3. PICK k \in Gap : \A j \in Gap : k <= j
  <2> HIDE DEF Gap
  <2> QED BY <1>1, <1>2, LeastNat
<1>4. n - k \in S
  BY <1>3
<1>5. ASSUME NEW x \in S PROVE n - k >= x
  <2>1. x \in 1 .. n /\ n - x \in 0 .. n /\ n - (n - x) = x
    OBVIOUS
  <2>2. k <= n - x /\ k \in 0 .. n
    BY <1>3, <2>1
  <2> QED BY <2>1, <2>2
<1> QED BY <1>4, <1>5 DEF Max

LEMMA WalkStartView ==
  ASSUME NEW db, NEW batch, DOMAIN db.epochs \subseteq 1 .. MaxKeyEpoch
  PROVE  WalkView(db, batch, 0, WalkStart(db))
<1> DEFINE walk == WalkStart(db)
<1>0. 1 .. 0 = {}
  OBVIOUS
<1>1. /\ DOMAIN walk = WalkFields
      /\ walk.index = GrantIndex(db) /\ walk.epoch = CurrentKeyEpoch(db)
      /\ DOMAIN walk.kinds = {} /\ walk.compactions = {} /\ walk.claimed = {}
  BY DEF WalkStart, WalkFields
<1>2. IndexView(db, batch, 0, walk.index)
  <2>1. DOMAIN walk.index = DOMAIN db.grants
    BY <1>1 DEF GrantIndex
  <2>2. ASSUME NEW g \in DOMAIN db.grants
        PROVE  /\ DOMAIN walk.index[g] = IndexRow
               /\ walk.index[g].member_id = db.grants[g].member_id
               /\ walk.index[g].role = db.grants[g].role
               /\ walk.index[g].revoked = (db.grants[g].revoked_by_seq # Null)
    BY <1>1 DEF GrantIndex, IndexRow
  <2>3. \A k \in 0 .. 0 : k = 0
    OBVIOUS
  <2>4. ASSUME NEW g \in DOMAIN db.grants, Barred(RevokedGrants(db), batch, 0, g)
        PROVE  walk.index[g].revoked
    BY <2>2, <2>3, <2>4 DEF Barred, RevokedGrants
  <2> HIDE DEF walk
  <2> QED BY <1>0, <2>1, <2>2, <2>4 DEF IndexView, GrantStored
<1>3. EpochView(db, batch, 0, walk.epoch)
  <2>1. CASE DOMAIN db.epochs = {}
    BY <1>0, <1>1, <2>1 DEF EpochView, CurrentKeyEpoch
  <2>2. CASE DOMAIN db.epochs # {}
    <3>1. walk.epoch = Max(DOMAIN db.epochs)
      BY <1>1, <2>2 DEF CurrentKeyEpoch
    <3>2. walk.epoch \in DOMAIN db.epochs /\ \A e \in DOMAIN db.epochs : e <= walk.epoch
      BY <2>2, <3>1, GreatestBelow, MaxKeyEpochAssumption
    <3> HIDE DEF walk
    <3>3. DOMAIN db.epochs \subseteq 1 .. walk.epoch
      BY <3>2, MaxKeyEpochAssumption
    <3> QED BY <1>0, <3>2, <3>3 DEF EpochView
  <2> QED BY <2>1, <2>2
<1>4. /\ KindView(batch, 0, walk.kinds) /\ CompactionView(batch, 0, walk.compactions)
      /\ ClaimView(batch, 0, walk.claimed)
  BY <1>0, <1>1 DEF KindView, CompactionView, ClaimView
<1> QED BY <1>1, <1>2, <1>3, <1>4 DEF WalkView

\* A grant that is revoked after an op was not asserted by it, and was revoked
\* before it or by it.
LEMMA BarredStep ==
  ASSUME NEW gone, NEW batch, NEW i \in Nat \ {0}, NEW g, Barred(gone, batch, i, g)
  PROVE  /\ ~Asserting(batch[i], "grant", g)
         /\ Barred(gone, batch, i - 1, g) \/ Asserting(batch[i], "revoke", g)
<1>1. PICK k \in 0 .. i :
        /\ IF k = 0 THEN g \in gone ELSE Asserting(batch[k], "revoke", g)
        /\ \A j \in k + 1 .. i : ~Asserting(batch[j], "grant", g)
  BY DEF Barred
<1>2. CASE k = i
  BY <1>1, <1>2 DEF Asserting
<1>3. CASE k # i
  <2>1. k \in 0 .. i - 1 /\ i \in k + 1 .. i /\ \A j \in k + 1 .. i - 1 : j \in k + 1 .. i
    BY <1>3
  <2> QED BY <1>1, <2>1 DEF Barred
<1> QED BY <1>2, <1>3

LEMMA IndexStep ==
  ASSUME NEW db, NEW batch, NEW i \in Nat \ {0}, NEW index,
         IndexView(db, batch, i - 1, index)
  PROVE  /\ ~IsControl(batch[i], "grant") /\ ~IsControl(batch[i], "revoke")
              => IndexView(db, batch, i, index)
         /\ IsControl(batch[i], "grant") =>
              IndexView(db, batch, i, AddGrant(index, batch[i].payload.cert))
         /\ IsControl(batch[i], "revoke") =>
              IndexView(db, batch, i, RevokeGrant(index, batch[i].payload.cert.grant_id))
<1>0. \A j : j \in 1 .. i <=> j \in 1 .. i - 1 \/ j = i
  OBVIOUS
<1>1. ASSUME NEW j \in 1 .. i - 1, IsControl(batch[j], "grant")
      PROVE  batch[j].payload.cert.grant_id \in DOMAIN index
  BY <1>1 DEF IndexView
<1>2. ASSUME NEW g \in DOMAIN index
      PROVE  /\ DOMAIN index[g] = IndexRow
             /\ \/ GrantStored(db, g, index[g].member_id, index[g].role)
                \/ \E j \in 1 .. i : GrantAsserted(batch[j], g, index[g].member_id, index[g].role)
  BY <1>0, <1>2 DEF IndexView
<1>3. DOMAIN db.grants \subseteq DOMAIN index
  BY DEF IndexView
<1> DEFINE gone == RevokedGrants(db)
<1>7. ASSUME NEW g \in DOMAIN index, Barred(gone, batch, i, g)
      PROVE  /\ ~Asserting(batch[i], "grant", g)
             /\ index[g].revoked \/ Asserting(batch[i], "revoke", g)
  <2> HIDE DEF gone
  <2>1. Barred(gone, batch, i - 1, g) => index[g].revoked
    BY DEF IndexView, gone
  <2> QED BY <1>7, <2>1, BarredStep
<1> HIDE DEF gone
<1>4. ASSUME ~IsControl(batch[i], "grant"), ~IsControl(batch[i], "revoke")
      PROVE  IndexView(db, batch, i, index)
  <2>1. ASSUME NEW g \in DOMAIN index, Barred(gone, batch, i, g) PROVE index[g].revoked
    BY <1>4, <1>7, <2>1 DEF Asserting, IsControl
  <2> QED BY <1>0, <1>1, <1>2, <1>3, <1>4, <2>1 DEF IndexView, gone
<1>5. ASSUME IsControl(batch[i], "grant")
      PROVE  IndexView(db, batch, i, AddGrant(index, batch[i].payload.cert))
  <2> DEFINE cert == batch[i].payload.cert
             next == AddGrant(index, cert)
  <2>1. DOMAIN next = DOMAIN index \cup {cert.grant_id}
    BY DEF AddGrant
  <2>2. ASSUME NEW g \in DOMAIN next
        PROVE  /\ DOMAIN next[g] = IndexRow
               /\ \/ GrantStored(db, g, next[g].member_id, next[g].role)
                  \/ \E j \in 1 .. i : GrantAsserted(batch[j], g, next[g].member_id, next[g].role)
    <3>1. CASE g = cert.grant_id
      <4>1. next[g] = [member_id |-> cert.member_id, role |-> cert.role, revoked |-> FALSE]
        BY <3>1 DEF AddGrant
      <4>2. /\ DOMAIN next[g] = IndexRow
            /\ next[g].member_id = cert.member_id /\ next[g].role = cert.role
        BY <4>1 DEF IndexRow
      <4>3. GrantAsserted(batch[i], g, next[g].member_id, next[g].role)
        BY <1>5, <3>1, <4>2 DEF GrantAsserted
      <4> QED BY <1>0, <4>2, <4>3
    <3>2. CASE g # cert.grant_id
      <4>1. g \in DOMAIN index /\ next[g] = index[g]
        BY <2>1, <3>2 DEF AddGrant
      <4> QED BY <1>2, <4>1
    <3> QED BY <3>1, <3>2
  <2>3. \A j \in 1 .. i : IsControl(batch[j], "grant")
                           => batch[j].payload.cert.grant_id \in DOMAIN next
    <3> HIDE DEF next
    <3> QED BY <1>0, <1>1, <2>1
  <2>5. ASSUME NEW g \in DOMAIN next, Barred(gone, batch, i, g) PROVE next[g].revoked
    <3>1. ~Asserting(batch[i], "grant", g)
      BY <2>5, BarredStep
    <3>2. g # cert.grant_id
      BY <1>5, <3>1 DEF Asserting, IsControl
    <3>3. g \in DOMAIN index /\ next[g] = index[g]
      BY <2>1, <3>2 DEF AddGrant
    <3>4. ~Asserting(batch[i], "revoke", g)
      BY <1>5 DEF Asserting, IsControl
    <3> QED BY <1>7, <2>5, <3>3, <3>4
  <2>4. IndexView(db, batch, i, next)
    <3> HIDE DEF next
    <3> QED BY <1>3, <2>1, <2>2, <2>3, <2>5 DEF IndexView, gone
  <2> QED BY <2>4
<1>6. ASSUME IsControl(batch[i], "revoke")
      PROVE  IndexView(db, batch, i, RevokeGrant(index, batch[i].payload.cert.grant_id))
  <2> DEFINE gid == batch[i].payload.cert.grant_id
             next == RevokeGrant(index, gid)
  <2>0. ~IsControl(batch[i], "grant")
    BY <1>6 DEF IsControl
  <2>1. DOMAIN next = DOMAIN index
    BY DEF RevokeGrant
  <2>2. ASSUME NEW g \in DOMAIN index
        PROVE  /\ DOMAIN next[g] = IndexRow
               /\ next[g].member_id = index[g].member_id /\ next[g].role = index[g].role
               /\ index[g].revoked \/ g = gid => next[g].revoked
    <3>1. DOMAIN index[g] = IndexRow
      BY <1>2
    <3>2. next[g] = IF g = gid THEN [index[g] EXCEPT !.revoked = TRUE] ELSE index[g]
      BY DEF RevokeGrant
    <3> HIDE DEF next
    <3> HIDE DEF gid
    <3> QED BY <3>1, <3>2 DEF IndexRow
  <2>3. \A j \in 1 .. i : IsControl(batch[j], "grant")
                           => batch[j].payload.cert.grant_id \in DOMAIN next
    <3> HIDE DEF next
    <3> QED BY <1>0, <1>1, <2>0, <2>1
  <2>5. ASSUME NEW g \in DOMAIN index, Barred(gone, batch, i, g) PROVE next[g].revoked
    <3>1. index[g].revoked \/ g = gid
      BY <1>7, <2>5 DEF Asserting
    <3> HIDE DEF next, gid
    <3> QED BY <2>2, <3>1
  <2>4. IndexView(db, batch, i, next)
    <3> HIDE DEF next
    <3> QED BY <1>2, <1>3, <2>1, <2>2, <2>3, <2>5 DEF IndexView, gone
  <2> QED BY <2>4
<1> QED BY <1>4, <1>5, <1>6

LEMMA WalkStepView ==
  ASSUME NEW db, NEW S, NEW batch \in Seq(S), NEW i \in 1 .. Len(batch), NEW walk,
         WalkView(db, batch, i - 1, walk), walk.fault = Ok,
         WalkStep(db, walk, batch[i], i).fault = Ok
  PROVE  WalkView(db, batch, i, WalkStep(db, walk, batch[i], i))
<1> DEFINE op == batch[i]
           next == WalkStep(db, walk, op, i)
<1>0. i \in Nat \ {0} /\ \A j : j \in 1 .. i <=> j \in 1 .. i - 1 \/ j = i
  OBVIOUS
<1>1. /\ DOMAIN walk = WalkFields
      /\ IndexView(db, batch, i - 1, walk.index)
      /\ EpochView(db, batch, i - 1, walk.epoch)
      /\ KindView(batch, i - 1, walk.kinds)
      /\ CompactionView(batch, i - 1, walk.compactions)
      /\ ClaimView(batch, i - 1, walk.claimed)
  BY DEF WalkView
<1>2. CASE op.op_class # OP_CLASS_CONTROL
  <2>1. /\ DOMAIN next = WalkFields
        /\ next.index = walk.index /\ next.epoch = walk.epoch
        /\ next.kinds = walk.kinds
        /\ next.compactions = walk.compactions \cup
             IF op.op_class = OP_CLASS_COMPACTION THEN {op.op_id} ELSE {}
        /\ next.claimed = walk.claimed \cup IF IsPrune(op) THEN TargetSeqs(op) ELSE {}
    BY <1>1, <1>2, ContentPasses
  <2>2. \A type : ~IsControl(op, type)
    BY <1>2 DEF IsControl
  <2> HIDE DEF next
  <2>3. IndexView(db, batch, i, next.index)
    BY <1>0, <1>1, <2>1, <2>2, IndexStep
  <2>4. EpochView(db, batch, i, next.epoch)
    BY <1>0, <1>1, <2>1, <2>2 DEF EpochView
  <2>5. KindView(batch, i, next.kinds)
    BY <1>0, <1>1, <2>1 DEF KindView
  <2>6. CompactionView(batch, i, next.compactions)
    BY <1>0, <1>1, <2>1 DEF CompactionView
  <2>7. ClaimView(batch, i, next.claimed)
    BY <1>0, <1>1, <2>1 DEF ClaimView
  <2>8. WalkView(db, batch, i, next)
    BY <2>1, <2>3, <2>4, <2>5, <2>6, <2>7 DEF WalkView
  <2> QED BY <2>8 DEF next
<1>3. CASE op.op_class = OP_CLASS_CONTROL
  <2> DEFINE payload == op.payload
             type == payload.control_type
             cert == payload.cert
  <2>1. /\ DecodeControlPayload(op) = Ok
        /\ TypeFault(db, walk, op, i) = Ok
        /\ next = Staged(walk, payload)
    BY <1>1, <1>3, ControlPasses
  <2>2. type \in SERVED_CONTROL_TYPES
    BY <2>1, PayloadPasses
  <2>3. /\ DOMAIN next = WalkFields
        /\ next.compactions = walk.compactions /\ next.claimed = walk.claimed
        /\ next.index = CASE type = "grant" -> AddGrant(walk.index, cert)
                          [] type = "revoke" -> RevokeGrant(walk.index, cert.grant_id)
                          [] OTHER -> walk.index
        /\ next.epoch = IF type = "rotate" THEN payload.rotate.to_epoch ELSE walk.epoch
        /\ next.kinds =
             IF type \in {"workspace_genesis", "member_register"}
             THEN [m \in DOMAIN walk.kinds \cup {cert.keys.member_id} |->
                     IF m = cert.keys.member_id THEN cert.keys.member_kind
                     ELSE walk.kinds[m]]
             ELSE walk.kinds
    <3> HIDE DEF next, op
    <3> QED BY <1>1, <2>1, <2>2, StagedFields
  <2>4. \A t : IsControl(op, t) <=> type = t
    BY <1>3 DEF IsControl
  <2>5. ~IsPrune(op) /\ op.op_class # OP_CLASS_COMPACTION
    BY <1>3 DEF IsPrune, OP_CLASS_CONTROL, OP_CLASS_PRUNE, OP_CLASS_COMPACTION
  <2>6. type = "rotate" => /\ payload.rotate.to_epoch \in 0 .. MaxKeyEpoch
                           /\ payload.rotate.to_epoch =
                                (IF walk.epoch = NoEpoch THEN 0 ELSE walk.epoch) + 1
    <3>1. SUFFICES ASSUME type = "rotate"
                   PROVE  /\ payload.rotate.to_epoch \in 0 .. MaxKeyEpoch
                          /\ payload.rotate.to_epoch =
                               (IF walk.epoch = NoEpoch THEN 0 ELSE walk.epoch) + 1
      OBVIOUS
    <3>2. VerifyRotate(payload.rotate, walk.epoch) = Ok
      BY <2>1, <3>1 DEF TypeFault
    <3>3. RotateFault(payload.rotate) = Ok
      BY <2>1, <3>1, PayloadPasses
    <3> QED BY <3>2, <3>3, RotatePasses
  <2> HIDE DEF next
  <2>7. IndexView(db, batch, i, next.index)
    <3> HIDE DEF type
    <3>1. CASE type = "grant"
      BY <1>0, <1>1, <2>3, <2>4, <3>1, IndexStep
    <3>2. CASE type = "revoke"
      BY <1>0, <1>1, <2>3, <2>4, <3>2, IndexStep
    <3>3. CASE type # "grant" /\ type # "revoke"
      BY <1>0, <1>1, <2>3, <2>4, <3>3, IndexStep
    <3> QED BY <3>1, <3>2, <3>3
  <2>8. EpochView(db, batch, i, next.epoch)
    <3>1. CASE type = "rotate"
      <4> DEFINE e == payload.rotate.to_epoch
      <4>1. MintsEpoch(op, e) /\ next.epoch = e
        BY <2>3, <2>4, <3>1 DEF MintsEpoch
      <4>2. e \in 0 .. MaxKeyEpoch /\ e = (IF walk.epoch = NoEpoch THEN 0 ELSE walk.epoch) + 1
        BY <2>6, <3>1
      <4> HIDE DEF e, op
      <4>3. CASE walk.epoch = NoEpoch /\ DOMAIN db.epochs = {}
                 /\ \A j \in 1 .. i - 1 : ~IsControl(batch[j], "rotate")
        <5>1. e = 1 /\ e \in 1 .. MaxKeyEpoch
          BY <4>2, <4>3, MaxKeyEpochAssumption
        <5>2. \A j \in 1 .. i : IsControl(batch[j], "rotate")
                                  => batch[j].payload.rotate.to_epoch \in 1 .. e
          BY <1>0, <4>3, <5>1 DEF e, op
        <5>3. \E j \in 1 .. i : MintsEpoch(batch[j], e)
          BY <1>0, <4>1 DEF op
        <5> QED BY <4>1, <4>3, <5>1, <5>2, <5>3 DEF EpochView
      <4>4. CASE ~(walk.epoch = NoEpoch /\ DOMAIN db.epochs = {}
                   /\ \A j \in 1 .. i - 1 : ~IsControl(batch[j], "rotate"))
        <5>1. /\ walk.epoch \in 1 .. MaxKeyEpoch
              /\ DOMAIN db.epochs \subseteq 1 .. walk.epoch
              /\ \A j \in 1 .. i - 1 : IsControl(batch[j], "rotate")
                            => batch[j].payload.rotate.to_epoch \in 1 .. walk.epoch
          BY <1>1, <4>4 DEF EpochView
        <5>2. e = walk.epoch + 1 /\ e \in 1 .. MaxKeyEpoch
          BY <4>2, <5>1, MaxKeyEpochAssumption DEF NoEpoch
        <5>3. 1 .. walk.epoch \subseteq 1 .. e /\ e \in 1 .. e
          BY <5>1, <5>2
        <5>4. \A j \in 1 .. i : IsControl(batch[j], "rotate")
                                  => batch[j].payload.rotate.to_epoch \in 1 .. e
          BY <1>0, <5>1, <5>3 DEF e, op
        <5>5. \E j \in 1 .. i : MintsEpoch(batch[j], e)
          BY <1>0, <4>1 DEF op
        <5>6. DOMAIN db.epochs \subseteq 1 .. e
          BY <5>1, <5>3
        <5> QED BY <4>1, <5>2, <5>4, <5>5, <5>6 DEF EpochView
      <4> QED BY <4>3, <4>4
    <3>2. CASE type # "rotate"
      BY <1>0, <1>1, <2>3, <2>4, <3>2 DEF EpochView
    <3> QED BY <3>1, <3>2
  <2>9. KindView(batch, i, next.kinds)
    <3>1. CASE type \in {"workspace_genesis", "member_register"}
      <4>1. IsRegistration(op)
        BY <2>4, <3>1 DEF IsRegistration
      <4> HIDE DEF type
      <4>2. next.kinds = [m \in DOMAIN walk.kinds \cup {cert.keys.member_id} |->
                            IF m = cert.keys.member_id THEN cert.keys.member_kind
                            ELSE walk.kinds[m]]
        BY <2>3, <3>1
      <4>3. ASSUME NEW m \in DOMAIN next.kinds
            PROVE  \E j \in 1 .. i : /\ IsRegistration(batch[j])
                                     /\ batch[j].payload.cert.keys.member_id = m
                                     /\ batch[j].payload.cert.keys.member_kind = next.kinds[m]
        <5>1. CASE m = cert.keys.member_id
          BY <1>0, <4>1, <4>2, <5>1
        <5>2. CASE m # cert.keys.member_id
          <6>1. m \in DOMAIN walk.kinds /\ next.kinds[m] = walk.kinds[m]
            BY <4>2, <5>2
          <6> QED BY <1>0, <1>1, <6>1 DEF KindView
        <5> QED BY <5>1, <5>2
      <4> QED BY <4>3 DEF KindView
    <3>2. CASE type \notin {"workspace_genesis", "member_register"}
      BY <1>0, <1>1, <2>3, <3>2 DEF KindView
    <3> QED BY <3>1, <3>2
  <2>10. CompactionView(batch, i, next.compactions)
    BY <1>0, <1>1, <2>3 DEF CompactionView
  <2>11. ClaimView(batch, i, next.claimed)
    BY <1>0, <1>1, <2>3, <2>5 DEF ClaimView
  <2>12. WalkView(db, batch, i, next)
    BY <2>3, <2>7, <2>8, <2>9, <2>10, <2>11 DEF WalkView
  <2> QED BY <2>12 DEF next
<1> QED BY <1>2, <1>3

\* The walk of a batch that passes, position by position.
LEMMA WalkViews ==
  ASSUME NEW db, NEW S, NEW batch \in Seq(S), DOMAIN db.epochs \subseteq 1 .. MaxKeyEpoch,
         VerifyAndAuthorize(db, batch) = Ok
  PROVE  \A i \in 1 .. Len(batch) :
           LET walk == Walk(db, batch)[i - 1]
           IN /\ WalkView(db, batch, i - 1, walk) /\ walk.fault = Ok
              /\ WalkStep(db, walk, batch[i], i).fault = Ok
<1> DEFINE N == Len(batch)
           walk == Walk(db, batch)
           Good == {i \in 0 .. N : WalkView(db, batch, i, walk[i])}
<1>0. N \in Nat
  OBVIOUS
<1>1. /\ walk[0] = WalkStart(db)
      /\ \A i \in 1 .. N : walk[i] = WalkStep(db, walk[i - 1], batch[i], i)
      /\ \A i \in 0 .. N : walk[i].fault = Ok
  BY <1>0, WalkUnfolds, WalkNeverFailed
<1> HIDE DEF walk
<1>2. 0 \in Good
  BY <1>0, <1>1, WalkStartView
<1>3. ASSUME NEW i \in 0 .. N - 1, i \in Good PROVE i + 1 \in Good
  <2>1. i + 1 \in 1 .. N /\ (i + 1) - 1 = i /\ i \in 0 .. N /\ i + 1 \in 0 .. N
    BY <1>0
  <2>2. walk[i + 1] = WalkStep(db, walk[i], batch[i + 1], i + 1)
    BY <1>1, <2>1
  <2>3. WalkView(db, batch, (i + 1) - 1, walk[i])
    BY <1>3, <2>1
  <2>4. walk[i].fault = Ok /\ WalkStep(db, walk[i], batch[i + 1], i + 1).fault = Ok
    BY <1>1, <2>1, <2>2
  <2>5. WalkView(db, batch, i + 1, WalkStep(db, walk[i], batch[i + 1], i + 1))
    BY <2>1, <2>3, <2>4, WalkStepView
  <2> QED BY <2>1, <2>2, <2>5
<1>4. \A i \in 0 .. N : i \in Good
  <2> HIDE DEF Good, N
  <2> QED BY <1>0, <1>2, <1>3, UpTo
<1>5. ASSUME NEW i \in 1 .. N
      PROVE  /\ WalkView(db, batch, i - 1, walk[i - 1]) /\ walk[i - 1].fault = Ok
             /\ WalkStep(db, walk[i - 1], batch[i], i).fault = Ok
  <2>1. i - 1 \in 0 .. N /\ i \in 0 .. N
    BY <1>0
  <2> QED BY <1>1, <1>4, <2>1
<1> QED BY <1>5 DEF walk

-----------------------------------------------------------------------------
(* What the door vouches for: of each op of a batch it admits, alone and   *)
(* against the tables and the ops before it.                               *)

WellFormed(op) ==
  /\ op.op_class \in SERVED_OP_CLASSES
  /\ op.op_class = OP_CLASS_CONTROL => op.payload.control_type \in SERVED_CONTROL_TYPES
  /\ IsRegistration(op) => /\ op.author_seq = 1
                           /\ op.payload.cert.keys.member_id = op.author_member_id
  /\ IsControl(op, "grant") =>
       /\ op.payload.cert.member_id \in Member
       /\ op.payload.cert.role = ROLE_OWNER => op.payload.cert.signer = RootPk
  /\ IsControl(op, "rotate") => op.payload.rotate.to_epoch \in 1 .. MaxKeyEpoch

FoundingVouched(db, batch, i) ==
  /\ IsControl(batch[i], "workspace_genesis") => i = 1 /\ db.genesis = Null
  /\ db.genesis = Null => IsControl(batch[1], "workspace_genesis")

RoleVouched(db, batch, i) ==
  \/ RootSigned(batch[i])
  \/ \E g \in DOMAIN db.grants :
       /\ db.grants[g].member_id = batch[i].author_member_id
       /\ db.grants[g].role \in ROLE_OP_CLASS_MATRIX[batch[i].op_class]
  \/ \E j \in 1 .. i - 1 :
       /\ IsControl(batch[j], "grant")
       /\ batch[j].payload.cert.member_id = batch[i].author_member_id
       /\ batch[j].payload.cert.role \in ROLE_OP_CLASS_MATRIX[batch[i].op_class]

\* The same of a grant that was not revoked: not in gone, and not by an op
\* before.
LiveVouched(db, gone, batch, i) ==
  \/ RootSigned(batch[i])
  \/ \E g : LET m == batch[i].author_member_id
                roles == ROLE_OP_CLASS_MATRIX[batch[i].op_class]
            IN /\ ~Barred(gone, batch, i - 1, g)
               /\ \E role \in roles : \/ GrantStored(db, g, m, role)
                                      \/ \E j \in 1 .. i - 1 :
                                           GrantAsserted(batch[j], g, m, role)

GrantVouched(db, batch, i) ==
  LET cert == batch[i].payload.cert
  IN IsControl(batch[i], "grant") =>
       /\ \/ IsReplay(db, batch[i])
          \/ /\ cert.grant_id \notin DOMAIN db.grants
             /\ \A j \in 1 .. i - 1 : IsControl(batch[j], "grant")
                                        => batch[j].payload.cert.grant_id # cert.grant_id
       /\ IsPreferences =>
            \/ db.chained[cert.member_id] = MEMBER_KIND_DEVICE
            \/ \E j \in 1 .. i - 1 :
                 /\ IsRegistration(batch[j])
                 /\ batch[j].payload.cert.keys.member_id = cert.member_id
                 /\ batch[j].payload.cert.keys.member_kind = MEMBER_KIND_DEVICE

RevokeVouched(db, batch, i) ==
  LET gid == batch[i].payload.cert.grant_id
  IN IsControl(batch[i], "revoke") =>
       \/ gid \in DOMAIN db.grants
       \/ \E j \in 1 .. i - 1 : /\ IsControl(batch[j], "grant")
                                /\ batch[j].payload.cert.grant_id = gid

EpochReached(db, batch, i, e) ==
  e \in DOMAIN db.epochs \/ \E j \in 1 .. i - 1 : MintsEpoch(batch[j], e)

RotateVouched(db, batch, i) ==
  LET e == batch[i].payload.rotate.to_epoch
  IN IsControl(batch[i], "rotate") =>
       /\ e = 1 \/ EpochReached(db, batch, i, e - 1)
       /\ \A j \in 1 .. i - 1 : IsControl(batch[j], "rotate")
                                  => batch[j].payload.rotate.to_epoch \in 1 .. e - 1

SealVouched(db, batch, i) ==
  batch[i].op_class # OP_CLASS_CONTROL =>
    \/ /\ DOMAIN db.epochs = {}
       /\ \A j \in 1 .. i - 1 : ~IsControl(batch[j], "rotate")
    \/ \E c \in 1 .. MaxKeyEpoch :
         EpochReached(db, batch, i, c) /\ ~(batch[i].key_epoch > c)

PruneVouched(db, batch, i) ==
  LET op == batch[i]
  IN IsPrune(op) =>
       /\ TargetSeqs(op) # {}
       /\ \A t \in Targets(op.payload) :
            /\ t.seq \in DOMAIN db.log
            /\ ~IsCompactionExempt(db.log[t.seq].op_class)
            /\ t.author_seq = db.log[t.seq].author_seq
       /\ \A j \in 1 .. i - 1 :
            IsPrune(batch[j]) => \/ TargetSeqs(batch[j]) \cap TargetSeqs(op) = {}
                                 \/ IsReplay(db, op)
       /\ \/ \E j \in 1 .. i - 1 : /\ batch[j].op_class = OP_CLASS_COMPACTION
                                   /\ batch[j].op_id = op.payload.compaction_op_id
          \/ \E seq \in DOMAIN db.log :
               /\ db.log[seq].op_id = op.payload.compaction_op_id
               /\ db.log[seq].author_member_id = op.author_member_id
               /\ db.log[seq].op_class = OP_CLASS_COMPACTION

Vouched(db, batch, i) ==
  /\ WellFormed(batch[i])
  /\ FoundingVouched(db, batch, i)
  /\ RoleVouched(db, batch, i)
  /\ LiveVouched(db, RevokedGrants(db), batch, i)
  /\ GrantVouched(db, batch, i)
  /\ RevokeVouched(db, batch, i)
  /\ RotateVouched(db, batch, i)
  /\ SealVouched(db, batch, i)
  /\ PruneVouched(db, batch, i)

LEMMA IndexRole ==
  ASSUME NEW db, NEW batch, NEW i, NEW index, IndexView(db, batch, i - 1, index),
         RequireRole(index, batch[i].author_member_id, batch[i].op_class) = Ok
  PROVE  RoleVouched(db, batch, i) /\ LiveVouched(db, RevokedGrants(db), batch, i)
<1>1. PICK g \in DOMAIN index :
        /\ index[g].member_id = batch[i].author_member_id
        /\ index[g].role \in ROLE_OP_CLASS_MATRIX[batch[i].op_class]
        /\ ~index[g].revoked
  BY RolePasses
<1>2. \/ GrantStored(db, g, index[g].member_id, index[g].role)
      \/ \E j \in 1 .. i - 1 : GrantAsserted(batch[j], g, index[g].member_id, index[g].role)
  BY <1>1 DEF IndexView
<1>3. RoleVouched(db, batch, i)
  BY <1>1, <1>2 DEF GrantStored, GrantAsserted, RoleVouched
<1>4. ~Barred(RevokedGrants(db), batch, i - 1, g)
  BY <1>1 DEF IndexView
<1>5. LiveVouched(db, RevokedGrants(db), batch, i)
  BY <1>1, <1>2, <1>4 DEF LiveVouched
<1> QED BY <1>3, <1>5

\* The walk sees a founding op first in its batch, or not at all.
LEMMA FoundingFirst ==
  ASSUME NEW db, NEW S, NEW batch \in Seq(S), DOMAIN db.epochs \subseteq 1 .. MaxKeyEpoch,
         VerifyAndAuthorize(db, batch) = Ok, Len(batch) > 0
  PROVE  /\ \A i \in 1 .. Len(batch) : IsControl(batch[i], "workspace_genesis")
                                         => i = 1 /\ db.genesis = Null
         /\ db.genesis = Null => IsControl(batch[1], "workspace_genesis")
<1> DEFINE walk(i) == Walk(db, batch)[i - 1]
<1>1. ASSUME NEW i \in 1 .. Len(batch)
      PROVE  /\ DOMAIN walk(i) = WalkFields /\ walk(i).fault = Ok
             /\ WalkStep(db, walk(i), batch[i], i).fault = Ok
  BY WalkViews DEF WalkView
<1>2. 1 \in 1 .. Len(batch) /\ Len(batch) \in Nat
  OBVIOUS
<1>3. walk(1).exists <=> db.genesis # Null
  <2>1. walk(1) = WalkStart(db)
    BY <1>2, WalkUnfolds
  <2>2. WalkStart(db).exists = (db.genesis # Null)
    BY DEF WalkStart
  <2> HIDE DEF walk
  <2> QED BY <2>1, <2>2
<1> HIDE DEF walk
<1>4. ASSUME NEW i \in 1 .. Len(batch), IsControl(batch[i], "workspace_genesis")
      PROVE  i = 1 /\ db.genesis = Null
  <2>1. TypeFault(db, walk(i), batch[i], i) = Ok
    BY <1>1, <1>4, ControlPasses DEF IsControl
  <2>2. VerifyGenesis(walk(i), batch[i], i) = Ok
    BY <1>4, <2>1 DEF TypeFault, IsControl
  <2>3. i = 1 /\ ~walk(i).exists
    BY <2>2, GenesisPasses
  <2> QED BY <1>3, <2>3
<1>5. ASSUME db.genesis = Null PROVE IsControl(batch[1], "workspace_genesis")
  <2>1. ~walk(1).exists
    BY <1>3, <1>5
  <2>2. batch[1].op_class = OP_CLASS_CONTROL
    BY <1>1, <1>2, <2>1, ContentPasses
  <2> QED BY <1>1, <1>2, <2>1, <2>2, ControlPasses DEF IsControl
<1> QED BY <1>4, <1>5

LEMMA ContentVouched ==
  ASSUME NEW db, NEW S, NEW batch \in Seq(S), NEW i \in 1 .. Len(batch), NEW walk,
         WalkView(db, batch, i - 1, walk), walk.fault = Ok,
         WalkStep(db, walk, batch[i], i).fault = Ok,
         batch[i].op_class # OP_CLASS_CONTROL,
         IsPrune(batch[i]) => batch[i].payload.targets \in Seq(Targets(batch[i].payload)),
         \A j \in 1 .. Len(batch) : batch[j].author_member_id = batch[i].author_member_id
  PROVE  /\ RoleVouched(db, batch, i) /\ LiveVouched(db, RevokedGrants(db), batch, i)
         /\ SealVouched(db, batch, i)
         /\ PruneVouched(db, batch, i)
<1> DEFINE op == batch[i]
<1>1. /\ DOMAIN walk = WalkFields
      /\ IndexView(db, batch, i - 1, walk.index)
      /\ EpochView(db, batch, i - 1, walk.epoch)
      /\ CompactionView(batch, i - 1, walk.compactions)
      /\ ClaimView(batch, i - 1, walk.claimed)
  BY DEF WalkView
<1>2. /\ RequireRole(walk.index, op.author_member_id, op.op_class) = Ok
      /\ RequireFreshKeyEpoch(op, walk.epoch) = Ok
      /\ IsPrune(op) => VerifyPrune(db, walk, op) = Ok
  BY <1>1, ContentPasses
<1>3. RoleVouched(db, batch, i) /\ LiveVouched(db, RevokedGrants(db), batch, i)
  BY <1>1, <1>2, IndexRole
<1>4. SealVouched(db, batch, i)
  <2>1. walk.epoch = NoEpoch \/ ~(op.key_epoch > walk.epoch)
    BY <1>2, FreshKeyEpochPasses
  <2>2. walk.epoch \in 1 .. MaxKeyEpoch => walk.epoch # NoEpoch
    BY MaxKeyEpochAssumption DEF NoEpoch
  <2>3. CASE walk.epoch = NoEpoch
    BY <1>1, <2>2, <2>3 DEF EpochView, SealVouched
  <2>4. CASE walk.epoch # NoEpoch
    <3>1. walk.epoch \in 1 .. MaxKeyEpoch /\ EpochReached(db, batch, i, walk.epoch)
      BY <1>1, <2>4 DEF EpochView, EpochReached
    <3> QED BY <2>1, <2>4, <3>1 DEF SealVouched
  <2> QED BY <2>3, <2>4
<1>5. PruneVouched(db, batch, i)
  <2> SUFFICES ASSUME IsPrune(op) PROVE PruneVouched(db, batch, i)
    BY DEF PruneVouched
  <2>1. /\ CompactionKnown(db, walk, op)
        /\ Targets(op.payload) # {}
        /\ \A t \in Targets(op.payload) : PruneTargetRefusal(db, walk, op, t) = Ok
    BY <1>2, PrunePasses
  <2>2. TargetSeqs(op) # {}
    BY <2>1 DEF TargetSeqs
  <2>3. ASSUME NEW t \in Targets(op.payload)
        PROVE  /\ t.seq \in DOMAIN db.log
               /\ ~IsCompactionExempt(db.log[t.seq].op_class)
               /\ t.author_seq = db.log[t.seq].author_seq
               /\ t.seq \in walk.claimed => IsReplay(db, op)
    BY <2>1, TargetPasses
  <2>4. ASSUME NEW j \in 1 .. i - 1, IsPrune(batch[j]),
               TargetSeqs(batch[j]) \cap TargetSeqs(op) # {}
        PROVE  IsReplay(db, op)
    <3>1. PICK q \in TargetSeqs(op) : q \in TargetSeqs(batch[j])
      BY <2>4
    <3>2. q \in walk.claimed
      BY <1>1, <2>4, <3>1 DEF ClaimView
    <3> QED BY <2>3, <3>1, <3>2 DEF TargetSeqs
  <2>5. \/ \E j \in 1 .. i - 1 : /\ batch[j].op_class = OP_CLASS_COMPACTION
                                 /\ batch[j].op_id = op.payload.compaction_op_id
        \/ \E seq \in DOMAIN db.log :
             /\ db.log[seq].op_id = op.payload.compaction_op_id
             /\ db.log[seq].author_member_id = op.author_member_id
             /\ db.log[seq].op_class = OP_CLASS_COMPACTION
    BY <1>1, <2>1 DEF CompactionKnown, CompactionView
  <2> QED BY <2>2, <2>3, <2>4, <2>5 DEF PruneVouched
<1> QED BY <1>3, <1>4, <1>5

LEMMA ControlVouched ==
  ASSUME NEW db, NEW S, NEW batch \in Seq(S), NEW i \in 1 .. Len(batch), NEW walk,
         WalkView(db, batch, i - 1, walk), walk.fault = Ok,
         WalkStep(db, walk, batch[i], i).fault = Ok,
         batch[i].op_class = OP_CLASS_CONTROL
  PROVE  /\ WellFormed(batch[i])
         /\ RoleVouched(db, batch, i) /\ LiveVouched(db, RevokedGrants(db), batch, i)
         /\ GrantVouched(db, batch, i)
         /\ RevokeVouched(db, batch, i)
         /\ RotateVouched(db, batch, i)
<1> DEFINE op == batch[i]
           cert == op.payload.cert
<1>1. /\ DOMAIN walk = WalkFields
      /\ IndexView(db, batch, i - 1, walk.index)
      /\ EpochView(db, batch, i - 1, walk.epoch)
      /\ KindView(batch, i - 1, walk.kinds)
  BY DEF WalkView
<1>2. /\ DecodeControlPayload(op) = Ok
      /\ \/ RootSigned(op)
         \/ RequireRole(walk.index, op.author_member_id, OP_CLASS_CONTROL) = Ok
      /\ TypeFault(db, walk, op, i) = Ok
  BY <1>1, ControlPasses
<1>3. /\ op.payload.control_type \in SERVED_CONTROL_TYPES
      /\ op.payload.control_type = "rotate" => RotateFault(op.payload.rotate) = Ok
  BY <1>2, PayloadPasses
<1>4. IsControl(op, "workspace_genesis")
        => op.author_seq = 1 /\ cert.keys.member_id = op.author_member_id
  BY <1>2, GenesisPasses DEF TypeFault, IsControl
<1>5. IsControl(op, "member_register")
        => op.author_seq = 1 /\ cert.keys.member_id = op.author_member_id
  BY <1>2, RegisterPasses DEF TypeFault, IsControl
<1>6. IsControl(op, "grant") =>
        /\ cert.role = ROLE_OWNER => cert.signer = RootPk
        /\ cert.member_id \in Member
        /\ IsPreferences => GranteeKind(db, walk, cert.member_id) = MEMBER_KIND_DEVICE
        /\ cert.grant_id \in DOMAIN walk.index => IsReplay(db, op)
  <2> SUFFICES ASSUME IsControl(op, "grant")
               PROVE  /\ cert.role = ROLE_OWNER => cert.signer = RootPk
                      /\ cert.member_id \in Member
                      /\ IsPreferences => GranteeKind(db, walk, cert.member_id) = MEMBER_KIND_DEVICE
                      /\ cert.grant_id \in DOMAIN walk.index => IsReplay(db, op)
    OBVIOUS
  <2>1. VerifyGrant(db, walk, op) = Ok
    BY <1>2 DEF TypeFault, IsControl
  <2> HIDE DEF op
  <2> QED BY <2>1, GrantPasses
<1>7. IsControl(op, "revoke") => cert.grant_id \in DOMAIN walk.index
  BY <1>2, RevokePasses DEF TypeFault, IsControl
<1> DEFINE e == op.payload.rotate.to_epoch
<1>8. IsControl(op, "rotate") =>
        /\ e \in 0 .. MaxKeyEpoch
        /\ e = (IF walk.epoch = NoEpoch THEN 0 ELSE walk.epoch) + 1
  BY <1>2, <1>3, RotatePasses DEF TypeFault, IsControl
<1>9. IsControl(op, "rotate") =>
        /\ e \in 1 .. MaxKeyEpoch
        /\ e = 1 \/ EpochReached(db, batch, i, e - 1)
        /\ \A j \in 1 .. i - 1 : IsControl(batch[j], "rotate")
                                   => batch[j].payload.rotate.to_epoch \in 1 .. e - 1
  <2> SUFFICES ASSUME IsControl(op, "rotate")
               PROVE  /\ e \in 1 .. MaxKeyEpoch
                      /\ e = 1 \/ EpochReached(db, batch, i, e - 1)
                      /\ \A j \in 1 .. i - 1 : IsControl(batch[j], "rotate")
                                   => batch[j].payload.rotate.to_epoch \in 1 .. e - 1
    OBVIOUS
  <2> HIDE DEF e, op
  <2>1. CASE walk.epoch = NoEpoch
    <3>1. e = 1 /\ e \in 1 .. MaxKeyEpoch
      BY <1>8, <2>1
    <3>2. ~(walk.epoch \in 1 .. MaxKeyEpoch)
      BY <2>1 DEF NoEpoch
    <3> QED BY <1>1, <3>1, <3>2 DEF EpochView
  <2>2. CASE walk.epoch # NoEpoch
    <3>1. walk.epoch \in 1 .. MaxKeyEpoch
      BY <1>1, <2>2 DEF EpochView
    <3>2. e - 1 = walk.epoch /\ e \in 1 .. MaxKeyEpoch
      BY <1>8, <2>2, <3>1, MaxKeyEpochAssumption
    <3> QED BY <1>1, <2>2, <3>1, <3>2 DEF EpochView, EpochReached
  <2> QED BY <2>1, <2>2
<1>10. RoleVouched(db, batch, i) /\ LiveVouched(db, RevokedGrants(db), batch, i)
  BY <1>1, <1>2, IndexRole DEF RoleVouched, LiveVouched
<1>11. GrantVouched(db, batch, i)
  <2> SUFFICES ASSUME IsControl(op, "grant") PROVE GrantVouched(db, batch, i)
    BY DEF GrantVouched
  <2>1. \/ IsReplay(db, op)
        \/ /\ cert.grant_id \notin DOMAIN db.grants
           /\ \A j \in 1 .. i - 1 : IsControl(batch[j], "grant")
                                      => batch[j].payload.cert.grant_id # cert.grant_id
    BY <1>1, <1>6 DEF IndexView
  <2>2. ASSUME IsPreferences
        PROVE  \/ db.chained[cert.member_id] = MEMBER_KIND_DEVICE
               \/ \E j \in 1 .. i - 1 :
                    /\ IsRegistration(batch[j])
                    /\ batch[j].payload.cert.keys.member_id = cert.member_id
                    /\ batch[j].payload.cert.keys.member_kind = MEMBER_KIND_DEVICE
    BY <1>1, <1>6, <2>2 DEF GranteeKind, KindView
  <2> QED BY <2>1, <2>2 DEF GrantVouched
<1>12. RevokeVouched(db, batch, i)
  BY <1>1, <1>7 DEF RevokeVouched, IndexView, GrantStored, GrantAsserted
<1>13. RotateVouched(db, batch, i)
  BY <1>9 DEF RotateVouched
<1>14. WellFormed(op)
  BY <1>3, <1>4, <1>5, <1>6, <1>9 DEF WellFormed, IsRegistration, SERVED_OP_CLASSES
<1> QED BY <1>10, <1>11, <1>12, <1>13, <1>14

\* A batch the door admits is vouched for op by op, whatever the tables and
\* however long the batch: founded first, written by a member who held an
\* unrevoked grant whose role admits its class, granting under a fresh id to a known device, revoking a grant
\* that exists, rotating to the next epoch, sealed under a reached one, pruning
\* rows it may.
THEOREM AdmittedIsVouched ==
  ASSUME NEW db, NEW token, NEW S, NEW batch \in Seq(S), Len(batch) > 0,
         DOMAIN db.epochs \subseteq 1 .. MaxKeyEpoch,
         \A i \in 1 .. Len(batch) : IsPrune(batch[i]) =>
           batch[i].payload.targets \in Seq(Targets(batch[i].payload)),
         Verdict(db, token, batch) = Ok
  PROVE  \A i \in 1 .. Len(batch) :
           batch[i].author_member_id = token /\ Vouched(db, batch, i)
<1>1. DOMAIN batch = 1 .. Len(batch)
  OBVIOUS
<1>2. /\ \A i \in 1 .. Len(batch) : /\ batch[i].author_member_id = token
                                    /\ batch[i].op_class \in SERVED_OP_CLASSES
      /\ VerifyAndAuthorize(db, batch) = Ok
  BY <1>1, VerdictPasses
<1> SUFFICES ASSUME NEW i \in 1 .. Len(batch) PROVE Vouched(db, batch, i)
  BY <1>2
<1> DEFINE walk == Walk(db, batch)[i - 1]
<1>3. /\ WalkView(db, batch, i - 1, walk) /\ walk.fault = Ok
      /\ WalkStep(db, walk, batch[i], i).fault = Ok
  BY <1>2, WalkViews
<1>4. FoundingVouched(db, batch, i)
  BY <1>2, FoundingFirst DEF FoundingVouched
<1> HIDE DEF walk
<1>5. CASE batch[i].op_class = OP_CLASS_CONTROL
  <2>1. /\ WellFormed(batch[i]) /\ RoleVouched(db, batch, i)
        /\ LiveVouched(db, RevokedGrants(db), batch, i) /\ GrantVouched(db, batch, i)
        /\ RevokeVouched(db, batch, i) /\ RotateVouched(db, batch, i)
    BY <1>3, <1>5, ControlVouched
  <2>2. SealVouched(db, batch, i) /\ PruneVouched(db, batch, i)
    BY <1>5 DEF SealVouched, PruneVouched, IsPrune, OP_CLASS_CONTROL, OP_CLASS_PRUNE
  <2> QED BY <1>4, <2>1, <2>2 DEF Vouched
<1>6. CASE batch[i].op_class # OP_CLASS_CONTROL
  <2>1. /\ RoleVouched(db, batch, i) /\ LiveVouched(db, RevokedGrants(db), batch, i)
        /\ SealVouched(db, batch, i) /\ PruneVouched(db, batch, i)
    BY <1>2, <1>3, <1>6, ContentVouched
  <2>2. \A type : ~IsControl(batch[i], type)
    BY <1>6 DEF IsControl
  <2>3. /\ WellFormed(batch[i]) /\ GrantVouched(db, batch, i)
        /\ RevokeVouched(db, batch, i) /\ RotateVouched(db, batch, i)
    BY <1>2, <1>6, <2>2
       DEF WellFormed, IsRegistration, GrantVouched, RevokeVouched, RotateVouched
  <2> QED BY <1>4, <2>1, <2>3 DEF Vouched
<1> QED BY <1>5, <1>6

==============================================================================

------------------------------ MODULE MCServer ------------------------------
(***************************************************************************)
(* Instances of GrantHistory.  A scene is a log some devices have already      *)
(* written one batch after the other, and the batches they now hold and    *)
(* post at once; its tables are what that log stands for.  Every scene     *)
(* also holds batches the door must refuse.  The sequence behind the seqs  *)
(* is shared by all workspaces, so an empty log need not start at 1.       *)
(***************************************************************************)
EXTENDS GrantHistory, SequencesExt

CONSTANTS Scenes

W == "w"
Root == "R"

-----------------------------------------------------------------------------
(* Devices' ops.                                                           *)

Op(m, n, id, class, payload) ==
  [op_id |-> id, author_member_id |-> m, author_seq |-> n, op_class |-> class,
   suite |-> SUITE_PLAINTEXT_V1, key_epoch |-> 0, workspace_id |-> W,
   body |-> FrameBody(8), payload |-> payload]

Opaque == [opaque |-> TRUE]
Content(m, n, id) == Op(m, n, id, OP_CLASS_CONTENT, Opaque)
Sealed(m, n, id, epoch) ==
  [Content(m, n, id) EXCEPT
     !.suite = SUITE_AEAD_V1, !.key_epoch = epoch,
     !.body = [@ EXCEPT !.length = @ + AEAD_TAG_BYTES]]
Compaction(m, n, id) == Op(m, n, id, OP_CLASS_COMPACTION, Opaque)
Attest(seq, op) == [seq |-> seq, author_member_id |-> op.author_member_id,
                    author_seq |-> op.author_seq, envelope_hash |-> op.op_id]
Prune(m, n, id, compaction, targets) ==
  Op(m, n, id, OP_CLASS_PRUNE, [compaction_op_id |-> compaction, targets |-> targets])

Control(m, n, id, type, authority, cert) ==
  Op(m, n, id, OP_CLASS_CONTROL,
     CertifiedPayload(type, authority, cert))
Keys(m, kind) ==
  [member_id |-> m, member_kind |-> kind, sign_pk |-> m, sign_key_id |-> KeyId(m),
   kex_pk |-> m, kex_key_id |-> KeyId(m)]
Genesis(m, id) ==
  Control(m, 1, id, "workspace_genesis", GRANTER_ROOT,
    SignGenesisCertificate([workspace_id |-> W, root_pk |-> Root,
                            keys |-> Keys(m, MEMBER_KIND_DEVICE)], Root))
Register(m, id, kind) ==
  Control(m, 1, id, "member_register", GRANTER_ROOT,
    SignRegistrationCertificate([workspace_id |-> W, keys |-> Keys(m, kind)], Root))
Signer(authority) == IF authority = GRANTER_ROOT THEN Root ELSE authority
Grant(m, n, id, authority, gid, grantee, role) ==
  Control(m, n, id, "grant", authority,
    SignGrantCertificate([workspace_id |-> W, grant_id |-> gid, member_id |-> grantee,
                          role |-> role, granter |-> authority], Signer(authority)))
Revoke(m, n, id, authority, gid) ==
  Control(m, n, id, "revoke", authority,
    SignRevokeCertificate(RevokeCertificate(W, gid, authority), Signer(authority)))
Rotate(m, n, id, from) ==
  Op(m, n, id, OP_CLASS_CONTROL,
     RotatePayload([workspace_id |-> W, from_epoch |-> from, to_epoch |-> from + 1]))

Founding(m, gid) == <<Genesis(m, "gen"), Grant(m, 2, gid, GRANTER_ROOT, gid, m, ROLE_OWNER)>>
Joining(m, gid, role) ==
  <<Register(m, "reg", MEMBER_KIND_DEVICE),
    Grant(m, 2, gid, GRANTER_ROOT, gid, m, role)>>

-----------------------------------------------------------------------------
(* Two devices found the workspace, a third joins it.                      *)

Forged == [Genesis("d3", "fake") EXCEPT !.payload.cert.signer = "d3"]
FoundingScene ==
  [log |-> <<>>, next |-> 7,
   posts |-> {Founding("d1", "g1"), Founding("d2", "g2"),
              Joining("d2", "g3", "participant"),
              <<Content("d1", 3, "c3"), Content("d1", 4, "c4")>>,
              <<Content("d1", 3, "c3")>>, <<Content("d2", 3, "x3")>>,
              <<Rotate("d1", 3, "r0", 0)>>,
              <<Forged>>, <<Content("d3", 1, "c1")>>}]

-----------------------------------------------------------------------------
(* Two owners; d3 is a participant whose grant both of them revoke, while   *)
(* each would rotate the key and d3 writes, alone or behind its grant op.  *)

RevokingScene ==
  [log |-> Founding("d1", "g1") \o <<Rotate("d1", 3, "r0", 0)>>
             \o Joining("d2", "g2", ROLE_OWNER) \o Joining("d3", "g3", "participant"),
   next |-> 8,
   posts |-> {<<Revoke("d1", 4, "v", "d1", "g3")>>,
              <<Revoke("d2", 3, "v", "d2", "g3"), Rotate("d2", 4, "r", 1)>>,
              <<Rotate("d1", 5, "r1", 1)>>,
              <<Content("d3", 3, "c3")>>, <<Sealed("d3", 4, "k4", 2)>>,
              <<Joining("d3", "g3", "participant")[2], Content("d3", 3, "c3")>>,
              <<Grant("d2", 3, "up", "d2", "g4", "d3", ROLE_OWNER)>>,
              <<Rotate("d3", 3, "r3", 1)>>}]

-----------------------------------------------------------------------------
(* d1 wrote two rows; d1 and the compactor d2 prune the second at once.    *)

c3 == Content("d1", 3, "c3")
c4 == Content("d1", 4, "c4")
PruningScene ==
  [log |-> Founding("d1", "g1") \o Joining("d2", "g5", "compactor") \o <<c3, c4>>,
   next |-> 7,
   posts |-> {<<Compaction("d1", 5, "k5"),
                Prune("d1", 6, "p6", "k5", <<Attest(5, c3), Attest(6, c4)>>)>>,
              <<Compaction("d2", 3, "k3"),
                Prune("d2", 4, "p4", "k3", <<Attest(6, c4)>>)>>,
              <<Compaction("d2", 3, "k3")>>,
              <<Prune("d2", 4, "q4", "k3", <<Attest(5, c3)>>)>>,
              <<Prune("d2", 5, "p5", "k5", <<Attest(5, c3)>>)>>,
              <<Prune("d1", 5, "p5", "k3", <<Attest(5, c3)>>)>>,
              <<Prune("d2", 3, "p3", "k3", <<[Attest(6, c4) EXCEPT !.author_seq = 3]>>)>>,
              <<Prune("d1", 7, "p7", "k5", <<Attest(1, Genesis("d1", "gen"))>>)>>}]

SceneOf == [founding |-> FoundingScene, revoking |-> RevokingScene,
            pruning |-> PruningScene]
MCBatch == UNION {SceneOf[s].posts : s \in DOMAIN SceneOf}

-----------------------------------------------------------------------------

\* The tables a log written by sequential posts leaves behind.
Certs(l, type) == {q \in DOMAIN l : /\ l[q].op_class = OP_CLASS_CONTROL
                                    /\ l[q].payload.control_type = type}
GrantRows(l) ==
  LET asserted == Certs(l, "grant")
      cert(q) == l[q].payload.cert
  IN [g \in {cert(q).grant_id : q \in asserted} |->
        LET q == CHOOSE r \in asserted : cert(r).grant_id = g
        IN [member_id |-> cert(q).member_id, role |-> cert(q).role,
            granter |-> cert(q).granter, granted_seq |-> q,
            revoked_by_seq |-> Null]]
Kinds(l) ==
  LET registered == Certs(l, "workspace_genesis") \cup Certs(l, "member_register")
      keys(q) == l[q].payload.cert.keys
  IN [m \in Member |->
        IF \E q \in registered : keys(q).member_id = m
        THEN keys(CHOOSE q \in registered : keys(q).member_id = m).member_kind
        ELSE NotChained]

EpochRows(l) ==
  [e \in {l[q].payload.rotate.to_epoch : q \in Certs(l, "rotate")} |->
     CHOOSE q \in Certs(l, "rotate") : l[q].payload.rotate.to_epoch = e]

\* The process may die while the workspace is founded.
MCInit ==
  \E scene \in Scenes :
    LET l == SceneOf[scene].log
    IN /\ log = l
       /\ stamp = [q \in DOMAIN l |-> Null]
       /\ genesis = IF l = <<>> THEN Null ELSE 1
       /\ grants = GrantRows(l)
       /\ epochs = EpochRows(l)
       /\ chained = Kinds(l)
       /\ nextSeq = SceneOf[scene].next
       /\ txn = [s \in Slot |-> Idle]
       /\ transport = Member
       /\ acked = ToSet(l)
       /\ authored = SceneOf[scene].posts
       /\ crashes = IF scene = "founding" THEN 0 ELSE MaxCrashes
       /\ lapsed = [s \in Slot |-> {}]
       /\ barred = [q \in DOMAIN l |-> {}]

MCSpec == MCInit /\ [][HistNext]_histVars /\ Fairness
=============================================================================

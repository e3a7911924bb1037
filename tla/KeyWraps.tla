------------------------------ MODULE KeyWraps ------------------------------
(***************************************************************************)
(* How an epoch key reaches a member and the escrow: the sealed box of a   *)
(* KeyWrap, the wrap under the master wrap key and the digest a rotate     *)
(* signs over the whole set.  Cryptography is symbolic: a public key names *)
(* its secret, a shared secret is the set of the two secrets, a derived    *)
(* key or a digest is what it was computed from, and a sealed text opens   *)
(* under the key, nonce and associated data it was sealed with.            *)
(***************************************************************************)
EXTENDS Envelope, FiniteSets

WRAP_NONCE_BYTES == 24
WORKSPACE_KEY_BYTES == 32
EPHEMERAL_PUBLIC_KEY_BYTES == 32
KEYWRAP_BYTES == EPHEMERAL_PUBLIC_KEY_BYTES + WRAP_NONCE_BYTES
                   + WORKSPACE_KEY_BYTES + AEAD_TAG_BYTES
EPOCH_KEY_ESCROW_WRAP_BYTES == WRAP_NONCE_BYTES + WORKSPACE_KEY_BYTES + AEAD_TAG_BYTES

-----------------------------------------------------------------------------
(* X25519, HKDF and the AEAD.                                              *)

Secret == Nat \ {0}
PublicKey(sk) == [point |-> sk]
LowOrderPoint == [point |-> 0]
PublicKeys == {PublicKey(sk) : sk \in Secret} \cup {LowOrderPoint}

\* libsodium refuses a low-order point, whose product is the same for all.
Scalarmult(sk, pk) == {sk, pk.point}
HkdfSha256(ikm, info) == [ikm |-> ikm, info |-> info]
Seal(plain, aad, nonce, key) ==
  [plain |-> plain, aad |-> aad, nonce |-> nonce, key |-> key]
Authenticates(sealed, aad, nonce, key) ==
  sealed.aad = aad /\ sealed.nonce = nonce /\ sealed.key = key

-----------------------------------------------------------------------------
(* The wrap for a member.  A slot is the workspace, epoch, member and kex  *)
(* key the caller means.                                                   *)

EpochFits(epoch) == epoch \in 0 .. (256 * 256 * 256 * 256) - 1

\* HKDF info and associated data alike.
KeywrapInfo(epk, slot) ==
  [domain |-> "jeeves/keywrap/v1", epk |-> epk, slot |-> slot]

WrapEpochKeyForMember(workspaceKey, kexPk, slot, ephemeral, nonce) ==
  LET info == KeywrapInfo(PublicKey(ephemeral), slot)
      key == HkdfSha256(Scalarmult(ephemeral, kexPk), info)
  IN [length |-> KEYWRAP_BYTES, epk |-> PublicKey(ephemeral), nonce |-> nonce,
      sealed |-> Seal(workspaceKey, info, nonce, key)]

\* The slot is the opener's own idea of it; only epk and nonce are the wrap's.
UnwrapFault(wrap, kexSecret, slot) ==
  LET info == KeywrapInfo(wrap.epk, slot)
      key == HkdfSha256(Scalarmult(kexSecret, wrap.epk), info)
  IN FirstFault(<<
       <<wrap.length # KEYWRAP_BYTES, "malformed_keywrap">>,
       <<wrap.epk = LowOrderPoint, "malformed_keywrap">>,
       <<~Authenticates(wrap.sealed, info, wrap.nonce, key), "aead_failure">> >>)

-----------------------------------------------------------------------------
(* The wrap for the escrow.                                                *)

EpochKeyEscrowInfo(workspace, epoch) ==
  [domain |-> "jeeves/epoch-key-escrow/v1", workspace |-> workspace, epoch |-> epoch]

WrapEpochKeyForEscrow(workspaceKey, masterWrapKey, workspace, epoch, nonce) ==
  [length |-> EPOCH_KEY_ESCROW_WRAP_BYTES, nonce |-> nonce,
   sealed |-> Seal(workspaceKey, EpochKeyEscrowInfo(workspace, epoch), nonce,
                   masterWrapKey)]

EscrowUnwrapFault(wrap, masterWrapKey, workspace, epoch) == FirstFault(<<
  <<wrap.length # EPOCH_KEY_ESCROW_WRAP_BYTES, "malformed_keywrap">>,
  <<~Authenticates(wrap.sealed, EpochKeyEscrowInfo(workspace, epoch), wrap.nonce,
                   masterWrapKey), "aead_failure">> >>)

-----------------------------------------------------------------------------
(* The digest of an upload: entries <<member, kex key id, wrap>>, sorted   *)
(* by the first two before they are hashed.                                *)

Entries(upload) == {upload[i] : i \in DOMAIN upload}

\* put_keywraps refuses an upload that names a member twice.
NamesEachMemberOnce(upload) ==
  \A i, j \in DOMAIN upload : upload[i][1] = upload[j][1] => i = j

\* Sorting forgets the order of an upload and keeps everything else.
KeywrapDigest(epoch, upload, escrowWrap) ==
  [domain |-> "jeeves/keywrap-digest/v1", epoch |-> epoch, count |-> Len(upload),
   wraps |-> Entries(upload), escrow |-> escrowWrap]
=============================================================================

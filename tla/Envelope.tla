------------------------------ MODULE Envelope ------------------------------
(***************************************************************************)
(* The envelope as the server reads it: cleartext header fields, the       *)
(* padding size classes of the body, and the rules that follow from the    *)
(* two alone.  Bytes are abstracted to lengths; a signature or a hash to   *)
(* what it commits to.  A refusal is the code the client is sent, Ok when  *)
(* there is none.                                                          *)
(***************************************************************************)
EXTENDS Integers, Sequences

Ok == "ok"

\* The first check that fails decides the answer: checks is a sequence of
\* <<fails, code>>, in the order the code makes them.
FirstFault(checks) ==
  IF \E i \in DOMAIN checks : checks[i][1]
  THEN checks[CHOOSE i \in DOMAIN checks :
                /\ checks[i][1]
                /\ \A j \in DOMAIN checks : j < i => ~checks[j][1]][2]
  ELSE Ok

-----------------------------------------------------------------------------
(* Suites and operation classes.                                           *)

SUITE_PLAINTEXT_V1 == 0
SUITE_AEAD_V1 == 1
SERVED_SUITES == {SUITE_PLAINTEXT_V1, SUITE_AEAD_V1}

OP_CLASS_CONTENT == 1
OP_CLASS_CONTROL == 2
OP_CLASS_SUGGESTION == 3
OP_CLASS_COMPACTION == 4
OP_CLASS_PRUNE == 5

SERVED_OP_CLASSES ==
  {OP_CLASS_CONTENT, OP_CLASS_CONTROL, OP_CLASS_COMPACTION, OP_CLASS_PRUNE}
PLAINTEXT_REFUSED_AT_KEYED_EPOCH_OP_CLASSES ==
  {OP_CLASS_CONTENT, OP_CLASS_COMPACTION}

\* check_served: what this build stores at all, and the two classes that stay
\* plaintext because the server reads them and holds no key.
CheckServed(header) == FirstFault(<<
  <<header.suite \notin SERVED_SUITES, "unsupported_suite">>,
  <<header.op_class \notin SERVED_OP_CLASSES, "unsupported_op_class">>,
  <<header.suite = SUITE_AEAD_V1 /\ header.op_class = OP_CLASS_CONTROL,
    "encrypted_control_op">>,
  <<header.suite = SUITE_AEAD_V1 /\ header.op_class = OP_CLASS_PRUNE,
    "encrypted_prune_op">> >>)

\* check_suite_at_keyed_epoch: a reader that holds the epoch's key refuses
\* content it could have been sent sealed.
CheckSuiteAtKeyedEpoch(header, holdsEpochKey) == FirstFault(<<
  <</\ holdsEpochKey
    /\ header.op_class \in PLAINTEXT_REFUSED_AT_KEYED_EPOCH_OP_CLASSES
    /\ header.suite = SUITE_PLAINTEXT_V1, "plaintext_at_encrypted_epoch">> >>)

-----------------------------------------------------------------------------
(* Lengths, in bytes.                                                      *)

HEADER_FIELD_BYTES ==
  [suite |-> 1, op_class |-> 1, workspace_id |-> 16, key_epoch |-> 4, op_id |-> 16,
   author_member_id |-> 16, author_key_id |-> 8, author_seq |-> 8,
   prev_author_hash |-> 32, observed_head |-> 32, nonce |-> 24]
HEADER_LENGTH_BYTES == 158
SIGNATURE_LENGTH_BYTES == 64
ENVELOPE_OVERHEAD_BYTES == HEADER_LENGTH_BYTES + SIGNATURE_LENGTH_BYTES
AEAD_TAG_BYTES == 16
PAYLOAD_LENGTH_PREFIX_BYTES == 4
BODY_SIZE_CLASSES_BYTES == {256, 1024, 4096, 16384}
LARGEST_CLASS == 16384
BODY_OVERSIZE_MULTIPLE_BYTES == 16384
MINIMUM_ENVELOPE_BYTES == ENVELOPE_OVERHEAD_BYTES + 256

MinimumEnvelopeBytesForSuite(suite) ==
  MINIMUM_ENVELOPE_BYTES + IF suite = SUITE_AEAD_V1 THEN AEAD_TAG_BYTES ELSE 0

\* The smallest size class that holds the frame, else the next multiple.
PaddedBodyLength(framed) ==
  IF framed <= LARGEST_CLASS
  THEN CHOOSE c \in BODY_SIZE_CLASSES_BYTES :
         /\ framed <= c
         /\ \A d \in BODY_SIZE_CLASSES_BYTES : framed <= d => c <= d
  ELSE ((framed + BODY_OVERSIZE_MULTIPLE_BYTES - 1) \div BODY_OVERSIZE_MULTIPLE_BYTES)
         * BODY_OVERSIZE_MULTIPLE_BYTES

IsLegalBodyLength(n) ==
  \/ n \in BODY_SIZE_CLASSES_BYTES
  \/ n > LARGEST_CLASS /\ n % BODY_OVERSIZE_MULTIPLE_BYTES = 0

IsLegalBodyLengthForSuite(suite, n) ==
  IF suite = SUITE_AEAD_V1
  THEN n > AEAD_TAG_BYTES /\ IsLegalBodyLength(n - AEAD_TAG_BYTES)
  ELSE IsLegalBodyLength(n)

\* serialize packs the fields back to back: a byte string that is not as wide
\* as its field is a programming error.  parse asks for the whole header.
SerializeHeader(width) == FirstFault(<<
  <<width.author_key_id # HEADER_FIELD_BYTES.author_key_id, "ValueError">>,
  <<width.prev_author_hash # HEADER_FIELD_BYTES.prev_author_hash, "ValueError">>,
  <<width.observed_head # HEADER_FIELD_BYTES.observed_head, "ValueError">>,
  <<width.nonce # HEADER_FIELD_BYTES.nonce, "ValueError">> >>)
ParseHeader(length) == FirstFault(<<
  <<length < HEADER_LENGTH_BYTES, "truncated_envelope">> >>)

-----------------------------------------------------------------------------
(* A framed body is its length, the length its prefix claims, and whether  *)
(* the bytes behind the payload are all zero.                              *)

FrameBody(payloadLength) ==
  [length         |-> PaddedBodyLength(PAYLOAD_LENGTH_PREFIX_BYTES + payloadLength),
   payload_length |-> payloadLength,
   zero_padded    |-> TRUE]

ParseBody(body) == FirstFault(<<
  <<~IsLegalBodyLength(body.length), "invalid_body_length">>,
  <<PAYLOAD_LENGTH_PREFIX_BYTES + body.payload_length > body.length,
    "payload_overruns_body">>,
  <<~body.zero_padded, "non_zero_padding">> >>)

\* An envelope is header, body and a signature over both, nothing else.
SigningInput(header, body) == [header |-> header, body |-> body]
BuildEnvelope(header, body, key) ==
  [header |-> header, body |-> body, length |-> ENVELOPE_OVERHEAD_BYTES + body.length,
   signature |-> [key |-> key, input |-> SigningInput(header, body)]]

SplitEnvelope(envelopeLength) == FirstFault(<<
  <<envelopeLength <= ENVELOPE_OVERHEAD_BYTES, "truncated_envelope">> >>)

VerifyEnvelope(envelope, key) == FirstFault(<<
  <<envelope.signature # [key |-> key,
                          input |-> SigningInput(envelope.header, envelope.body)],
    "bad_signature">> >>)

\* Sealing appends the tag and binds key, nonce and header; opening checks
\* all three.  A sealed body is the record of what it was sealed with.
SealBody(header, body, key) ==
  [length |-> body.length + AEAD_TAG_BYTES, header |-> header, key |-> key,
   plain |-> body]

OpenBody(header, sealed, key) == FirstFault(<<
  <<~IsLegalBodyLengthForSuite(SUITE_AEAD_V1, sealed.length),
    "invalid_body_length">>,
  <<sealed.header # header \/ sealed.key # key, "aead_failure">> >>)

\* What post_ops decides from the header and the envelope's length before it
\* reads anything else; `token` is the Member the access token speaks for.
HeaderFault(op, workspace, token) ==
  LET envelopeLength == ENVELOPE_OVERHEAD_BYTES + op.body.length
      parse == ParseHeader(envelopeLength)
      served == CheckServed(op)
  IN FirstFault(<<
       <<parse # Ok, parse>>,
       <<envelopeLength < MinimumEnvelopeBytesForSuite(op.suite),
         "envelope_too_short">>,
       <<served # Ok, served>>,
       <<op.workspace_id # workspace, "workspace_mismatch">>,
       <<op.author_member_id # token, "author_member_mismatch">> >>)
=============================================================================

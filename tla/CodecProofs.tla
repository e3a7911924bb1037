----------------------------- MODULE CodecProofs -----------------------------
(***************************************************************************)
(* What the envelope, payload and key-wrap codecs promise for every input. *)
(***************************************************************************)
EXTENDS KeyWraps, OpPayload, TLAPS

-----------------------------------------------------------------------------
(* The first fault.                                                        *)

\* A list of checks answers ok exactly when none of them fails, provided no
\* check fails with the answer ok.
LEMMA OkIffNoneFails ==
  ASSUME NEW checks, DOMAIN checks \subseteq 1 .. 3,
         \A i \in DOMAIN checks : checks[i][1] \in BOOLEAN /\ (checks[i][1] => checks[i][2] # Ok)
  PROVE  FirstFault(checks) = Ok <=> \A i \in DOMAIN checks : ~checks[i][1]
<1>1. CASE \A i \in DOMAIN checks : ~checks[i][1]
  BY <1>1 DEF FirstFault
<1>2. CASE \E i \in DOMAIN checks : checks[i][1]
  <2> DEFINE Failing == {i \in DOMAIN checks : checks[i][1]}
  <2>0. Failing \subseteq {1, 2, 3} /\ Failing # {}
    BY <1>2
  <2>1. PICK i \in Failing : \A j \in Failing : ~(j < i)
    BY <2>0
  <2> DEFINE c == CHOOSE k \in DOMAIN checks :
                    /\ checks[k][1]
                    /\ \A j \in DOMAIN checks : j < k => ~checks[j][1]
  <2>2. c \in DOMAIN checks /\ checks[c][1]
    <3>1. \E k \in DOMAIN checks :
            /\ checks[k][1]
            /\ \A j \in DOMAIN checks : j < k => ~checks[j][1]
      BY <2>1
    <3> QED BY <3>1, Zenon
  <2>3. FirstFault(checks) = checks[c][2]
    BY <1>2 DEF FirstFault
  <2> QED BY <1>2, <2>2, <2>3
<1> QED BY <1>1, <1>2

LEMMA OneCheck ==
  ASSUME NEW a \in BOOLEAN, NEW s, s # Ok
  PROVE  FirstFault(<< <<a, s>> >>) = Ok <=> ~a
<1> DEFINE checks == << <<a, s>> >>
<1>1. DOMAIN checks = {1} /\ checks[1][1] = a /\ checks[1][2] = s
  OBVIOUS
<1> QED BY <1>1, OkIffNoneFails

LEMMA TwoChecks ==
  ASSUME NEW a \in BOOLEAN, NEW b \in BOOLEAN, NEW s, NEW t, s # Ok, t # Ok
  PROVE  FirstFault(<< <<a, s>>, <<b, t>> >>) = Ok <=> ~a /\ ~b
<1> DEFINE checks == << <<a, s>>, <<b, t>> >>
<1>1. /\ DOMAIN checks = {1, 2}
      /\ checks[1][1] = a /\ checks[1][2] = s
      /\ checks[2][1] = b /\ checks[2][2] = t
  OBVIOUS
<1> QED BY <1>1, OkIffNoneFails

LEMMA ThreeChecks ==
  ASSUME NEW a \in BOOLEAN, NEW b \in BOOLEAN, NEW c \in BOOLEAN,
         NEW s, NEW t, NEW u, s # Ok, t # Ok, u # Ok
  PROVE  FirstFault(<< <<a, s>>, <<b, t>>, <<c, u>> >>) = Ok <=> ~a /\ ~b /\ ~c
<1> DEFINE checks == << <<a, s>>, <<b, t>>, <<c, u>> >>
<1>1. /\ DOMAIN checks = {1, 2, 3}
      /\ checks[1][1] = a /\ checks[1][2] = s
      /\ checks[2][1] = b /\ checks[2][2] = t
      /\ checks[3][1] = c /\ checks[3][2] = u
  OBVIOUS
<1> QED BY <1>1, OkIffNoneFails

-----------------------------------------------------------------------------
(* Padding.                                                                *)

LEMMA QuotientFacts ==
  ASSUME NEW n \in Nat
  PROVE  LET q == (n + 16383) \div 16384
         IN q \in Nat /\ n <= q * 16384 /\ q * 16384 < n + 16384
  OBVIOUS

LEMMA Multiples ==
  ASSUME NEW m \in Nat
  PROVE  /\ m % 16384 = 0 => \E k \in Nat : m = k * 16384
         /\ (m * 16384) % 16384 = 0
  OBVIOUS

\* _padded_body_length pads any frame to a length every reader accepts, and to
\* the least one that holds it: a body's length tells its class and no more.
THEOREM PaddingIsLegalAndLeast ==
  \A n \in Nat :
    LET padded == PaddedBodyLength(n)
    IN /\ padded \in Nat /\ padded >= n
       /\ IsLegalBodyLength(padded)
       /\ \A m \in Nat : IsLegalBodyLength(m) /\ m >= n => padded <= m
<1> SUFFICES ASSUME NEW n \in Nat
             PROVE  LET padded == PaddedBodyLength(n)
                    IN /\ padded \in Nat /\ padded >= n
                       /\ IsLegalBodyLength(padded)
                       /\ \A m \in Nat : IsLegalBodyLength(m) /\ m >= n => padded <= m
  OBVIOUS
<1> DEFINE q == (n + 16383) \div 16384
<1>1. CASE n <= 16384
  <2> DEFINE Classes == {256, 1024, 4096, 16384}
             Least(c) == n <= c /\ \A d \in Classes : n <= d => c <= d
  <2>1. \E c \in Classes : Least(c)
    <3>1. CASE n <= 256
      BY <3>1
    <3>2. CASE n > 256 /\ n <= 1024
      BY <3>2
    <3>3. CASE n > 1024 /\ n <= 4096
      BY <3>3
    <3>4. CASE n > 4096
      BY <3>4, <1>1
    <3> QED BY <3>1, <3>2, <3>3, <3>4
  <2>2. PaddedBodyLength(n) = CHOOSE c \in Classes : Least(c)
    BY <1>1 DEF PaddedBodyLength, BODY_SIZE_CLASSES_BYTES, LARGEST_CLASS
  <2> DEFINE padded == PaddedBodyLength(n)
  <2>3. padded \in Classes /\ Least(padded)
    <3> HIDE DEF Least, Classes
    <3> QED BY <2>1, <2>2, Zenon
  <2>4. IsLegalBodyLength(padded)
    BY <2>3 DEF IsLegalBodyLength, BODY_SIZE_CLASSES_BYTES
  <2>5. ASSUME NEW m \in Nat, IsLegalBodyLength(m), m >= n
        PROVE  padded <= m
    <3>1. CASE m \in Classes
      BY <3>1, <2>3, <2>5
    <3>2. CASE m > 16384
      BY <3>2, <2>3
    <3> QED BY <2>5, <3>1, <3>2
          DEF IsLegalBodyLength, BODY_SIZE_CLASSES_BYTES, LARGEST_CLASS
  <2>6. padded \in Nat /\ padded >= n
    BY <2>3
  <2> QED BY <2>4, <2>5, <2>6
<1>2. CASE n > 16384
  <2>1. PaddedBodyLength(n) = q * 16384
    BY <1>2 DEF PaddedBodyLength, LARGEST_CLASS, BODY_OVERSIZE_MULTIPLE_BYTES
  <2>2. q \in Nat /\ n <= q * 16384 /\ q * 16384 < n + 16384
    BY QuotientFacts
  <2>3. IsLegalBodyLength(q * 16384)
    <3> HIDE DEF q
    <3>1. (q * 16384) % 16384 = 0
      BY <2>2, Multiples
    <3> QED BY <3>1, <2>2, <1>2
      DEF IsLegalBodyLength, BODY_SIZE_CLASSES_BYTES, LARGEST_CLASS,
        BODY_OVERSIZE_MULTIPLE_BYTES
  <2>4. ASSUME NEW m \in Nat, IsLegalBodyLength(m), m >= n
        PROVE  q * 16384 <= m
    <3> HIDE DEF q
    <3>1. m % 16384 = 0
      BY <2>4, <1>2
        DEF IsLegalBodyLength, BODY_SIZE_CLASSES_BYTES, BODY_OVERSIZE_MULTIPLE_BYTES
    <3>2. PICK k \in Nat : m = k * 16384
      BY <3>1, Multiples
    <3> QED BY <3>2, <2>2, <2>4
  <2> HIDE DEF q
  <2> QED BY <2>1, <2>2, <2>3, <2>4
<1> QED BY <1>1, <1>2

\* A body as parse_body sees it.
Body == [length : Nat, payload_length : Nat, zero_padded : BOOLEAN]

\* What frame_body builds parse_body accepts; of all the bodies parse_body accepts
\* for that payload length it is the shortest, and the only one of its length
\* (parse_body would also accept more zero bytes, up to another size class).
\* Sealed, it has a length the sealed suite allows.
THEOREM FramedBodiesParse ==
  \A n \in Nat :
    /\ ParseBody(FrameBody(n)) = Ok
    /\ \A other \in Body :
         other.payload_length = n /\ ParseBody(other) = Ok =>
           /\ FrameBody(n).length <= other.length
           /\ FrameBody(n).length = other.length => other = FrameBody(n)
    /\ \A header, key :
         IsLegalBodyLengthForSuite(SUITE_AEAD_V1,
                                   SealBody(header, FrameBody(n), key).length)
<1> SUFFICES ASSUME NEW n \in Nat
             PROVE  /\ ParseBody(FrameBody(n)) = Ok
                    /\ \A other \in Body :
                         other.payload_length = n /\ ParseBody(other) = Ok =>
                           /\ FrameBody(n).length <= other.length
                           /\ FrameBody(n).length = other.length => other = FrameBody(n)
                    /\ \A header, key :
                         IsLegalBodyLengthForSuite(SUITE_AEAD_V1,
                           SealBody(header, FrameBody(n), key).length)
  OBVIOUS
<1> DEFINE body == FrameBody(n)
<1>1. /\ body.length \in Nat /\ body.length >= 4 + n
      /\ IsLegalBodyLength(body.length)
      /\ body.payload_length = n /\ body.zero_padded = TRUE
      /\ body \in Body
      /\ \A m \in Nat : IsLegalBodyLength(m) /\ m >= 4 + n => body.length <= m
  BY PaddingIsLegalAndLeast DEF FrameBody, PAYLOAD_LENGTH_PREFIX_BYTES, Body
<1> HIDE DEF body
<1>2. ParseBody(body) = Ok
  <2> DEFINE a == ~IsLegalBodyLength(body.length)
             b == 4 + body.payload_length > body.length
             c == ~body.zero_padded
  <2>1. ~a /\ ~b /\ ~c
    BY <1>1
  <2>2. a \in BOOLEAN /\ b \in BOOLEAN /\ c \in BOOLEAN
    BY <1>1
  <2>3. ParseBody(body) = FirstFault(<< <<a, "invalid_body_length">>,
          <<b, "payload_overruns_body">>, <<c, "non_zero_padding">> >>)
    BY DEF ParseBody, PAYLOAD_LENGTH_PREFIX_BYTES
  <2> HIDE DEF a, b, c
  <2>4. FirstFault(<< <<a, "invalid_body_length">>,
          <<b, "payload_overruns_body">>, <<c, "non_zero_padding">> >>) = Ok
    BY <2>1, <2>2, ThreeChecks DEF Ok
  <2> QED BY <2>3, <2>4
<1>3. ASSUME NEW header, NEW key
      PROVE  IsLegalBodyLengthForSuite(SUITE_AEAD_V1, SealBody(header, body, key).length)
  <2>1. SealBody(header, body, key).length = body.length + 16
    BY DEF SealBody, AEAD_TAG_BYTES
  <2> QED BY <2>1, <1>1 DEF IsLegalBodyLengthForSuite, AEAD_TAG_BYTES
<1>4. ASSUME NEW other \in Body, other.payload_length = n, ParseBody(other) = Ok
      PROVE  /\ body.length <= other.length
             /\ body.length = other.length => other = body
  <2> DEFINE a == ~IsLegalBodyLength(other.length)
             b == 4 + other.payload_length > other.length
             c == ~other.zero_padded
  <2>1. a \in BOOLEAN /\ b \in BOOLEAN /\ c \in BOOLEAN
    BY DEF Body, IsLegalBodyLength
  <2>2. ParseBody(other) = FirstFault(<< <<a, "invalid_body_length">>,
          <<b, "payload_overruns_body">>, <<c, "non_zero_padding">> >>)
    BY DEF ParseBody, PAYLOAD_LENGTH_PREFIX_BYTES
  <2> HIDE DEF a, b, c
  <2>3. ~a /\ ~b /\ ~c
    BY <1>4, <2>1, <2>2, ThreeChecks DEF Ok
  <2>4. /\ IsLegalBodyLength(other.length) /\ other.length \in Nat
        /\ other.length >= 4 + n /\ other.zero_padded = TRUE
    BY <1>4, <2>3 DEF a, b, c, Body
  <2> QED BY <1>1, <1>4, <2>4 DEF Body
<1> QED BY <1>2, <1>3, <1>4 DEF body

\* No length is legal under both suites: a sealed body is never mistaken for
\* a plaintext one, and the length check alone tells a mislabelled suite.
THEOREM SuitesNeverShareALength ==
  \A n \in Nat : ~(/\ IsLegalBodyLengthForSuite(SUITE_PLAINTEXT_V1, n)
                   /\ IsLegalBodyLengthForSuite(SUITE_AEAD_V1, n))
<1> SUFFICES ASSUME NEW n \in Nat, IsLegalBodyLength(n), IsLegalBodyLength(n - 16)
             PROVE  FALSE
  BY DEF IsLegalBodyLengthForSuite, SUITE_PLAINTEXT_V1, SUITE_AEAD_V1, AEAD_TAG_BYTES
<1> QED BY DEF IsLegalBodyLength, BODY_SIZE_CLASSES_BYTES, LARGEST_CLASS,
        BODY_OVERSIZE_MULTIPLE_BYTES

\* open_body gives a body back under the header and key it was sealed with,
\* and under no other.
THEOREM SealedOpensWhereItWasSealed ==
  \A n \in Nat : \A h1, h2, k1, k2 :
    OpenBody(h2, SealBody(h1, FrameBody(n), k1), k2) = Ok <=> h1 = h2 /\ k1 = k2
<1> SUFFICES ASSUME NEW n \in Nat, NEW h1, NEW h2, NEW k1, NEW k2
             PROVE  OpenBody(h2, SealBody(h1, FrameBody(n), k1), k2) = Ok
                      <=> h1 = h2 /\ k1 = k2
  OBVIOUS
<1> DEFINE sealed == SealBody(h1, FrameBody(n), k1)
           a == ~IsLegalBodyLengthForSuite(SUITE_AEAD_V1, sealed.length)
           b == sealed.header # h2 \/ sealed.key # k2
<1>1. ~a
  BY FramedBodiesParse
<1>2. b <=> ~(h1 = h2 /\ k1 = k2)
  BY DEF SealBody
<1>3. OpenBody(h2, sealed, k2) =
        FirstFault(<< <<a, "invalid_body_length">>, <<b, "aead_failure">> >>)
  BY DEF OpenBody
<1>4. a \in BOOLEAN /\ b \in BOOLEAN
  BY <1>1
<1> HIDE DEF a, b
<1>5. OpenBody(h2, sealed, k2) = Ok <=> ~a /\ ~b
  BY <1>3, <1>4, TwoChecks DEF Ok
<1> QED BY <1>1, <1>2, <1>5

\* build_envelope: what a device builds, plain or sealed, every length check of
\* the server lets through: the header is whole, the suite's floor is cleared
\* and there is a body to split off.
THEOREM BuiltEnvelopesAreServed ==
  \A n \in Nat : \A header, key, signer :
    LET plain == BuildEnvelope(header, FrameBody(n), signer)
        sealed == BuildEnvelope(header, SealBody(header, FrameBody(n), key), signer)
    IN /\ plain.length >= MinimumEnvelopeBytesForSuite(SUITE_PLAINTEXT_V1)
       /\ sealed.length >= MinimumEnvelopeBytesForSuite(SUITE_AEAD_V1)
       /\ \A envelope \in {plain, sealed} : /\ ParseHeader(envelope.length) = Ok
                                          /\ SplitEnvelope(envelope.length) = Ok
<1> SUFFICES ASSUME NEW n \in Nat, NEW header, NEW key, NEW signer
             PROVE  LET plain == BuildEnvelope(header, FrameBody(n), signer)
                        sealed == BuildEnvelope(header,
                                    SealBody(header, FrameBody(n), key), signer)
                    IN /\ plain.length >= MinimumEnvelopeBytesForSuite(SUITE_PLAINTEXT_V1)
                       /\ sealed.length >= MinimumEnvelopeBytesForSuite(SUITE_AEAD_V1)
                       /\ \A envelope \in {plain, sealed} :
                            /\ ParseHeader(envelope.length) = Ok
                            /\ SplitEnvelope(envelope.length) = Ok
  OBVIOUS
<1> DEFINE plain == BuildEnvelope(header, FrameBody(n), signer)
           sealed == BuildEnvelope(header, SealBody(header, FrameBody(n), key), signer)
           length == FrameBody(n).length
<1>1. length \in Nat /\ length >= 256
  <2>1. length \in Nat /\ IsLegalBodyLength(length)
    BY PaddingIsLegalAndLeast DEF FrameBody, PAYLOAD_LENGTH_PREFIX_BYTES
  <2> HIDE DEF length
  <2> QED BY <2>1 DEF IsLegalBodyLength, BODY_SIZE_CLASSES_BYTES, LARGEST_CLASS
<1>2. plain.length = 222 + length /\ sealed.length = 222 + (length + 16)
  BY DEF BuildEnvelope, SealBody, ENVELOPE_OVERHEAD_BYTES, HEADER_LENGTH_BYTES,
         SIGNATURE_LENGTH_BYTES, AEAD_TAG_BYTES
<1> HIDE DEF plain, sealed, length
<1>3. /\ plain.length >= MinimumEnvelopeBytesForSuite(SUITE_PLAINTEXT_V1)
      /\ sealed.length >= MinimumEnvelopeBytesForSuite(SUITE_AEAD_V1)
  BY <1>1, <1>2 DEF MinimumEnvelopeBytesForSuite, MINIMUM_ENVELOPE_BYTES,
     ENVELOPE_OVERHEAD_BYTES, HEADER_LENGTH_BYTES, SIGNATURE_LENGTH_BYTES, AEAD_TAG_BYTES,
     SUITE_PLAINTEXT_V1, SUITE_AEAD_V1
<1>4. ASSUME NEW l \in Nat, l > 222
      PROVE  ParseHeader(l) = Ok /\ SplitEnvelope(l) = Ok
  <2> DEFINE a == l < HEADER_LENGTH_BYTES
             b == l <= ENVELOPE_OVERHEAD_BYTES
  <2>1. ~a /\ ~b /\ a \in BOOLEAN /\ b \in BOOLEAN
    BY <1>4 DEF HEADER_LENGTH_BYTES, ENVELOPE_OVERHEAD_BYTES, SIGNATURE_LENGTH_BYTES
  <2>2. /\ ParseHeader(l) = FirstFault(<< <<a, "truncated_envelope">> >>)
        /\ SplitEnvelope(l) = FirstFault(<< <<b, "truncated_envelope">> >>)
    BY DEF ParseHeader, SplitEnvelope
  <2> HIDE DEF a, b
  <2> QED BY <2>1, <2>2, OneCheck DEF Ok
<1> QED BY <1>1, <1>2, <1>3, <1>4 DEF plain, sealed

\* verify_envelope: a signature made over one header and body, by one key,
\* vouches for nothing else.
THEOREM SignaturesVouchForOneOp ==
  \A h1, h2, b1, b2, k1, k2 :
    LET moved == [BuildEnvelope(h1, b1, k1) EXCEPT !.header = h2, !.body = b2]
    IN VerifyEnvelope(moved, k2) = Ok <=> h1 = h2 /\ b1 = b2 /\ k1 = k2
<1> SUFFICES ASSUME NEW h1, NEW h2, NEW b1, NEW b2, NEW k1, NEW k2
             PROVE  LET moved == [BuildEnvelope(h1, b1, k1) EXCEPT !.header = h2, !.body = b2]
                    IN VerifyEnvelope(moved, k2) = Ok <=> h1 = h2 /\ b1 = b2 /\ k1 = k2
  OBVIOUS
<1> DEFINE moved == [BuildEnvelope(h1, b1, k1) EXCEPT !.header = h2, !.body = b2]
           forged == moved.signature # [key |-> k2,
                       input |-> SigningInput(moved.header, moved.body)]
<1>1. /\ moved.header = h2 /\ moved.body = b2
      /\ moved.signature = [key |-> k1, input |-> SigningInput(h1, b1)]
  BY DEF BuildEnvelope
<1>2. SigningInput(h1, b1) = SigningInput(h2, b2) <=> h1 = h2 /\ b1 = b2
  BY DEF SigningInput
<1>3. forged \in BOOLEAN /\ (forged <=> ~(h1 = h2 /\ b1 = b2 /\ k1 = k2))
  BY <1>1, <1>2
<1>4. VerifyEnvelope(moved, k2) = FirstFault(<< <<forged, "bad_signature">> >>)
  BY DEF VerifyEnvelope
<1> HIDE DEF forged, moved
<1>5. VerifyEnvelope(moved, k2) = Ok <=> ~forged
  BY <1>3, <1>4, OneCheck DEF Ok
<1> QED BY <1>3, <1>5 DEF moved

-----------------------------------------------------------------------------
(* Key wraps.                                                              *)

\* unwrap_epoch_key_for_member: a wrap opens for the member key, workspace,
\* epoch and slot it was made for and nowhere else, whoever delivers it.
THEOREM WrapOpensOnlyInItsSlot ==
  \A wk, nonce, slot, other : \A ephemeral, sk, sk2 \in Secret :
    UnwrapFault(WrapEpochKeyForMember(wk, PublicKey(sk), slot, ephemeral, nonce),
                sk2, other) = Ok
      <=> sk2 = sk /\ other = slot
<1> SUFFICES ASSUME NEW wk, NEW nonce, NEW slot, NEW other,
                    NEW ephemeral \in Secret, NEW sk \in Secret, NEW sk2 \in Secret
             PROVE  UnwrapFault(WrapEpochKeyForMember(wk, PublicKey(sk), slot,
                                  ephemeral, nonce), sk2, other) = Ok
                      <=> sk2 = sk /\ other = slot
  OBVIOUS
<1> DEFINE wrap == WrapEpochKeyForMember(wk, PublicKey(sk), slot, ephemeral, nonce)
           epk == PublicKey(ephemeral)
           own == KeywrapInfo(epk, slot)
           theirs == KeywrapInfo(epk, other)
           key == HkdfSha256(Scalarmult(sk2, epk), theirs)
           a == wrap.length # KEYWRAP_BYTES
           b == wrap.epk = LowOrderPoint
           c == ~Authenticates(wrap.sealed, theirs, wrap.nonce, key)
<1>1. wrap.length = KEYWRAP_BYTES /\ wrap.epk = epk /\ wrap.nonce = nonce
  BY DEF WrapEpochKeyForMember
<1>2. ~a
  BY <1>1
<1>3. ~b
  BY <1>1 DEF PublicKey, LowOrderPoint, Secret
<1>4. UnwrapFault(wrap, sk2, other) = FirstFault(<<
        <<a, "malformed_keywrap">>, <<b, "malformed_keywrap">>, <<c, "aead_failure">> >>)
  BY <1>1 DEF UnwrapFault
<1>5. own = theirs <=> other = slot
  BY DEF KeywrapInfo
<1>6. Scalarmult(sk2, epk) = Scalarmult(ephemeral, PublicKey(sk)) <=> sk2 = sk
  BY DEF Scalarmult, PublicKey
<1>7. wrap.sealed = Seal(wk, own, nonce,
                         HkdfSha256(Scalarmult(ephemeral, PublicKey(sk)), own))
  BY DEF WrapEpochKeyForMember
<1>8. /\ wrap.sealed.aad = own /\ wrap.sealed.nonce = nonce
      /\ wrap.sealed.key = HkdfSha256(Scalarmult(ephemeral, PublicKey(sk)), own)
  BY <1>7 DEF Seal
<1>9. ~c <=> sk2 = sk /\ other = slot
  <2> HIDE DEF own, theirs, epk, wrap
  <2>1. ~c <=> own = theirs /\ HkdfSha256(Scalarmult(ephemeral, PublicKey(sk)), own)
                              = HkdfSha256(Scalarmult(sk2, epk), theirs)
    BY <1>1, <1>8 DEF Authenticates
  <2>2. ~c <=> own = theirs /\ Scalarmult(ephemeral, PublicKey(sk)) = Scalarmult(sk2, epk)
    BY <2>1 DEF HkdfSha256
  <2> QED BY <2>2, <1>5, <1>6
<1>10. a \in BOOLEAN /\ b \in BOOLEAN /\ c \in BOOLEAN
  OBVIOUS
<1> HIDE DEF a, b, c
<1>11. UnwrapFault(wrap, sk2, other) = Ok <=> ~a /\ ~b /\ ~c
  BY <1>4, <1>10, ThreeChecks DEF Ok
<1> QED BY <1>2, <1>3, <1>9, <1>11

\* unwrap_epoch_key_from_escrow: likewise for the wrap under the master key.
THEOREM EscrowWrapOpensOnlyInItsEpoch ==
  \A wk, nonce, mwk, mwk2, w, w2, e, e2 :
    EscrowUnwrapFault(WrapEpochKeyForEscrow(wk, mwk, w, e, nonce), mwk2, w2, e2) = Ok
      <=> mwk2 = mwk /\ w2 = w /\ e2 = e
<1> SUFFICES ASSUME NEW wk, NEW nonce, NEW mwk, NEW mwk2, NEW w, NEW w2, NEW e, NEW e2
             PROVE  EscrowUnwrapFault(WrapEpochKeyForEscrow(wk, mwk, w, e, nonce),
                                      mwk2, w2, e2) = Ok
                      <=> mwk2 = mwk /\ w2 = w /\ e2 = e
  OBVIOUS
<1> DEFINE wrap == WrapEpochKeyForEscrow(wk, mwk, w, e, nonce)
           a == wrap.length # EPOCH_KEY_ESCROW_WRAP_BYTES
           b == ~Authenticates(wrap.sealed, EpochKeyEscrowInfo(w2, e2), wrap.nonce, mwk2)
<1>1. /\ wrap.length = EPOCH_KEY_ESCROW_WRAP_BYTES /\ wrap.nonce = nonce
      /\ wrap.sealed.aad = EpochKeyEscrowInfo(w, e)
      /\ wrap.sealed.nonce = nonce /\ wrap.sealed.key = mwk
  BY DEF WrapEpochKeyForEscrow, Seal
<1>2. EpochKeyEscrowInfo(w, e) = EpochKeyEscrowInfo(w2, e2) <=> w2 = w /\ e2 = e
  BY DEF EpochKeyEscrowInfo
<1>3. ~a /\ (~b <=> mwk2 = mwk /\ w2 = w /\ e2 = e)
  <2> HIDE DEF wrap
  <2> QED BY <1>1, <1>2 DEF Authenticates
<1>4. EscrowUnwrapFault(wrap, mwk2, w2, e2) =
        FirstFault(<< <<a, "malformed_keywrap">>, <<b, "aead_failure">> >>)
  BY DEF EscrowUnwrapFault
<1>5. a \in BOOLEAN /\ b \in BOOLEAN
  OBVIOUS
<1> HIDE DEF a, b
<1>6. EscrowUnwrapFault(wrap, mwk2, w2, e2) = Ok <=> ~a /\ ~b
  BY <1>4, <1>5, TwoChecks DEF Ok
<1> QED BY <1>3, <1>6

\* keywrap_digest: two uploads share a digest exactly when they are one set
\* for one epoch, whatever order the wraps were sent in.
THEOREM DigestDeterminesTheSet ==
  \A e, f, u, v, a, b :
    KeywrapDigest(e, u, a) = KeywrapDigest(f, v, b)
      <=> e = f /\ a = b /\ Len(u) = Len(v) /\ Entries(u) = Entries(v)
  BY DEF KeywrapDigest

-----------------------------------------------------------------------------
(* Payloads.                                                               *)

\* Clocks are totally ordered, the author breaking every tie.
THEOREM HlcOrderIsTotal ==
  \A a, b, c \in Hlc :
    /\ ~HlcLess(a, a)
    /\ HlcLess(a, b) /\ HlcLess(b, c) => HlcLess(a, c)
    /\ HlcLess(a, b) \/ HlcLess(b, a) \/ a = b
  BY DEF HlcLess, Hlc

\* guard_op_class_shape: a compaction that passes asserts every field, and the
\* tombstone, at a clock it carries for it; a payload of another class that
\* passes asserts its tombstone at the op's clock.
THEOREM GuardKeepsOriginalClocks ==
  \A payload, class :
    payload.tombstone \in BOOLEAN /\ GuardOpClassShape(payload, class) = Ok
      => IF class = OP_CLASS_COMPACTION
         THEN /\ \A name \in DOMAIN payload.fields : payload.fields[name].hlc # Absent
              /\ payload.tombstone =>
                   /\ payload.tombstone_hlc # Absent
                   /\ EffectiveTombstoneHlc(payload) = payload.tombstone_hlc
         ELSE EffectiveTombstoneHlc(payload) = payload.hlc
<1> SUFFICES ASSUME NEW payload, NEW class, payload.tombstone \in BOOLEAN,
                    GuardOpClassShape(payload, class) = Ok
             PROVE  IF class = OP_CLASS_COMPACTION
                    THEN /\ \A name \in DOMAIN payload.fields :
                              payload.fields[name].hlc # Absent
                         /\ payload.tombstone =>
                              /\ payload.tombstone_hlc # Absent
                              /\ EffectiveTombstoneHlc(payload) = payload.tombstone_hlc
                    ELSE EffectiveTombstoneHlc(payload) = payload.hlc
  OBVIOUS
<1>1. CASE class # OP_CLASS_COMPACTION
  <2>1. FirstFault(<< <<payload.tombstone_hlc # Absent,
                        "tombstone_hlc_outside_compaction">> >>) = Ok
    BY <1>1 DEF GuardOpClassShape
  <2>2. payload.tombstone_hlc = Absent
    <3> DEFINE d == payload.tombstone_hlc # Absent
    <3>1. FirstFault(<< <<d, "tombstone_hlc_outside_compaction">> >>) = Ok
      BY <2>1
    <3>2. d \in BOOLEAN
      OBVIOUS
    <3> HIDE DEF d
    <3>3. ~d
      BY <3>1, <3>2, OneCheck DEF Ok
    <3> QED BY <3>3 DEF d
  <2> QED BY <1>1, <2>2 DEF EffectiveTombstoneHlc
<1>2. CASE class = OP_CLASS_COMPACTION
  <2> DEFINE a == \E name \in DOMAIN payload.fields : payload.fields[name].hlc = Absent
             b == payload.tombstone /\ payload.tombstone_hlc = Absent
  <2>1. FirstFault(<< <<a, "compaction_field_without_hlc">>,
                      <<b, "compaction_tombstone_without_hlc">> >>) = Ok
    BY <1>2 DEF GuardOpClassShape
  <2>2. a \in BOOLEAN /\ b \in BOOLEAN
    OBVIOUS
  <2> HIDE DEF a, b
  <2>3. ~a /\ ~b
    BY <2>1, <2>2, TwoChecks DEF Ok
  <2> QED BY <1>2, <2>3 DEF a, b, EffectiveTombstoneHlc
<1> QED BY <1>1, <1>2
=============================================================================

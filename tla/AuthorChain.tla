---------------------------- MODULE AuthorChain ----------------------------
(***************************************************************************)
(* The per-author hash chain every operation ("op") of a Jeeves Workspace   *)
(* travels in, and the rules by which a device judges one received op       *)
(* against the ops of the same author it already holds.                     *)
(*                                                                          *)
(* An envelope is a member of Op: two envelopes are the same bytes exactly  *)
(* when they are the same member, and the hash of an envelope is the        *)
(* envelope itself (hashes are assumed not to collide), so Prev[o] is the   *)
(* envelope whose hash o carries as prev_author_hash.  NoOp stands for the  *)
(* zero hash, "this author's chain starts here".                            *)
(*                                                                          *)
(* Only constant-level definitions live here: the state machine that uses   *)
(* them is SyncReceiver.                                                    *)
(***************************************************************************)
EXTENDS Naturals

CONSTANTS
  Member,   \* the authors
  Op,       \* every envelope that exists in the behaviours considered
  NoOp,     \* the zero hash
  Author,   \* header.author_member_id
  ASeq,     \* header.author_seq
  Prev,     \* the envelope named by header.prev_author_hash, or NoOp
  OpId      \* header.op_id

ASSUME ChainConstants ==
  /\ NoOp \notin Op
  /\ Author \in [Op -> Member]
  /\ ASeq \in [Op -> Nat]
  /\ Prev \in [Op -> Op \cup {NoOp}]

-----------------------------------------------------------------------------
\* The ops of one author in a log (a set of envelopes).
HeldBy(held, m) == {o \in held : Author[o] = m}

\* h is the highest op of its author in the log: the author's derived head.
IsHead(held, h) ==
  /\ h \in held
  /\ \A o \in HeldBy(held, Author[h]) : ASeq[o] <= ASeq[h]

\* The author_seq of the derived head, 0 when the log holds nothing of m.
HeadSeq(held, m) ==
  IF HeldBy(held, m) = {}
  THEN 0
  ELSE ASeq[CHOOSE h \in HeldBy(held, m) : IsHead(held, h)]

\* o names the author's head: its envelope, or the zero hash for an empty chain.
NamesHead(held, o) ==
  IF HeldBy(held, Author[o]) = {}
  THEN Prev[o] = NoOp
  ELSE \E h \in HeldBy(held, Author[o]) : IsHead(held, h) /\ Prev[o] = h

\* o wears the op_id of another envelope of the same author.
IsSubstitution(held, o) ==
  \E l \in HeldBy(held, Author[o]) : OpId[l] = OpId[o] /\ l # o

\* m signed one chain: one envelope per author_seq, from 1 on, each naming the one
\* before it, no two under one op_id.
SignsOneChain(m) ==
  \A o, p \in HeldBy(Op, m) :
    /\ ASeq[o] >= 1
    /\ ASeq[o] = 1 => Prev[o] = NoOp
    /\ ASeq[o] > 1 => Prev[o] \in HeldBy(Op, m) /\ ASeq[Prev[o]] = ASeq[o] - 1
    /\ (ASeq[o] = ASeq[p] \/ OpId[o] = OpId[p]) => o = p

-----------------------------------------------------------------------------
ChainRefusals == {"duplicate_op_id_divergence", "prev_author_hash_mismatch",
                  "author_chain_gap", "author_chain_rewrite"}

\* Mutants of ChainVerdict: gaps go unnoticed; a re-served op counts as a rewrite.
VerdictWithoutGaps(held, o) ==
  IF ASeq[o] > HeadSeq(held, Author[o]) THEN "accept"
  ELSE IF o \in held THEN "idempotent_skip" ELSE "author_chain_rewrite"

VerdictWithoutSkip(held, o) ==
  LET head == HeadSeq(held, Author[o])
  IN  IF ASeq[o] > head + 1 THEN "author_chain_gap"
      ELSE IF ASeq[o] = head + 1 /\ NamesHead(held, o) THEN "accept"
      ELSE "author_chain_rewrite"

\* The verdict on o, against the set of envelopes the log holds.
ChainVerdict(held, o) ==
  LET head == HeadSeq(held, Author[o])
  IN  IF IsSubstitution(held, o)     THEN "duplicate_op_id_divergence"
      ELSE IF ASeq[o] = head + 1     THEN IF NamesHead(held, o)
                                          THEN "accept"
                                          ELSE "prev_author_hash_mismatch"
      ELSE IF ASeq[o] > head + 1     THEN "author_chain_gap"
      ELSE IF o \in held             THEN "idempotent_skip"
      ELSE "author_chain_rewrite"
=============================================================================

--------------------------- MODULE OpServerProofs ---------------------------
(***************************************************************************)
(* What holds of POST /ops for any members, batches and requests in        *)
(* flight.  The log starts empty.  First the author chains, whatever races *)
(* and retries; then the index tables, from what the door vouched for when *)
(* it admitted a batch, kept in a form that later commits do not undo.     *)
(***************************************************************************)
EXTENDS GrantHistory, AdmissionProofs, FiniteSetTheorems

-----------------------------------------------------------------------------
(* Ranks and initial segments.                                             *)

\* Ranks number a set of indices from 1, in order and without a gap.
LEMMA RankOrder ==
  ASSUME NEW N \in Nat, NEW S \in SUBSET (1 .. N)
  PROVE  /\ Cardinality(S) \in Nat
         /\ \A i \in S : Rank(S, i) \in 1 .. Cardinality(S)
         /\ \A i, j \in S : i < j => Rank(S, i) < Rank(S, j)
         /\ \A k \in 1 .. Cardinality(S) : \E i \in S : Rank(S, i) = k
<1> DEFINE upto(i) == {j \in S : j <= i}
<1>1. IsFiniteSet(S) /\ Cardinality(S) \in Nat
  <2>1. IsFiniteSet(1 .. N)
    BY FS_Interval
  <2> QED BY <2>1, FS_Subset, FS_CardinalityType
<1>2. ASSUME NEW i \in S
      PROVE  Rank(S, i) \in 1 .. Cardinality(S)
  <2>1. upto(i) \in SUBSET S /\ upto(i) # {}
    OBVIOUS
  <2>2. /\ IsFiniteSet(upto(i)) /\ Cardinality(upto(i)) <= Cardinality(S)
        /\ Cardinality(upto(i)) \in Nat /\ Cardinality(upto(i)) # 0
    BY <1>1, <2>1, FS_Subset, FS_CardinalityType, FS_EmptySet
  <2> QED BY <1>1, <2>2 DEF Rank
<1>3. ASSUME NEW i \in S, NEW j \in S, i < j
      PROVE  Rank(S, i) < Rank(S, j)
  <2>1. /\ upto(i) \in SUBSET upto(j) /\ upto(i) # upto(j)
        /\ upto(j) \in SUBSET S
    <3>1. \A k \in S : k \in Nat
      OBVIOUS
    <3>2. \A k \in S : k <= i => k <= j
      BY <1>3, <3>1
    <3>3. j \in upto(j) /\ j \notin upto(i)
      BY <1>3, <3>1
    <3> QED BY <3>2, <3>3
  <2>2. IsFiniteSet(upto(j))
    BY <1>1, <2>1, FS_Subset
  <2>3. Cardinality(upto(i)) <= Cardinality(upto(j)) /\ Cardinality(upto(i)) # Cardinality(upto(j))
    <3> HIDE DEF upto
    <3> QED BY <2>1, <2>2, FS_Subset
  <2>4. Rank(S, i) <= Rank(S, j) /\ Rank(S, i) # Rank(S, j)
    BY <2>3 DEF Rank
  <2> QED BY <1>1, <1>2, <2>4
<1>4. ASSUME NEW k \in 1 .. Cardinality(S)
      PROVE  \E i \in S : Rank(S, i) = k
  <2> DEFINE T == 1 .. Cardinality(S)
             f == [i \in S |-> Rank(S, i)]
  <2>1. f \in Injection(S, T)
    <3>1. f \in [S -> T]
      BY <1>2
    <3>2. \A i, j \in S : f[i] = f[j] => i = j
      <4> SUFFICES ASSUME NEW i \in S, NEW j \in S, i # j PROVE Rank(S, i) # Rank(S, j)
        OBVIOUS
      <4>1. i < j \/ j < i
        OBVIOUS
      <4>2. Rank(S, i) \in Nat /\ Rank(S, j) \in Nat
        BY <1>2
      <4>3. Rank(S, i) < Rank(S, j) \/ Rank(S, j) < Rank(S, i)
        BY <1>3, <4>1
      <4> QED BY <4>2, <4>3
    <3> QED BY <3>1, <3>2 DEF Injection, IsInjective
  <2>2. IsFiniteSet(T) /\ Cardinality(T) = Cardinality(S)
    BY <1>1, FS_Interval
  <2>3. f \in Surjection(S, T)
    <3> HIDE DEF f, T
    <3> QED BY <2>1, <2>2, FS_Injection
  <2>4. \A n \in T : \E i \in S : f[i] = n
    BY <2>3 DEF Surjection
  <2> QED BY <2>4
<1> QED BY <1>1, <1>2, <1>3, <1>4

\* A set of positions without a gap below any of them is an initial segment.
LEMMA DownwardClosed ==
  ASSUME NEW N \in Nat, NEW S \in SUBSET (1 .. N),
         \A k \in S : k = 1 \/ k - 1 \in S
  PROVE  \E n \in 0 .. N : S = 1 .. n
<1>1. CASE S = {}
  <2>1. 1 .. 0 = {}
    OBVIOUS
  <2> QED BY <1>1, <2>1
<1>2. CASE S # {}
  <2> DEFINE n == Max(S)
  <2>1. n \in S /\ \A x \in S : x <= n
    BY <1>2, GreatestBelow
  <2> HIDE DEF n
  <2> DEFINE Below == {d \in 0 .. n - 1 : n - d \in S}
  <2>2. n \in 1 .. N /\ n - 1 \in Nat
    BY <2>1
  <2>3. 0 \in Below
    BY <2>1, <2>2
  <2>4. ASSUME NEW d \in 0 .. (n - 1) - 1, d \in Below PROVE d + 1 \in Below
    <3>1. n - d \in S /\ n - d # 1
      BY <2>2, <2>4
    <3>2. (n - d) - 1 \in S /\ (n - d) - 1 = n - (d + 1)
      BY <2>2, <3>1
    <3> QED BY <2>2, <3>2
  <2>5. \A d \in 0 .. n - 1 : d \in Below
    <3> HIDE DEF Below
    <3> QED BY <2>2, <2>3, <2>4, UpTo
  <2>6. ASSUME NEW k \in 1 .. n PROVE k \in S
    <3>1. n - k \in 0 .. n - 1 /\ n - (n - k) = k
      BY <2>2
    <3> QED BY <2>5, <3>1
  <2>7. S = 1 .. n
    <3>1. \A k \in S : k \in 1 .. N /\ k <= n
      BY <2>1
    <3>2. S \subseteq 1 .. n
      BY <2>2, <3>1
    <3>3. 1 .. n \subseteq S
      BY <2>6
    <3> QED BY <3>2, <3>3
  <2> QED BY <2>2, <2>7
<1> QED BY <1>1, <1>2

LEMMA SegmentMax ==
  ASSUME NEW n \in Nat
  PROVE  Max({0} \cup 1 .. n) = n
<1>1. n \in {0} \cup 1 .. n /\ \A x \in {0} \cup 1 .. n : n >= x
  OBVIOUS
<1>2. \A y \in {0} \cup 1 .. n : (\A x \in {0} \cup 1 .. n : y >= x) => y = n
  OBVIOUS
<1> QED BY <1>1, <1>2 DEF Max

-----------------------------------------------------------------------------
(* The author chains: the inductive invariant.  Its parts speak of a log l *)
(* so that they can be met before and after a commit.                      *)

HeldIn(l, op) == \E q \in DOMAIN l : l[q] = op
PlacesIn(l, m) == {l[q].author_seq : q \in {r \in DOMAIN l : l[r].author_member_id = m}}

\* Rows neither unique constraint separates, and no gap in any author's chain.
SoundLog(l, next) ==
  /\ next \in Nat \ {0}
  /\ DOMAIN l \subseteq 1 .. (next - 1)
  /\ \A q \in DOMAIN l : l[q] \in Posted /\ l[q].author_member_id \in Member
  /\ \A q, r \in DOMAIN l : Collides(l[q], l[r]) => q = r
  /\ \A m \in Member : \E n \in Nat : PlacesIn(l, m) = 1 .. n

Grows(l, l2) == DOMAIN l \subseteq DOMAIN l2 /\ \A q \in DOMAIN l : l2[q] = l[q]

HasFresh(t) == t.pc \in {"resolved", "planned", "inserted", "staged"}
HasPlan(t) == t.pc \in {"planned", "inserted", "staged"}

OneAuthor(b) == \E m \in Member : \A i \in DOMAIN b : b[i].author_member_id = m

RequestShape(t) ==
  /\ t.pc \in {"idle", "admitted", "resolved", "planned", "inserted", "staged",
               "closing", "refused"}
  /\ t.pc # "idle" => t.batch \in Batch /\ t.batch # <<>> /\ OneAuthor(t.batch)
  /\ t.pc \in {"resolved", "planned"} => DOMAIN t = {"pc", "batch", "retried", "fresh"}
  /\ t.pc = "closing" => DOMAIN t = {"pc", "batch", "closing"}

\* Every op of the batch is stored or about to be, each key once.
Selected(l, t) ==
  HasFresh(t) =>
    /\ t.fresh \subseteq DOMAIN t.batch
    /\ \A i \in DOMAIN t.batch :
         HeldIn(l, t.batch[i]) \/ \E k \in t.fresh : k <= i /\ t.batch[k] = t.batch[i]
    /\ \A i, j \in t.fresh : SameKey(t.batch[i], t.batch[j]) => i = j

\* The fresh ops continue their author's chain from a place it has reached.
Continues(l, t) ==
  HasPlan(t) =>
    \E base \in Nat : \A i \in t.fresh :
      /\ t.batch[i].author_seq = base + Rank(t.fresh, i)
      /\ 1 .. base \subseteq PlacesIn(l, t.batch[i].author_member_id)

\* No row of a batch and of the log, nor of another batch, meet in a constraint.
Inserted(l, next, t) ==
  HasRows(t) =>
    /\ \A i \in t.fresh : t.seqs[i] \in 1 .. (next - 1) /\ t.seqs[i] \notin DOMAIN l
    /\ \A i, j \in t.fresh : i < j => t.seqs[i] < t.seqs[j]
    /\ \A i \in t.fresh, q \in DOMAIN l : ~Collides(t.batch[i], l[q])

Stored(l, t) == t.pc = "closing" => \A i \in DOMAIN t.batch : HeldIn(l, t.batch[i])

RequestInv(l, next, t) ==
  /\ RequestShape(t) /\ Selected(l, t) /\ Continues(l, t)
  /\ Inserted(l, next, t) /\ Stored(l, t)

Apart(t, u) ==
  HasRows(t) /\ HasRows(u) =>
    \A i \in t.fresh, j \in u.fresh :
      ~Collides(t.batch[i], u.batch[j]) /\ t.seqs[i] # u.seqs[j]

ChainInv ==
  /\ SoundLog(log, nextSeq)
  /\ authored = Batch
  /\ DOMAIN txn = Slot
  /\ \A op \in acked : HeldIn(log, op)
  /\ \A s \in Slot : RequestInv(log, nextSeq, txn[s])
  /\ \A s, o \in Slot : s # o => Apart(txn[s], txn[o])

\* The log as a commit of t leaves it.
Appended(l, t) ==
  [q \in DOMAIN l \cup {t.seqs[i] : i \in t.fresh} |->
     IF q \in DOMAIN l THEN l[q] ELSE t.batch[CHOOSE i \in t.fresh : t.seqs[i] = q]]

-----------------------------------------------------------------------------
(* What a request knows survives a log that grows around it.               *)

LEMMA PlacesGrow ==
  ASSUME NEW l, NEW l2, Grows(l, l2), NEW m
  PROVE  PlacesIn(l, m) \subseteq PlacesIn(l2, m)
BY DEF Grows, PlacesIn

LEMMA RequestKept ==
  ASSUME NEW l, NEW l2, NEW n \in Nat, NEW n2 \in Nat, n <= n2, Grows(l, l2), NEW t,
         RequestInv(l, n, t),
         HasRows(t) => /\ \A i \in t.fresh : t.seqs[i] \notin DOMAIN l2
                       /\ \A i \in t.fresh, q \in DOMAIN l2 : ~Collides(t.batch[i], l2[q])
  PROVE  RequestInv(l2, n2, t)
<1>1. \A op : HeldIn(l, op) => HeldIn(l2, op)
  BY DEF HeldIn, Grows
<1>2. RequestShape(t) /\ Selected(l2, t) /\ Stored(l2, t)
  BY <1>1 DEF RequestInv, Selected, Stored
<1>3. Continues(l2, t)
  <2> SUFFICES ASSUME HasPlan(t)
               PROVE  \E base \in Nat : \A i \in t.fresh :
                        /\ t.batch[i].author_seq = base + Rank(t.fresh, i)
                        /\ 1 .. base \subseteq PlacesIn(l2, t.batch[i].author_member_id)
    BY DEF Continues
  <2>1. PICK base \in Nat : \A i \in t.fresh :
          /\ t.batch[i].author_seq = base + Rank(t.fresh, i)
          /\ 1 .. base \subseteq PlacesIn(l, t.batch[i].author_member_id)
    BY DEF RequestInv, Continues
  <2>2. \A m : PlacesIn(l, m) \subseteq PlacesIn(l2, m)
    BY PlacesGrow
  <2>3. \A i \in t.fresh : 1 .. base \subseteq PlacesIn(l2, t.batch[i].author_member_id)
    BY <2>1, <2>2
  <2> QED BY <2>1, <2>3
<1>4. Inserted(l2, n2, t)
  <2> SUFFICES ASSUME HasRows(t) PROVE Inserted(l2, n2, t)
    BY DEF Inserted
  <2>1. \A i \in t.fresh : t.seqs[i] \in 1 .. (n - 1)
    BY DEF RequestInv, Inserted
  <2>2. \A i \in t.fresh : t.seqs[i] \in 1 .. (n2 - 1)
    BY <2>1
  <2>3. \A i, j \in t.fresh : i < j => t.seqs[i] < t.seqs[j]
    BY DEF RequestInv, Inserted
  <2> QED BY <2>2, <2>3 DEF Inserted
<1> QED BY <1>2, <1>3, <1>4 DEF RequestInv

LEMMA GrowsItself == \A l : Grows(l, l)
BY DEF Grows

\* A sequence of ops of one batch: its indices are those of a sequence.
LEMMA BatchIndices ==
  ASSUME NEW b \in Batch
  PROVE  /\ b \in Seq(Posted) /\ Len(b) \in Nat /\ DOMAIN b = 1 .. Len(b)
         /\ \A i \in DOMAIN b : b[i] \in Posted
BY BatchAssumption

\* A commit leaves the log sound and every row of the request in it.
LEMMA AppendedSound ==
  ASSUME NEW l, NEW n, NEW t, SoundLog(l, n), RequestInv(l, n, t), HasRows(t)
  PROVE  /\ Grows(l, Appended(l, t))
         /\ DOMAIN Appended(l, t) = DOMAIN l \cup {t.seqs[i] : i \in t.fresh}
         /\ \A i \in t.fresh : Appended(l, t)[t.seqs[i]] = t.batch[i]
         /\ SoundLog(Appended(l, t), n)
         /\ \A i \in DOMAIN t.batch : HeldIn(Appended(l, t), t.batch[i])
<1> DEFINE l2 == Appended(l, t)
           b == t.batch
           S == t.fresh
<1>1. /\ b \in Batch /\ OneAuthor(b) /\ S \subseteq DOMAIN b
      /\ \A i, j \in S : SameKey(b[i], b[j]) => i = j
      /\ \A i \in S : t.seqs[i] \in 1 .. (n - 1) /\ t.seqs[i] \notin DOMAIN l
      /\ \A i, j \in S : i < j => t.seqs[i] < t.seqs[j]
      /\ \A i \in S, q \in DOMAIN l : ~Collides(b[i], l[q])
      /\ \A i \in DOMAIN b : HeldIn(l, b[i]) \/ \E k \in S : b[k] = b[i]
  <2>1. HasFresh(t) /\ HasPlan(t) /\ t.pc # "idle"
    BY DEF HasRows, HasFresh, HasPlan
  <2> QED BY <2>1 DEF RequestInv, RequestShape, Selected, Inserted
<1>2. /\ DOMAIN b = 1 .. Len(b) /\ Len(b) \in Nat /\ \A i \in DOMAIN b : b[i] \in Posted
  BY <1>1, BatchIndices
<1>3. PICK base \in Nat : \A i \in S :
        /\ b[i].author_seq = base + Rank(S, i)
        /\ 1 .. base \subseteq PlacesIn(l, b[i].author_member_id)
  <2>1. HasPlan(t)
    BY DEF HasRows, HasPlan
  <2> QED BY <2>1 DEF RequestInv, Continues
<1>4. \A i, j \in S : t.seqs[i] = t.seqs[j] => i = j
  <2> SUFFICES ASSUME NEW i \in S, NEW j \in S, i # j PROVE t.seqs[i] # t.seqs[j]
    OBVIOUS
  <2>1. i < j \/ j < i
    BY <1>1, <1>2
  <2>2. t.seqs[i] \in Int /\ t.seqs[j] \in Int
    BY <1>1
  <2>3. t.seqs[i] < t.seqs[j] \/ t.seqs[j] < t.seqs[i]
    BY <1>1, <2>1
  <2> QED BY <2>2, <2>3
<1>5. DOMAIN l2 = DOMAIN l \cup {t.seqs[i] : i \in S} /\ Grows(l, l2)
  BY DEF Appended, Grows
<1>6. ASSUME NEW i \in S PROVE l2[t.seqs[i]] = b[i]
  <2>1. (CHOOSE j \in S : t.seqs[j] = t.seqs[i]) = i
    BY <1>4
  <2>2. t.seqs[i] \in DOMAIN l2 /\ t.seqs[i] \notin DOMAIN l
    BY <1>1, <1>5
  <2> QED BY <2>1, <2>2 DEF Appended
<1>7. \A i, j \in S : b[i].author_seq = b[j].author_seq => i = j
  <2> SUFFICES ASSUME NEW i \in S, NEW j \in S, i # j
               PROVE  b[i].author_seq # b[j].author_seq
    OBVIOUS
  <2>1. i < j \/ j < i
    BY <1>1, <1>2
  <2>2. /\ Cardinality(S) \in Nat
        /\ \A k \in S : Rank(S, k) \in 1 .. Cardinality(S)
        /\ \A k, r \in S : k < r => Rank(S, k) < Rank(S, r)
    BY <1>1, <1>2, RankOrder
  <2>3. Rank(S, i) # Rank(S, j) /\ Rank(S, i) \in Nat /\ Rank(S, j) \in Nat
    BY <2>1, <2>2
  <2> QED BY <1>3, <2>3
<1> HIDE DEF l2
<1>8. \A q, r \in DOMAIN l2 : Collides(l2[q], l2[r]) => q = r
  <2> SUFFICES ASSUME NEW q \in DOMAIN l2, NEW r \in DOMAIN l2, Collides(l2[q], l2[r])
               PROVE  q = r
    OBVIOUS
  <2>1. CASE q \in DOMAIN l /\ r \in DOMAIN l
    BY <1>5, <2>1 DEF SoundLog, Grows
  <2>2. CASE q \in DOMAIN l /\ r \notin DOMAIN l
    <3>1. PICK i \in S : r = t.seqs[i]
      BY <1>5, <2>2
    <3>2. l2[r] = b[i] /\ l2[q] = l[q]
      BY <1>5, <1>6, <2>2, <3>1 DEF Grows
    <3>3. Collides(b[i], l[q])
      BY <3>2 DEF Collides
    <3> QED BY <1>1, <2>2, <3>3
  <2>3. CASE q \notin DOMAIN l /\ r \in DOMAIN l
    <3>1. PICK i \in S : q = t.seqs[i]
      BY <1>5, <2>3
    <3>2. l2[q] = b[i] /\ l2[r] = l[r]
      BY <1>5, <1>6, <2>3, <3>1 DEF Grows
    <3> QED BY <1>1, <2>3, <3>2
  <2>4. CASE q \notin DOMAIN l /\ r \notin DOMAIN l
    <3>1. PICK i \in S : q = t.seqs[i]
      BY <1>5, <2>4
    <3>2. PICK j \in S : r = t.seqs[j]
      BY <1>5, <2>4
    <3>3. Collides(b[i], b[j])
      BY <1>6, <3>1, <3>2
    <3>4. i = j
      BY <1>1, <1>7, <3>3 DEF Collides, SameKey
    <3> QED BY <3>1, <3>2, <3>4
  <2> QED BY <2>1, <2>2, <2>3, <2>4
<1>9. ASSUME NEW q \in DOMAIN l2 PROVE l2[q] \in Posted /\ l2[q].author_member_id \in Member
  <2>1. CASE q \in DOMAIN l
    BY <1>5, <2>1 DEF SoundLog, Grows
  <2>2. CASE q \notin DOMAIN l
    <3>1. PICK i \in S : q = t.seqs[i]
      BY <1>5, <2>2
    <3> QED BY <1>1, <1>2, <1>6, <3>1 DEF OneAuthor
  <2> QED BY <2>1, <2>2
<1>10. ASSUME NEW m \in Member PROVE \E k \in Nat : PlacesIn(l2, m) = 1 .. k
  <2>1. PICK k \in Nat : PlacesIn(l, m) = 1 .. k
    BY DEF SoundLog
  <2>2. PlacesIn(l2, m) =
          1 .. k \cup {b[i].author_seq : i \in {j \in S : b[j].author_member_id = m}}
    <3>1. ASSUME NEW x \in PlacesIn(l2, m)
          PROVE  x \in PlacesIn(l, m) \cup
                      {b[i].author_seq : i \in {j \in S : b[j].author_member_id = m}}
      <4>1. PICK q \in DOMAIN l2 : l2[q].author_member_id = m /\ x = l2[q].author_seq
        BY DEF PlacesIn
      <4>2. CASE q \in DOMAIN l
        BY <1>5, <4>1, <4>2 DEF PlacesIn, Grows
      <4>3. CASE q \notin DOMAIN l
        BY <1>5, <1>6, <4>1, <4>3
      <4> QED BY <4>2, <4>3
    <3>2. PlacesIn(l, m) \subseteq PlacesIn(l2, m)
      BY <1>5, PlacesGrow
    <3>3. ASSUME NEW i \in S, b[i].author_member_id = m
          PROVE  b[i].author_seq \in PlacesIn(l2, m)
      BY <1>5, <1>6, <3>3 DEF PlacesIn
    <3> QED BY <2>1, <3>1, <3>2, <3>3
  <2>3. CASE \A i \in S : b[i].author_member_id # m
    BY <2>1, <2>2, <2>3
  <2>4. CASE \E i \in S : b[i].author_member_id = m
    <3>1. \A i \in S : b[i].author_member_id = m
      BY <1>1, <2>4 DEF OneAuthor
    <3>2. /\ Cardinality(S) \in Nat
          /\ \A i \in S : Rank(S, i) \in 1 .. Cardinality(S)
          /\ \A c \in 1 .. Cardinality(S) : \E i \in S : Rank(S, i) = c
      BY <1>1, <1>2, RankOrder
    <3>3. 1 .. base \subseteq 1 .. k
      BY <1>3, <2>1, <2>4, <3>1
    <3>4. \A i \in S : base + Rank(S, i) \notin 1 .. k
      <4> SUFFICES ASSUME NEW i \in S, base + Rank(S, i) \in 1 .. k PROVE FALSE
        OBVIOUS
      <4>1. PICK q \in DOMAIN l : /\ l[q].author_member_id = m
                                  /\ l[q].author_seq = base + Rank(S, i)
        BY <2>1 DEF PlacesIn
      <4> QED BY <1>1, <1>3, <3>1, <4>1 DEF Collides
    <3>5. Cardinality(S) # 0
      BY <2>4, <3>2
    <3>6. base = k
      <4>1. PICK i \in S : Rank(S, i) = 1
        BY <3>2, <3>5
      <4>2. base + 1 \notin 1 .. k
        BY <3>4, <4>1
      <4> QED BY <3>3, <4>2
    <3>7. {b[i].author_seq : i \in {j \in S : b[j].author_member_id = m}}
            = {k + Rank(S, i) : i \in S}
      BY <1>3, <3>1, <3>6
    <3>8. {k + Rank(S, i) : i \in S} = k + 1 .. k + Cardinality(S)
      <4>1. ASSUME NEW x \in k + 1 .. k + Cardinality(S)
            PROVE  \E i \in S : x = k + Rank(S, i)
        <5>1. x - k \in 1 .. Cardinality(S) /\ x = k + (x - k)
          BY <3>2
        <5> QED BY <3>2, <5>1
      <4>2. \A i \in S : k + Rank(S, i) \in k + 1 .. k + Cardinality(S)
        BY <3>2
      <4> QED BY <4>1, <4>2
    <3>9. PlacesIn(l2, m) = 1 .. k + Cardinality(S)
      BY <2>2, <3>2, <3>7, <3>8
    <3> QED BY <3>2, <3>9
  <2> QED BY <2>3, <2>4
<1>11. DOMAIN l2 \subseteq 1 .. (n - 1) /\ n \in Nat \ {0}
  BY <1>1, <1>5 DEF SoundLog
<1>12. SoundLog(l2, n)
  BY <1>8, <1>9, <1>10, <1>11 DEF SoundLog
<1>13. \A i \in DOMAIN b : HeldIn(l2, b[i])
  <2> TAKE i \in DOMAIN b
  <2>1. CASE HeldIn(l, b[i])
    BY <1>5, <2>1 DEF HeldIn, Grows
  <2>2. CASE \E k \in S : b[k] = b[i]
    <3>1. PICK k \in S : b[k] = b[i]
      BY <2>2
    <3>2. t.seqs[k] \in DOMAIN l2 /\ l2[t.seqs[k]] = b[i]
      BY <1>5, <1>6, <3>1
    <3> QED BY <3>2 DEF HeldIn
  <2> QED BY <1>1, <2>1, <2>2
<1> QED BY <1>5, <1>6, <1>12, <1>13 DEF l2

-----------------------------------------------------------------------------
(* The chain invariant is inductive.                                       *)

LEMMA ApartSymmetric ==
  ASSUME NEW t, NEW u, Apart(t, u)
  PROVE  Apart(u, t)
BY DEF Apart, Collides

\* A step that leaves the log alone and touches one request.
LEMMA QuietStep ==
  ASSUME ChainInv, NEW s \in Slot, log' = log, nextSeq' \in Nat, nextSeq <= nextSeq',
         authored' = authored, \A op \in acked' : HeldIn(log, op),
         DOMAIN txn' = Slot, \A o \in Slot : o # s => txn'[o] = txn[o],
         RequestInv(log, nextSeq', txn'[s]),
         \A o \in Slot : o # s => Apart(txn'[s], txn[o])
  PROVE  ChainInv'
<1>1. SoundLog(log', nextSeq')
  <2>1. SoundLog(log, nextSeq)
    BY DEF ChainInv
  <2>2. nextSeq \in Nat \ {0} /\ DOMAIN log \subseteq 1 .. (nextSeq - 1)
    BY <2>1 DEF SoundLog
  <2>3. nextSeq' \in Nat \ {0} /\ DOMAIN log \subseteq 1 .. (nextSeq' - 1)
    BY <2>2
  <2> QED BY <2>1, <2>3 DEF SoundLog
<1>2. ASSUME NEW o \in Slot PROVE RequestInv(log', nextSeq', txn'[o])
  <2>1. CASE o = s
    BY <2>1
  <2>2. CASE o # s
    <3>1. RequestInv(log, nextSeq, txn[o]) /\ Grows(log, log) /\ nextSeq \in Nat
      BY GrowsItself DEF ChainInv, SoundLog
    <3>2. HasRows(txn[o]) => /\ \A i \in txn[o].fresh : txn[o].seqs[i] \notin DOMAIN log
                             /\ \A i \in txn[o].fresh, q \in DOMAIN log :
                                  ~Collides(txn[o].batch[i], log[q])
      BY <3>1 DEF RequestInv, Inserted
    <3>3. RequestInv(log, nextSeq', txn[o])
      BY <3>1, <3>2, RequestKept
    <3> QED BY <2>2, <3>3
  <2> QED BY <2>1, <2>2
<1>3. ASSUME NEW o \in Slot, NEW p \in Slot, o # p PROVE Apart(txn'[o], txn'[p])
  <2>1. CASE o # s /\ p # s
    BY <1>3, <2>1 DEF ChainInv
  <2>2. CASE o = s
    BY <1>3, <2>2
  <2>3. CASE p = s
    BY <1>3, <2>3, ApartSymmetric
  <2> QED BY <2>1, <2>2, <2>3
<1>4. authored' = Batch /\ \A op \in acked' : HeldIn(log', op)
  BY DEF ChainInv
<1> QED BY <1>1, <1>2, <1>3, <1>4 DEF ChainInv

LEMMA NoRowsApart ==
  ASSUME NEW t, NEW u, ~HasRows(t)
  PROVE  Apart(t, u)
BY DEF Apart

\* Idle or refused, a request holds nothing.
LEMMA EmptyHanded ==
  ASSUME NEW l, NEW n, NEW t, RequestShape(t), t.pc \in {"idle", "admitted", "refused"}
  PROVE  RequestInv(l, n, t) /\ ~HasRows(t)
BY DEF RequestInv, Selected, Continues, Inserted, Stored, HasFresh, HasPlan, HasRows

LEMMA IdleShape == RequestShape(Idle) /\ Idle.pc = "idle"
BY DEF RequestShape, Idle

LEMMA ChainInit == Init => ChainInv
<1> SUFFICES ASSUME Init PROVE ChainInv
  OBVIOUS
<1>1. DOMAIN log = {} /\ nextSeq = 1
  BY DEF Init
<1>2. \A m : PlacesIn(log, m) = 1 .. 0
  BY <1>1 DEF PlacesIn
<1>3. SoundLog(log, nextSeq)
  <2>1. nextSeq \in Nat \ {0} /\ DOMAIN log \subseteq 1 .. (nextSeq - 1)
    BY <1>1
  <2>2. \A m \in Member : \E n \in Nat : PlacesIn(log, m) = 1 .. n
    <3>1. 0 \in Nat
      OBVIOUS
    <3> QED BY <1>2, <3>1
  <2> QED BY <1>1, <2>1, <2>2 DEF SoundLog
<1>4. DOMAIN txn = Slot /\ \A s \in Slot : txn[s] = Idle
  BY DEF Init
<1>5. \A s \in Slot : RequestInv(log, nextSeq, txn[s]) /\ ~HasRows(txn[s])
  BY <1>4, IdleShape, EmptyHanded
<1>6. authored = Batch /\ acked = {}
  BY DEF Init
<1> QED BY <1>3, <1>4, <1>5, <1>6, NoRowsApart DEF ChainInv

\* Two ops of the devices' batches with one key are one op.
LEMMA SameKeySameOp ==
  ASSUME NEW op \in Posted, NEW other \in Posted,
         op.op_id = other.op_id, op.author_member_id = other.author_member_id
  PROVE  op = other
<1>1. PICK b \in Batch : \E i \in DOMAIN b : op = b[i]
  BY DEF Posted
<1>2. PICK c \in Batch : \E j \in DOMAIN c : other = c[j]
  BY DEF Posted
<1> QED BY <1>1, <1>2, OpIdsName

LEMMA ReplayIsHeld ==
  ASSUME SoundLog(log, nextSeq), NEW op \in Posted
  PROVE  IsReplay(db, op) <=> HeldIn(log, op)
<1>1. db.log = log
  BY DEF db
<1>2. ASSUME IsReplay(db, op) PROVE HeldIn(log, op)
  <2>1. PICK q \in DOMAIN log : /\ log[q].op_id = op.op_id
                                /\ log[q].author_member_id = op.author_member_id
    BY <1>1, <1>2 DEF IsReplay
  <2>2. log[q] = op
    BY <2>1, SameKeySameOp DEF SoundLog
  <2> QED BY <2>2 DEF HeldIn
<1>3. HeldIn(log, op) => IsReplay(db, op)
  BY <1>1 DEF IsReplay, HeldIn
<1> QED BY <1>2, <1>3

\* The first read selects: each op of the batch is stored or taken once.
LEMMA FreshSelects ==
  ASSUME SoundLog(log, nextSeq), NEW b \in Batch
  PROVE  /\ Fresh(b) \subseteq DOMAIN b
         /\ \A i \in DOMAIN b :
              HeldIn(log, b[i]) \/ \E k \in Fresh(b) : k <= i /\ b[k] = b[i]
         /\ \A i, j \in Fresh(b) : SameKey(b[i], b[j]) => i = j
<1>1. DOMAIN b = 1 .. Len(b) /\ Len(b) \in Nat /\ \A i \in DOMAIN b : b[i] \in Posted
  BY BatchIndices
<1>2. Fresh(b) \subseteq DOMAIN b
  BY DEF Fresh
<1>3. ASSUME NEW i \in DOMAIN b, ~HeldIn(log, b[i])
      PROVE  \E k \in Fresh(b) : k <= i /\ b[k] = b[i]
  <2> DEFINE Twins == {j \in DOMAIN b : SameKey(b[j], b[i])}
  <2>1. i \in Twins /\ Twins \in SUBSET Nat
    BY <1>1 DEF SameKey
  <2>2. PICK k \in Twins : \A j \in Twins : k <= j
    <3> HIDE DEF Twins
    <3> QED BY <2>1, LeastNat
  <2>3. k \in DOMAIN b /\ SameKey(b[k], b[i]) /\ k <= i
    BY <2>1, <2>2
  <2>4. b[k] = b[i]
    BY <1>1, <2>3, SameKeySameOp DEF SameKey
  <2>5. ASSUME NEW j \in DOMAIN b, j < k PROVE ~SameKey(b[j], b[k])
    <3>1. j \notin Twins
      BY <1>1, <2>2, <2>3, <2>5
    <3> QED BY <2>4, <3>1
  <2>6. ~IsReplay(db, b[k])
    BY <1>1, <1>3, <2>4, ReplayIsHeld
  <2>7. k \in Fresh(b)
    BY <2>3, <2>5, <2>6 DEF Fresh
  <2> QED BY <2>3, <2>4, <2>7
<1>4. ASSUME NEW i \in Fresh(b), NEW j \in Fresh(b), SameKey(b[i], b[j]) PROVE i = j
  <2>1. ~(i < j) /\ ~(j < i)
    BY <1>4 DEF Fresh, SameKey
  <2> QED BY <1>1, <1>2, <2>1
<1> QED BY <1>2, <1>3, <1>4

LEMMA AdmitKeepsChains ==
  ASSUME ChainInv, NEW s \in Slot, NEW m \in Member, NEW b \in authored, Admit(s, m, b)
  PROVE  ChainInv'
<1> DEFINE t == [pc |-> "admitted", batch |-> b, retried |-> FALSE]
<1>1. /\ b \in Batch /\ b # <<>> /\ Verdict(db, m, b) = Ok
      /\ txn' = [txn EXCEPT ![s] = t] /\ DOMAIN txn = Slot
      /\ UNCHANGED <<log, nextSeq, acked, authored>>
  BY DEF Admit, ChainInv, tables
<1>2. \A i \in DOMAIN b : b[i].author_member_id = m
  BY <1>1, BatchIndices, VerdictPasses
<1>3. RequestShape(t) /\ t.pc = "admitted"
  BY <1>1, <1>2 DEF RequestShape, OneAuthor
<1> HIDE DEF t
<1>4. txn'[s] = t /\ DOMAIN txn' = Slot /\ \A o \in Slot : o # s => txn'[o] = txn[o]
  BY <1>1
<1>5. RequestInv(log, nextSeq, t) /\ ~HasRows(t)
  BY <1>3, EmptyHanded
<1>6. nextSeq \in Nat /\ \A op \in acked : HeldIn(log, op)
  BY DEF ChainInv, SoundLog
<1> QED BY <1>1, <1>4, <1>5, <1>6, NoRowsApart, QuietStep

LEMMA RefusedShape ==
  ASSUME NEW t, RequestShape(t), t.pc # "idle", NEW code
  PROVE  RequestShape([pc |-> "refused", code |-> code, batch |-> t.batch])
BY DEF RequestShape

LEMMA ReadStoredKeepsChains ==
  ASSUME ChainInv, NEW s \in Slot, ReadStored(s)
  PROVE  ChainInv'
<1> DEFINE b == txn[s].batch
           t == [pc |-> "resolved", batch |-> b, retried |-> txn[s].retried,
                 fresh |-> Fresh(b)]
<1>1. /\ txn' = [txn EXCEPT ![s] = t] /\ DOMAIN txn = Slot
      /\ UNCHANGED <<log, nextSeq, acked, authored>>
  BY DEF ReadStored, ChainInv, tables
<1>2. RequestShape(txn[s]) /\ txn[s].pc = "admitted"
  BY DEF ChainInv, RequestInv, ReadStored
<1>3. b \in Batch /\ b # <<>> /\ OneAuthor(b)
  BY <1>2 DEF RequestShape
<1>4. SoundLog(log, nextSeq)
  BY DEF ChainInv
<1>5. RequestInv(log, nextSeq, t)
  <2>1. t.pc = "resolved" /\ t.batch = b /\ t.fresh = Fresh(b)
        /\ DOMAIN t = {"pc", "batch", "retried", "fresh"}
    OBVIOUS
  <2> HIDE DEF t
  <2>2. RequestShape(t)
    BY <1>3, <2>1 DEF RequestShape
  <2>3. Selected(log, t)
    BY <1>3, <1>4, <2>1, FreshSelects DEF Selected
  <2>4. Continues(log, t) /\ Inserted(log, nextSeq, t) /\ Stored(log, t)
    BY <2>1 DEF Continues, Inserted, Stored, HasPlan, HasRows
  <2> QED BY <2>2, <2>3, <2>4 DEF RequestInv
<1>6. ~HasRows(t)
  BY DEF HasRows
<1> HIDE DEF t
<1>7. txn'[s] = t /\ DOMAIN txn' = Slot /\ \A o \in Slot : o # s => txn'[o] = txn[o]
  BY <1>1
<1>8. nextSeq \in Nat /\ \A op \in acked : HeldIn(log, op)
  BY DEF ChainInv, SoundLog
<1> QED BY <1>1, <1>5, <1>6, <1>7, <1>8, NoRowsApart, QuietStep

\* Where the second read leaves an author: behind a place its chain has reached.
LEMMA HeadsContinue ==
  ASSUME SoundLog(log, nextSeq), NEW b, NEW fresh, OneAuthor(b), fresh \subseteq DOMAIN b,
         ChainContinues(b, fresh)
  PROVE  \E base \in Nat : \A i \in fresh :
           /\ b[i].author_seq = base + Rank(fresh, i)
           /\ 1 .. base \subseteq PlacesIn(log, b[i].author_member_id)
<1>1. PICK m \in Member : \A i \in DOMAIN b : b[i].author_member_id = m
  BY DEF OneAuthor
<1>2. PICK n \in Nat : PlacesIn(log, m) = 1 .. n
  BY DEF SoundLog
<1>3. LastAuthorSeq(m) = n
  <2>1. AuthorSeqs(m) = 1 .. n
    BY <1>2 DEF AuthorSeqs, PlacesIn
  <2> QED BY <2>1, SegmentMax DEF LastAuthorSeq
<1>4. \A i \in fresh : /\ b[i].author_seq = n + Rank(fresh, i)
                       /\ 1 .. n \subseteq PlacesIn(log, b[i].author_member_id)
  BY <1>1, <1>2, <1>3 DEF ChainContinues
<1> QED BY <1>4

LEMMA ReadHeadsKeepsChains ==
  ASSUME ChainInv, NEW s \in Slot, ReadHeads(s)
  PROVE  ChainInv'
<1> DEFINE t == txn[s]
<1>1. /\ DOMAIN txn = Slot /\ UNCHANGED <<log, nextSeq, acked, authored>>
      /\ t.pc = "resolved" /\ RequestInv(log, nextSeq, t) /\ SoundLog(log, nextSeq)
  BY DEF ReadHeads, ChainInv, tables
<1>2. nextSeq \in Nat /\ \A op \in acked : HeldIn(log, op)
  BY DEF ChainInv, SoundLog
<1>3. CASE ChainContinues(t.batch, t.fresh)
  <2> DEFINE u == [t EXCEPT !.pc = "planned"]
  <2>1. txn' = [txn EXCEPT ![s].pc = "planned"]
    BY <1>3 DEF ReadHeads
  <2>2. txn'[s] = u /\ DOMAIN txn' = Slot /\ \A o \in Slot : o # s => txn'[o] = txn[o]
    BY <1>1, <2>1
  <2>3. DOMAIN t = {"pc", "batch", "retried", "fresh"} /\ RequestShape(t) /\ Selected(log, t)
    BY <1>1 DEF RequestInv, RequestShape
  <2>4. /\ u.pc = "planned" /\ u.batch = t.batch /\ u.fresh = t.fresh
        /\ DOMAIN u = {"pc", "batch", "retried", "fresh"}
    BY <2>3
  <2> HIDE DEF u
  <2>5. RequestShape(u) /\ Selected(log, u)
    BY <1>1, <2>3, <2>4 DEF RequestShape, Selected, HasFresh
  <2>6. Continues(log, u)
    <3>1. OneAuthor(t.batch) /\ t.fresh \subseteq DOMAIN t.batch
      BY <1>1, <2>3 DEF RequestShape, Selected, HasFresh
    <3> QED BY <1>1, <1>3, <2>4, <3>1, HeadsContinue DEF Continues
  <2>7. Inserted(log, nextSeq, u) /\ Stored(log, u) /\ ~HasRows(u)
    BY <2>4 DEF Inserted, Stored, HasRows
  <2>8. RequestInv(log, nextSeq, u)
    BY <2>5, <2>6, <2>7 DEF RequestInv
  <2> QED BY <1>1, <1>2, <2>2, <2>7, <2>8, NoRowsApart, QuietStep
<1>4. CASE ~ChainContinues(t.batch, t.fresh)
  <2> DEFINE u == [pc |-> "refused", code |-> "author_chain_conflict", batch |-> t.batch]
  <2>1. txn' = [txn EXCEPT ![s] = u]
    BY <1>4 DEF ReadHeads, Refused
  <2>2. RequestShape(u) /\ u.pc = "refused"
    BY <1>1, RefusedShape DEF RequestInv
  <2> HIDE DEF u
  <2>3. txn'[s] = u /\ DOMAIN txn' = Slot /\ \A o \in Slot : o # s => txn'[o] = txn[o]
    BY <1>1, <2>1
  <2>4. RequestInv(log, nextSeq, u) /\ ~HasRows(u)
    BY <2>2, EmptyHanded
  <2> QED BY <1>1, <1>2, <2>3, <2>4, NoRowsApart, QuietStep
<1> QED BY <1>3, <1>4

LEMMA InsertKeepsChains ==
  ASSUME ChainInv, NEW s \in Slot, Insert(s)
  PROVE  ChainInv'
<1> DEFINE t == txn[s]
<1>1. /\ DOMAIN txn = Slot /\ UNCHANGED <<log, acked, authored>>
      /\ t.pc = "planned" /\ MayInsert(s)
      /\ RequestInv(log, nextSeq, t) /\ SoundLog(log, nextSeq)
  BY DEF Insert, ChainInv, tables
<1>2. nextSeq \in Nat \ {0} /\ \A op \in acked : HeldIn(log, op)
  BY DEF ChainInv, SoundLog
<1>3. /\ RequestShape(t) /\ Selected(log, t) /\ Continues(log, t)
      /\ t.batch \in Batch /\ t.batch # <<>> /\ OneAuthor(t.batch) /\ t.fresh \subseteq DOMAIN t.batch
  BY <1>1 DEF RequestInv, RequestShape, Selected, HasFresh
<1>4. /\ DOMAIN t.batch = 1 .. Len(t.batch) /\ Len(t.batch) \in Nat
      /\ t.fresh \in SUBSET (1 .. Len(t.batch))
  BY <1>3, BatchIndices
<1>5. CASE InsertFails(s) /\ t.retried
  <2> DEFINE u == [pc |-> "refused", code |-> "author_chain_conflict", batch |-> t.batch]
  <2>1. txn' = [txn EXCEPT ![s] = u] /\ nextSeq' = nextSeq + 1
    BY <1>5 DEF Insert, Refused
  <2>2. RequestShape(u) /\ u.pc = "refused"
    BY <1>1, <1>3, RefusedShape
  <2> HIDE DEF u
  <2>3. txn'[s] = u /\ DOMAIN txn' = Slot /\ \A o \in Slot : o # s => txn'[o] = txn[o]
    BY <1>1, <2>1
  <2>4. RequestInv(log, nextSeq', u) /\ ~HasRows(u)
    BY <2>2, EmptyHanded
  <2>5. nextSeq' \in Nat /\ nextSeq <= nextSeq'
    BY <1>2, <2>1
  <2> QED BY <1>1, <1>2, <2>3, <2>4, <2>5, NoRowsApart, QuietStep
<1>6. CASE InsertFails(s) /\ ~t.retried
  <2> DEFINE u == [pc |-> "admitted", batch |-> t.batch, retried |-> TRUE]
  <2>1. txn' = [txn EXCEPT ![s] = u] /\ nextSeq' = nextSeq + 1
    BY <1>6 DEF Insert
  <2>2. RequestShape(u) /\ u.pc = "admitted"
    BY <1>3 DEF RequestShape
  <2> HIDE DEF u
  <2>3. txn'[s] = u /\ DOMAIN txn' = Slot /\ \A o \in Slot : o # s => txn'[o] = txn[o]
    BY <1>1, <2>1
  <2>4. RequestInv(log, nextSeq', u) /\ ~HasRows(u)
    BY <2>2, EmptyHanded
  <2>5. nextSeq' \in Nat /\ nextSeq <= nextSeq'
    BY <1>2, <2>1
  <2> QED BY <1>1, <1>2, <2>3, <2>4, <2>5, NoRowsApart, QuietStep
<1>7. CASE ~InsertFails(s)
  <2>1. /\ nextSeq' = nextSeq + Cardinality(t.fresh)
        /\ txn' = [txn EXCEPT ![s] =
             [pc |-> "inserted", batch |-> t.batch, fresh |-> t.fresh,
              seqs |-> Drawn(t.fresh),
              unstamped |-> {GrantCert(t, i).grant_id : i \in
                {j \in ControlOps(t, "revoke") :
                   \/ GrantCert(t, j).grant_id \in NewGrantIds(t)
                   \/ /\ GrantCert(t, j).grant_id \in DOMAIN grants
                      /\ grants[GrantCert(t, j).grant_id].revoked_by_seq = Null}}]]
    BY <1>7 DEF Insert
  <2> DEFINE u == txn'[s]
  <2>2. /\ u.pc = "inserted" /\ u.batch = t.batch /\ u.fresh = t.fresh
        /\ u.seqs = Drawn(t.fresh)
        /\ DOMAIN txn' = Slot /\ \A o \in Slot : o # s => txn'[o] = txn[o]
    BY <1>1, <2>1
  <2>3. /\ Cardinality(t.fresh) \in Nat
        /\ \A i \in t.fresh : Rank(t.fresh, i) \in 1 .. Cardinality(t.fresh)
        /\ \A i, j \in t.fresh : i < j => Rank(t.fresh, i) < Rank(t.fresh, j)
    BY <1>4, RankOrder
  <2>4. nextSeq' \in Nat /\ nextSeq <= nextSeq'
    BY <1>2, <2>1, <2>3
  <2>5. \A i \in t.fresh : /\ u.seqs[i] = nextSeq + Rank(t.fresh, i) - 1
                           /\ u.seqs[i] \in nextSeq .. (nextSeq' - 1)
    BY <1>2, <2>1, <2>2, <2>3 DEF Drawn
  <2> HIDE DEF u
  <2>6. RequestShape(u) /\ Selected(log, u) /\ Continues(log, u) /\ Stored(log, u)
    BY <1>1, <1>3, <2>2 DEF RequestShape, Selected, Continues, Stored, HasFresh, HasPlan
  <2>7. Inserted(log, nextSeq', u)
    <3>1. \A i \in u.fresh : u.seqs[i] \in 1 .. (nextSeq' - 1) /\ u.seqs[i] \notin DOMAIN log
      <4>1. DOMAIN log \subseteq 1 .. (nextSeq - 1)
        BY <1>1 DEF SoundLog
      <4>2. \A i \in u.fresh : u.seqs[i] \in nextSeq .. (nextSeq' - 1)
        BY <2>2, <2>5
      <4> QED BY <1>2, <2>4, <4>1, <4>2
    <3>2. \A i, j \in u.fresh : i < j => u.seqs[i] < u.seqs[j]
      BY <1>2, <2>2, <2>3, <2>5
    <3>3. \A i \in u.fresh, q \in DOMAIN log : ~Collides(u.batch[i], log[q])
      BY <1>7, <2>2 DEF InsertFails, Rows
    <3> QED BY <3>1, <3>2, <3>3 DEF Inserted
  <2>8. ASSUME NEW o \in Slot, o # s PROVE Apart(u, txn[o])
    <3> SUFFICES ASSUME HasRows(txn[o]), NEW i \in u.fresh, NEW j \in txn[o].fresh
                 PROVE  /\ ~Collides(u.batch[i], txn[o].batch[j])
                        /\ u.seqs[i] # txn[o].seqs[j]
      BY DEF Apart
    <3>1. u.batch[i] \in Rows(t) /\ txn[o].batch[j] \in Rows(txn[o])
      BY <2>2 DEF Rows
    <3>2. ~Collides(u.batch[i], txn[o].batch[j])
      BY <1>1, <2>8, <3>1 DEF MayInsert
    <3>3. txn[o].seqs[j] \in 1 .. (nextSeq - 1)
      BY DEF ChainInv, RequestInv, Inserted
    <3>4. u.seqs[i] \in nextSeq .. (nextSeq' - 1)
      BY <2>2, <2>5
    <3> QED BY <1>2, <3>2, <3>3, <3>4
  <2>9. RequestInv(log, nextSeq', u)
    BY <2>6, <2>7 DEF RequestInv
  <2> QED BY <1>1, <1>2, <2>2, <2>4, <2>8, <2>9, QuietStep DEF u
<1> QED BY <1>5, <1>6, <1>7

LEMMA MaterialiseKeepsChains ==
  ASSUME ChainInv, NEW s \in Slot, Materialise(s)
  PROVE  ChainInv'
<1> DEFINE t == txn[s]
<1>1. /\ DOMAIN txn = Slot /\ UNCHANGED <<log, nextSeq, acked, authored>>
      /\ t.pc = "inserted" /\ RequestInv(log, nextSeq, t)
  BY DEF Materialise, ChainInv, tables
<1>2. nextSeq \in Nat /\ \A op \in acked : HeldIn(log, op)
  BY DEF ChainInv, SoundLog
<1>3. ASSUME NEW code, Refused(s, code) PROVE ChainInv'
  <2> DEFINE u == [pc |-> "refused", code |-> code, batch |-> t.batch]
  <2>1. txn' = [txn EXCEPT ![s] = u]
    BY <1>3 DEF Refused
  <2>2. RequestShape(u) /\ u.pc = "refused"
    BY <1>1, RefusedShape DEF RequestInv
  <2> HIDE DEF u
  <2>3. txn'[s] = u /\ DOMAIN txn' = Slot /\ \A o \in Slot : o # s => txn'[o] = txn[o]
    BY <1>1, <2>1
  <2>4. RequestInv(log, nextSeq, u) /\ ~HasRows(u)
    BY <2>2, EmptyHanded
  <2> QED BY <1>1, <1>2, <2>3, <2>4, NoRowsApart, QuietStep
<1>4. CASE IndexFails(t) \/ PruneFails(t)
  BY <1>3, <1>4 DEF Materialise
<1>5. CASE ~IndexFails(t) /\ ~PruneFails(t)
  <2> DEFINE u == [pc |-> "staged", batch |-> t.batch, fresh |-> t.fresh, seqs |-> t.seqs,
                   unstamped |-> t.unstamped, closing |-> Stripped(t)]
  <2>1. txn' = [txn EXCEPT ![s] = u]
    BY <1>5 DEF Materialise
  <2>2. u.pc = "staged" /\ u.batch = t.batch /\ u.fresh = t.fresh /\ u.seqs = t.seqs
    OBVIOUS
  <2> HIDE DEF u
  <2>3. txn'[s] = u /\ DOMAIN txn' = Slot /\ \A o \in Slot : o # s => txn'[o] = txn[o]
    BY <1>1, <2>1
  <2>4. RequestInv(log, nextSeq, u)
    <3>1. RequestShape(u)
      BY <1>1, <2>2 DEF RequestInv, RequestShape
    <3>2. Selected(log, u)
      BY <1>1, <2>2 DEF RequestInv, Selected, HasFresh
    <3>3. Continues(log, u)
      BY <1>1, <2>2 DEF RequestInv, Continues, HasPlan
    <3>4. Inserted(log, nextSeq, u)
      BY <1>1, <2>2 DEF RequestInv, Inserted, HasRows
    <3>5. Stored(log, u)
      BY <2>2 DEF Stored
    <3> QED BY <3>1, <3>2, <3>3, <3>4, <3>5 DEF RequestInv
  <2>5. \A o \in Slot : o # s => Apart(t, txn[o])
    BY DEF ChainInv
  <2>6. \A o \in Slot : o # s => Apart(u, txn[o])
    BY <1>1, <2>2, <2>5 DEF Apart, HasRows
  <2> QED BY <1>1, <1>2, <2>3, <2>4, <2>6, QuietStep
<1> QED BY <1>4, <1>5

\* What a commit does to the log, for all who look at it.
LEMMA CommitGrowsLog ==
  ASSUME ChainInv, NEW s \in Slot, Commit(s)
  PROVE  /\ HasRows(txn[s]) /\ RequestInv(log, nextSeq, txn[s])
         /\ log' = Appended(log, txn[s]) /\ Grows(log, log')
         /\ DOMAIN log' = DOMAIN log \cup {txn[s].seqs[i] : i \in txn[s].fresh}
         /\ \A i \in txn[s].fresh : log'[txn[s].seqs[i]] = txn[s].batch[i]
         /\ SoundLog(log', nextSeq)
         /\ \A i \in DOMAIN txn[s].batch : HeldIn(log', txn[s].batch[i])
<1>1. HasRows(txn[s]) /\ RequestInv(log, nextSeq, txn[s]) /\ SoundLog(log, nextSeq)
  BY DEF Commit, HasRows, ChainInv
<1>2. log' = Appended(log, txn[s])
  BY DEF Commit, LogAfter, Appended
<1>3. /\ Grows(log, Appended(log, txn[s]))
      /\ DOMAIN Appended(log, txn[s]) = DOMAIN log \cup {txn[s].seqs[i] : i \in txn[s].fresh}
      /\ \A i \in txn[s].fresh : Appended(log, txn[s])[txn[s].seqs[i]] = txn[s].batch[i]
      /\ SoundLog(Appended(log, txn[s]), nextSeq)
      /\ \A i \in DOMAIN txn[s].batch : HeldIn(Appended(log, txn[s]), txn[s].batch[i])
  BY <1>1, AppendedSound
<1> QED BY <1>1, <1>2, <1>3

LEMMA CommitKeepsChains ==
  ASSUME ChainInv, NEW s \in Slot, Commit(s)
  PROVE  ChainInv'
<1> DEFINE t == txn[s]
           u == [pc |-> "closing", batch |-> t.batch, closing |-> t.closing]
<1>1. /\ DOMAIN txn = Slot /\ UNCHANGED <<nextSeq, acked, authored>>
      /\ txn' = [txn EXCEPT ![s] = u]
  BY DEF Commit, ChainInv
<1>2. /\ HasRows(t) /\ RequestInv(log, nextSeq, t) /\ Grows(log, log')
      /\ DOMAIN log' = DOMAIN log \cup {t.seqs[i] : i \in t.fresh}
      /\ \A i \in t.fresh : log'[t.seqs[i]] = t.batch[i]
      /\ SoundLog(log', nextSeq)
      /\ \A i \in DOMAIN t.batch : HeldIn(log', t.batch[i])
  BY CommitGrowsLog
<1>3. /\ u.pc = "closing" /\ u.batch = t.batch /\ DOMAIN u = {"pc", "batch", "closing"}
  OBVIOUS
<1> HIDE DEF u
<1>4. txn'[s] = u /\ DOMAIN txn' = Slot /\ \A o \in Slot : o # s => txn'[o] = txn[o]
  BY <1>1
<1>5. RequestInv(log', nextSeq, u) /\ ~HasRows(u)
  BY <1>2, <1>3 DEF RequestInv, RequestShape, Selected, Continues, Inserted, Stored,
                    HasFresh, HasPlan, HasRows
<1>6. ASSUME NEW o \in Slot, o # s PROVE RequestInv(log', nextSeq, txn[o])
  <2>1. RequestInv(log, nextSeq, txn[o]) /\ nextSeq \in Nat /\ nextSeq <= nextSeq
    BY DEF ChainInv, SoundLog
  <2>2. ASSUME HasRows(txn[o])
        PROVE  /\ \A i \in txn[o].fresh : txn[o].seqs[i] \notin DOMAIN log'
               /\ \A i \in txn[o].fresh, q \in DOMAIN log' :
                    ~Collides(txn[o].batch[i], log'[q])
    <3>1. Apart(txn[o], t)
      BY <1>6 DEF ChainInv
    <3>2. \A i \in txn[o].fresh, j \in t.fresh :
            ~Collides(txn[o].batch[i], t.batch[j]) /\ txn[o].seqs[i] # t.seqs[j]
      BY <1>2, <2>2, <3>1 DEF Apart
    <3>3. /\ \A i \in txn[o].fresh : txn[o].seqs[i] \notin DOMAIN log
          /\ \A i \in txn[o].fresh, q \in DOMAIN log : ~Collides(txn[o].batch[i], log[q])
      BY <2>1, <2>2 DEF RequestInv, Inserted
    <3>4. \A i \in txn[o].fresh : txn[o].seqs[i] \notin DOMAIN log'
      BY <1>2, <3>2, <3>3
    <3>5. ASSUME NEW i \in txn[o].fresh, NEW q \in DOMAIN log'
          PROVE  ~Collides(txn[o].batch[i], log'[q])
      <4>1. CASE q \in DOMAIN log
        BY <1>2, <3>3, <4>1 DEF Grows
      <4>2. CASE q \notin DOMAIN log
        <5>1. PICK j \in t.fresh : q = t.seqs[j]
          BY <1>2, <4>2
        <5> QED BY <1>2, <3>2, <5>1
      <4> QED BY <4>1, <4>2
    <3> QED BY <3>4, <3>5
  <2> QED BY <1>2, <2>1, <2>2, RequestKept
<1>7. ASSUME NEW o \in Slot, NEW p \in Slot, o # p PROVE Apart(txn'[o], txn'[p])
  <2>1. CASE o # s /\ p # s
    BY <1>4, <1>7, <2>1 DEF ChainInv
  <2>2. CASE o = s
    BY <1>4, <1>5, <2>2, NoRowsApart
  <2>3. CASE p = s
    BY <1>4, <1>5, <2>3, NoRowsApart, ApartSymmetric
  <2> QED BY <2>1, <2>2, <2>3
<1>8. \A op \in acked' : HeldIn(log', op)
  BY <1>1, <1>2 DEF ChainInv, HeldIn, Grows
<1>9. authored' = Batch
  BY <1>1 DEF ChainInv
<1>10. \A o \in Slot : RequestInv(log', nextSeq', txn'[o])
  BY <1>1, <1>4, <1>5, <1>6
<1> QED BY <1>1, <1>2, <1>4, <1>7, <1>8, <1>9, <1>10 DEF ChainInv

LEMMA CloseTransportKeepsChains ==
  ASSUME ChainInv, NEW s \in Slot, NEW m \in Member, CloseTransport(s, m)
  PROVE  ChainInv'
<1> DEFINE t == txn[s]
           u == [t EXCEPT !.closing = @ \ {m}]
<1>1. /\ DOMAIN txn = Slot /\ UNCHANGED <<log, nextSeq, acked, authored>>
      /\ txn' = [txn EXCEPT ![s].closing = @ \ {m}]
      /\ t.pc = "closing" /\ RequestInv(log, nextSeq, t)
  BY DEF CloseTransport, ChainInv, tables
<1>2. nextSeq \in Nat /\ \A op \in acked : HeldIn(log, op)
  BY DEF ChainInv, SoundLog
<1>3. DOMAIN t = {"pc", "batch", "closing"}
  BY <1>1 DEF RequestInv, RequestShape
<1>4. u.pc = "closing" /\ u.batch = t.batch /\ DOMAIN u = {"pc", "batch", "closing"}
  BY <1>1, <1>3
<1>5. txn'[s] = u /\ DOMAIN txn' = Slot /\ \A o \in Slot : o # s => txn'[o] = txn[o]
  BY <1>1
<1> HIDE DEF u
<1>6. RequestInv(log, nextSeq, u) /\ ~HasRows(u)
  BY <1>1, <1>4 DEF RequestInv, RequestShape, Selected, Continues, Inserted, Stored,
                    HasFresh, HasPlan, HasRows
<1> QED BY <1>1, <1>2, <1>5, <1>6, NoRowsApart, QuietStep

LEMMA AnswersKeepChains ==
  ASSUME ChainInv, NEW s \in Slot, Answer(s) \/ AnswerRefusal(s)
  PROVE  ChainInv'
<1>1. /\ DOMAIN txn = Slot /\ UNCHANGED <<log, nextSeq, authored>>
      /\ txn' = [txn EXCEPT ![s] = Idle]
  BY DEF Answer, AnswerRefusal, ChainInv, tables
<1>2. nextSeq \in Nat /\ nextSeq <= nextSeq' /\ nextSeq' \in Nat
  BY <1>1 DEF ChainInv, SoundLog
<1>3. \A op \in acked' : HeldIn(log, op)
  <2>1. CASE Answer(s)
    <3>1. \A i \in DOMAIN txn[s].batch : HeldIn(log, txn[s].batch[i])
      BY <2>1 DEF Answer, ChainInv, RequestInv, Stored
    <3>2. acked' = acked \cup {txn[s].batch[i] : i \in DOMAIN txn[s].batch}
      BY <2>1 DEF Answer
    <3> QED BY <3>1, <3>2 DEF ChainInv
  <2>2. CASE AnswerRefusal(s)
    BY <2>2 DEF AnswerRefusal, ChainInv
  <2> QED BY <2>1, <2>2
<1>4. RequestInv(log, nextSeq', Idle) /\ ~HasRows(Idle)
  BY IdleShape, EmptyHanded
<1>5. txn'[s] = Idle /\ DOMAIN txn' = Slot /\ \A o \in Slot : o # s => txn'[o] = txn[o]
  BY <1>1
<1> QED BY <1>1, <1>2, <1>3, <1>4, <1>5, NoRowsApart, QuietStep

LEMMA CrashKeepsChains ==
  ASSUME ChainInv, Crash
  PROVE  ChainInv'
<1>1. /\ UNCHANGED <<log, nextSeq, acked, authored>>
      /\ DOMAIN txn' = Slot /\ \A s \in Slot : txn'[s] = Idle
  BY DEF Crash, tables
<1>2. \A s \in Slot : RequestInv(log', nextSeq', txn'[s]) /\ ~HasRows(txn'[s])
  BY <1>1, IdleShape, EmptyHanded
<1>3. SoundLog(log', nextSeq') /\ authored' = Batch /\ \A op \in acked' : HeldIn(log', op)
  BY <1>1 DEF ChainInv
<1> QED BY <1>1, <1>2, <1>3, NoRowsApart DEF ChainInv

LEMMA ChainInductive == ChainInv /\ [Next]_vars => ChainInv'
<1> SUFFICES ASSUME ChainInv, [Next]_vars PROVE ChainInv'
  OBVIOUS
<1>1. ASSUME NEW s \in Slot, NEW m \in Member, NEW b \in authored, Admit(s, m, b)
      PROVE  ChainInv'
  BY <1>1, AdmitKeepsChains
<1>2. ASSUME NEW s \in Slot, Step(s) PROVE ChainInv'
  BY <1>2, ReadStoredKeepsChains, ReadHeadsKeepsChains, InsertKeepsChains,
     MaterialiseKeepsChains, CommitKeepsChains, CloseTransportKeepsChains,
     AnswersKeepChains DEF Step
<1>3. ASSUME UNCHANGED vars PROVE ChainInv'
  <2>1. UNCHANGED <<log, nextSeq, acked, authored, txn>>
    BY <1>3 DEF vars, tables
  <2> QED BY <2>1 DEF ChainInv
<1> QED BY <1>1, <1>2, <1>3, CrashKeepsChains DEF Next

LEMMA ChainInvariant == Spec => []ChainInv
BY ChainInit, ChainInductive, PTL DEF Spec

-----------------------------------------------------------------------------
(* The chains the log spells, and the refinement.                          *)

ChainIn(l, m) ==
  [n \in 1 .. Cardinality(PlacesIn(l, m)) |->
     l[CHOOSE q \in DOMAIN l : l[q].author_member_id = m /\ l[q].author_seq = n]]

LEMMA ChainOfLog ==
  ASSUME NEW m
  PROVE  ChainOf(m) = ChainIn(log, m)
BY DEF ChainOf, ChainIn, AuthorSeqs, PlacesIn

\* A chain of a sound log is a sequence and holds exactly its author's rows.
LEMMA ChainInSound ==
  ASSUME NEW l, NEW next, SoundLog(l, next), NEW m \in Member
  PROVE  \E k \in Nat :
           /\ PlacesIn(l, m) = 1 .. k
           /\ DOMAIN ChainIn(l, m) = 1 .. k /\ Len(ChainIn(l, m)) = k
           /\ ChainIn(l, m) = [n \in 1 .. k |-> ChainIn(l, m)[n]]
           /\ \A n \in 1 .. k : \E q \in DOMAIN l :
                l[q].author_member_id = m /\ l[q].author_seq = n
           /\ \A q \in DOMAIN l : l[q].author_member_id = m =>
                l[q].author_seq \in 1 .. k /\ ChainIn(l, m)[l[q].author_seq] = l[q]
<1>1. PICK k \in Nat : PlacesIn(l, m) = 1 .. k
  BY DEF SoundLog
<1>2. Cardinality(PlacesIn(l, m)) = k
  BY <1>1, FS_Interval
<1>3. ChainIn(l, m) =
        [n \in 1 .. k |->
           l[CHOOSE q \in DOMAIN l : l[q].author_member_id = m /\ l[q].author_seq = n]]
  BY <1>2 DEF ChainIn
<1>4. DOMAIN ChainIn(l, m) = 1 .. k /\ Len(ChainIn(l, m)) = k
  BY <1>3
<1>5. \A n \in 1 .. k : \E q \in DOMAIN l : l[q].author_member_id = m /\ l[q].author_seq = n
  BY <1>1 DEF PlacesIn
<1>6. ASSUME NEW q \in DOMAIN l, l[q].author_member_id = m
      PROVE  l[q].author_seq \in 1 .. k /\ ChainIn(l, m)[l[q].author_seq] = l[q]
  <2>1. l[q].author_seq \in 1 .. k
    BY <1>1, <1>6 DEF PlacesIn
  <2> DEFINE r == CHOOSE p \in DOMAIN l : /\ l[p].author_member_id = m
                                          /\ l[p].author_seq = l[q].author_seq
  <2>2. r \in DOMAIN l /\ l[r].author_member_id = m /\ l[r].author_seq = l[q].author_seq
    BY <1>6
  <2>3. ChainIn(l, m)[l[q].author_seq] = l[r]
    BY <1>3, <2>1
  <2> HIDE DEF r
  <2>4. r = q
    BY <1>6, <2>2 DEF SoundLog, Collides
  <2> QED BY <2>1, <2>3, <2>4
<1>7. ChainIn(l, m) = [n \in 1 .. k |-> ChainIn(l, m)[n]]
  BY <1>3
<1> QED BY <1>1, <1>4, <1>5, <1>6, <1>7

\* A log that grows lengthens chains at their end, and leaves the chain of an
\* author with no new row as it was.
LEMMA ChainGrows ==
  ASSUME NEW l, NEW l2, NEW n1, NEW n2, SoundLog(l, n1), SoundLog(l2, n2),
         Grows(l, l2), NEW m \in Member
  PROVE  /\ Len(ChainIn(l, m)) \in Nat /\ Len(ChainIn(l2, m)) \in Nat
         /\ Len(ChainIn(l, m)) <= Len(ChainIn(l2, m))
         /\ \A i \in 1 .. Len(ChainIn(l, m)) : ChainIn(l2, m)[i] = ChainIn(l, m)[i]
         /\ (\A q \in DOMAIN l2 : l2[q].author_member_id = m => q \in DOMAIN l)
              => ChainIn(l2, m) = ChainIn(l, m)
<1>1. PICK k \in Nat :
        /\ PlacesIn(l, m) = 1 .. k /\ Len(ChainIn(l, m)) = k
        /\ ChainIn(l, m) = [n \in 1 .. k |-> ChainIn(l, m)[n]]
        /\ \A n \in 1 .. k : \E q \in DOMAIN l :
             l[q].author_member_id = m /\ l[q].author_seq = n
        /\ \A q \in DOMAIN l : l[q].author_member_id = m =>
             l[q].author_seq \in 1 .. k /\ ChainIn(l, m)[l[q].author_seq] = l[q]
  BY ChainInSound
<1>2. PICK k2 \in Nat :
        /\ PlacesIn(l2, m) = 1 .. k2 /\ Len(ChainIn(l2, m)) = k2
        /\ ChainIn(l2, m) = [n \in 1 .. k2 |-> ChainIn(l2, m)[n]]
        /\ \A n \in 1 .. k2 : \E q \in DOMAIN l2 :
             l2[q].author_member_id = m /\ l2[q].author_seq = n
        /\ \A q \in DOMAIN l2 : l2[q].author_member_id = m =>
             l2[q].author_seq \in 1 .. k2 /\ ChainIn(l2, m)[l2[q].author_seq] = l2[q]
  BY ChainInSound
<1>3. 1 .. k \subseteq 1 .. k2
  BY <1>1, <1>2, PlacesGrow
<1>4. k <= k2
  BY <1>3
<1>5. ASSUME NEW i \in 1 .. k PROVE ChainIn(l2, m)[i] = ChainIn(l, m)[i]
  <2>1. PICK q \in DOMAIN l : l[q].author_member_id = m /\ l[q].author_seq = i
    BY <1>1
  <2>2. q \in DOMAIN l2 /\ l2[q] = l[q]
    BY DEF Grows
  <2> QED BY <1>1, <1>2, <2>1, <2>2
<1>6. ASSUME \A q \in DOMAIN l2 : l2[q].author_member_id = m => q \in DOMAIN l
      PROVE  ChainIn(l2, m) = ChainIn(l, m)
  <2>1. ASSUME NEW i \in 1 .. k2 PROVE i \in 1 .. k
    <3>1. PICK q \in DOMAIN l2 : l2[q].author_member_id = m /\ l2[q].author_seq = i
      BY <1>2
    <3>2. q \in DOMAIN l /\ l2[q] = l[q]
      BY <1>6, <3>1 DEF Grows
    <3> QED BY <1>1, <3>1, <3>2
  <2>2. 1 .. k2 = 1 .. k
    BY <1>3, <2>1
  <2> QED BY <1>1, <1>2, <1>5, <2>2
<1> QED BY <1>1, <1>2, <1>4, <1>5, <1>6

chains == [m \in Member |-> ChainOf(m)]

\* What is held in the log is stored in a chain.
LEMMA HeldIsStored ==
  ASSUME NEW next, SoundLog(log, next), NEW op, HeldIn(log, op)
  PROVE  op \in Chains!Stored
<1>1. PICK q \in DOMAIN log : log[q] = op
  BY DEF HeldIn
<1> DEFINE m == op.author_member_id
           n == op.author_seq
<1>2. m \in Member
  BY <1>1 DEF SoundLog
<1>3. n \in DOMAIN ChainIn(log, m) /\ ChainIn(log, m)[n] = op
  <2> HIDE DEF m
  <2>1. log[q].author_member_id = m
    BY <1>1 DEF m
  <2> QED BY <1>1, <1>2, <2>1, ChainInSound
<1>4. n \in DOMAIN chains[m] /\ chains[m][n] = op
  BY <1>2, <1>3, ChainOfLog DEF chains
<1> QED BY <1>2, <1>4 DEF Chains!Stored, chains

LEMMA ChainsInit == Init => Chains!Init
<1> SUFFICES ASSUME Init PROVE Chains!Init
  OBVIOUS
<1>1. acked = {}
  BY DEF Init
<1> QED BY <1>1 DEF Chains!Init

LEMMA CommitRefines ==
  ASSUME ChainInv, ChainInv', NEW s \in Slot, Commit(s)
  PROVE  \E a \in Member : Chains!Grow(a)
<1> DEFINE t == txn[s]
<1>1. /\ HasRows(t) /\ RequestInv(log, nextSeq, t) /\ Grows(log, log')
      /\ DOMAIN log' = DOMAIN log \cup {t.seqs[i] : i \in t.fresh}
      /\ \A i \in t.fresh : log'[t.seqs[i]] = t.batch[i]
      /\ SoundLog(log', nextSeq) /\ SoundLog(log, nextSeq) /\ acked' = acked
  BY CommitGrowsLog DEF Commit, ChainInv
<1>2. PICK a \in Member : \A i \in t.fresh : t.batch[i].author_member_id = a
  <2>1. OneAuthor(t.batch) /\ t.fresh \subseteq DOMAIN t.batch
    BY <1>1 DEF RequestInv, RequestShape, Selected, HasRows, HasFresh
  <2> QED BY <2>1 DEF OneAuthor
<1>3. ASSUME NEW m \in Member
      PROVE  chains[m] = ChainIn(log, m) /\ chains'[m] = ChainIn(log', m)
  BY <1>3, ChainOfLog DEF chains, ChainOf, ChainIn, AuthorSeqs, PlacesIn
<1>4. ASSUME NEW m \in Member, m # a PROVE chains'[m] = chains[m]
  <2>1. \A q \in DOMAIN log' : log'[q].author_member_id = m => q \in DOMAIN log
    BY <1>1, <1>2, <1>4
  <2> QED BY <1>1, <1>3, <2>1, ChainGrows
<1>5. Chains!Extends(chains'[a], chains[a])
  BY <1>1, <1>3, ChainGrows DEF Chains!Extends
<1>6. chains' = [chains EXCEPT ![a] = chains'[a]]
  BY <1>4 DEF chains
<1> QED BY <1>1, <1>5, <1>6 DEF Chains!Grow, chains

LEMMA ChainsNext ==
  ASSUME ChainInv, ChainInv', [Next]_vars
  PROVE  Chains!Next \/ UNCHANGED <<chains, acked>>
<1>1. ASSUME log' = log, acked' = acked PROVE UNCHANGED <<chains, acked>>
  BY <1>1 DEF chains, ChainOf, AuthorSeqs
<1>2. ASSUME log' = log, acked \subseteq acked' PROVE Chains!Acknowledge
  <2>1. UNCHANGED chains
    BY <1>2 DEF chains, ChainOf, AuthorSeqs
  <2>2. \A op \in acked' : HeldIn(log, op)
    BY <1>2 DEF ChainInv
  <2>3. acked' \subseteq Chains!Stored
    BY <2>2, HeldIsStored DEF ChainInv
  <2> QED BY <1>2, <2>1, <2>3 DEF Chains!Acknowledge, chains
<1>3. ASSUME NEW s \in Slot, Answer(s) PROVE Chains!Next
  BY <1>2, <1>3 DEF Answer, tables, Chains!Next
<1>4. ASSUME NEW s \in Slot, Commit(s) PROVE Chains!Next
  BY <1>4, CommitRefines DEF Chains!Next
<1>5. ASSUME NEW s \in Slot, NEW m \in Member, NEW b \in authored, Admit(s, m, b)
      PROVE  log' = log /\ acked' = acked
  BY <1>5 DEF Admit, tables
<1>6. ASSUME NEW s \in Slot,
             \/ ReadStored(s) \/ ReadHeads(s) \/ Insert(s) \/ Materialise(s)
             \/ AnswerRefusal(s) \/ \E m \in Member : CloseTransport(s, m)
      PROVE  log' = log /\ acked' = acked
  BY <1>6 DEF ReadStored, ReadHeads, Insert, Materialise, AnswerRefusal, CloseTransport, tables
<1>7. Crash => log' = log /\ acked' = acked
  BY DEF Crash, tables
<1>8. UNCHANGED vars => log' = log /\ acked' = acked
  BY DEF vars, tables
<1> QED BY <1>1, <1>3, <1>4, <1>5, <1>6, <1>7, <1>8 DEF Next, Step

\* The server implements the append-only chains, whatever races, retries and
\* deaths a request meets: a step grows one author's chain at its end, tells an
\* author what is stored, or changes nothing a device can see.
THEOREM ServerImplementsChainLog == Spec => ImplementsChainLog
<1>1. ChainInv /\ ChainInv' /\ [Next]_vars => [Chains!Next]_<<chains, acked>>
  BY ChainsNext
<1>2. Spec => Chains!Init
  BY ChainsInit DEF Spec
<1>3. Spec => [][Chains!Next]_<<chains, acked>>
  BY <1>1, ChainInvariant, PTL DEF Spec
<1> QED BY <1>2, <1>3, PTL DEF ImplementsChainLog, Chains!Spec, chains

-----------------------------------------------------------------------------
(* The index tables: what the door vouched for, as it stands while other   *)
(* requests commit, over tables d.  A later table keeps what an earlier    *)
(* one says, except that a grant may gain a revocation.                    *)

TablesGrow(d, e) ==
  /\ Grows(d.log, e.log) /\ Grows(d.epochs, e.epochs)
  /\ DOMAIN d.grants \subseteq DOMAIN e.grants
  /\ \A g \in DOMAIN d.grants :
       /\ e.grants[g].member_id = d.grants[g].member_id
       /\ e.grants[g].role = d.grants[g].role
       /\ e.grants[g].granted_seq = d.grants[g].granted_seq
       /\ d.grants[g].revoked_by_seq # Null => e.grants[g].revoked_by_seq # Null
  /\ d.genesis # Null => e.genesis = d.genesis
  /\ \A m \in Member : d.chained[m] # NotChained => e.chained[m] = d.chained[m]

FoundingStands(d, b, i) ==
  /\ IsControl(b[i], "workspace_genesis") => i = 1 /\ \A j \in DOMAIN b : ~IsPrune(b[j])
  /\ d.genesis = Null => IsControl(b[1], "workspace_genesis")

GrantStands(d, b, i) ==
  LET cert == b[i].payload.cert
  IN IsControl(b[i], "grant") =>
       /\ \A j \in 1 .. i - 1 :
            IsControl(b[j], "grant") /\ b[j].payload.cert.grant_id = cert.grant_id
              => IsReplay(d, b[i]) /\ IsReplay(d, b[j])
       /\ IsPreferences =>
            \/ d.chained[cert.member_id] = MEMBER_KIND_DEVICE
            \/ \E j \in 1 .. i - 1 :
                 /\ IsRegistration(b[j])
                 /\ b[j].payload.cert.keys.member_id = cert.member_id
                 /\ b[j].payload.cert.keys.member_kind = MEMBER_KIND_DEVICE

Stands(d, b, i) ==
  /\ WellFormed(b[i])
  /\ FoundingStands(d, b, i)
  /\ RoleVouched(d, b, i)
  /\ GrantStands(d, b, i)
  /\ RevokeVouched(d, b, i)
  /\ RotateVouched(d, b, i)
  /\ PruneVouched(d, b, i)

BatchStands(d, t) == InFlight(t) => \A i \in DOMAIN t.batch : Stands(d, t.batch, i)

-----------------------------------------------------------------------------
(* Once its rows have seqs, what an op stands on lies below it: in the     *)
(* tables at a lower seq, or in a fresh op before it.                      *)

FoundingPlaced(d, t) ==
  IF d.genesis = Null THEN Founds(t)
  ELSE ~Founds(t) => \A i \in t.fresh : d.genesis < t.seqs[i]

RolePlaced(d, t, i) ==
  LET op == t.batch[i]
  IN \/ RootSigned(op)
     \/ \E g \in DOMAIN d.grants :
          /\ d.grants[g].member_id = op.author_member_id
          /\ d.grants[g].role \in ROLE_OP_CLASS_MATRIX[op.op_class]
          /\ d.grants[g].granted_seq < t.seqs[i]
     \/ \E k \in t.fresh :
          /\ k < i /\ IsControl(t.batch[k], "grant")
          /\ t.batch[k].payload.cert.member_id = op.author_member_id
          /\ t.batch[k].payload.cert.role \in ROLE_OP_CLASS_MATRIX[op.op_class]

GranteePlaced(d, t, i) ==
  LET m == t.batch[i].payload.cert.member_id
  IN IsControl(t.batch[i], "grant") /\ IsPreferences =>
       \/ d.chained[m] = MEMBER_KIND_DEVICE
       \/ \E k \in t.fresh :
            /\ IsRegistration(t.batch[k])
            /\ t.batch[k].payload.cert.keys.member_id = m
            /\ t.batch[k].payload.cert.keys.member_kind = MEMBER_KIND_DEVICE

\* A revoke stamps its target, or found it stamped.
RevokePlaced(d, t, i) ==
  LET gid == t.batch[i].payload.cert.grant_id
  IN IsControl(t.batch[i], "revoke") =>
       \/ gid \in t.unstamped
       \/ /\ gid \notin NewGrantIds(t) /\ gid \in DOMAIN d.grants
          /\ d.grants[gid].revoked_by_seq # Null

RotatePlaced(d, t, i) ==
  LET e == t.batch[i].payload.rotate.to_epoch
  IN IsControl(t.batch[i], "rotate") =>
       \/ e = 1
       \/ e - 1 \in DOMAIN d.epochs /\ d.epochs[e - 1] < t.seqs[i]
       \/ \E k \in t.fresh : k < i /\ MintsEpoch(t.batch[k], e - 1)

PrunePlaced(d, t, i) ==
  LET op == t.batch[i]
  IN IsPrune(op) =>
       \/ \E k \in t.fresh : /\ k < i /\ t.batch[k].op_class = OP_CLASS_COMPACTION
                             /\ t.batch[k].op_id = op.payload.compaction_op_id
       \/ \E c \in DOMAIN d.log : /\ c < t.seqs[i]
                                  /\ d.log[c].op_id = op.payload.compaction_op_id
                                  /\ d.log[c].author_member_id = op.author_member_id
                                  /\ d.log[c].op_class = OP_CLASS_COMPACTION

Placed(d, t) ==
  HasRows(t) =>
    /\ FoundingPlaced(d, t)
    /\ t.unstamped \subseteq DOMAIN d.grants \cup NewGrantIds(t)
    /\ \A i \in t.fresh :
         /\ RolePlaced(d, t, i) /\ GranteePlaced(d, t, i) /\ RevokePlaced(d, t, i)
         /\ RotatePlaced(d, t, i) /\ PrunePlaced(d, t, i)

\* What a request has staged is free in the tables ...
StagedFree(d, t) ==
  t.pc = "staged" =>
    /\ Founds(t) => d.genesis = Null
    /\ NewGrantIds(t) \cap DOMAIN d.grants = {}
    /\ NewEpochs(t) \cap DOMAIN d.epochs = {}
    /\ PruneSeqs(t) \subseteq {q \in DOMAIN d.stamp : d.stamp[q] = Null}

\* ... and staged by nobody else.
StagedApart(t, u) ==
  t.pc = "staged" /\ u.pc = "staged" =>
    /\ ~(Founds(t) /\ Founds(u))
    /\ NewGrantIds(t) \cap NewGrantIds(u) = {}
    /\ NewEpochs(t) \cap NewEpochs(u) = {}
    /\ PruneSeqs(t) \cap PruneSeqs(u) = {}

-----------------------------------------------------------------------------
(* The tables, against the log they index.                                 *)

GenesisSound(d) ==
  /\ \A q \in DOMAIN d.log : IsControl(d.log[q], "workspace_genesis") => d.genesis = q
  /\ IF d.genesis = Null THEN DOMAIN d.log = {}
     ELSE /\ d.genesis \in DOMAIN d.log
          /\ IsControl(d.log[d.genesis], "workspace_genesis")
          /\ \A q \in DOMAIN d.log : d.genesis <= q

GrantRow == {"member_id", "role", "granter", "granted_seq", "revoked_by_seq"}

GrantsSound(d) ==
  /\ \A q \in DOMAIN d.log : IsControl(d.log[q], "grant") =>
       LET cert == d.log[q].payload.cert
       IN /\ cert.grant_id \in DOMAIN d.grants
          /\ d.grants[cert.grant_id].granted_seq = q
          /\ d.grants[cert.grant_id].member_id = cert.member_id
          /\ d.grants[cert.grant_id].role = cert.role
  /\ \A g \in DOMAIN d.grants :
       /\ DOMAIN d.grants[g] = GrantRow
       /\ \E q \in DOMAIN d.log : /\ IsControl(d.log[q], "grant")
                                  /\ d.log[q].payload.cert.grant_id = g

RevokesSound(d) ==
  /\ \A q \in DOMAIN d.log : IsControl(d.log[q], "revoke") =>
       LET g == d.log[q].payload.cert.grant_id
       IN g \in DOMAIN d.grants /\ d.grants[g].revoked_by_seq # Null
  /\ \A g \in DOMAIN d.grants : d.grants[g].revoked_by_seq # Null =>
       LET q == d.grants[g].revoked_by_seq
       IN /\ q \in DOMAIN d.log /\ IsControl(d.log[q], "revoke")
          /\ d.log[q].payload.cert.grant_id = g

EpochsSound(d) ==
  /\ DOMAIN d.epochs \subseteq 1 .. MaxKeyEpoch
  /\ \A q \in DOMAIN d.log : IsControl(d.log[q], "rotate") =>
       LET e == d.log[q].payload.rotate.to_epoch
       IN e \in DOMAIN d.epochs /\ d.epochs[e] = q
  /\ \A e \in DOMAIN d.epochs :
       /\ d.epochs[e] \in DOMAIN d.log /\ MintsEpoch(d.log[d.epochs[e]], e)
       /\ \/ e = 1
          \/ e - 1 \in DOMAIN d.epochs /\ d.epochs[e - 1] < d.epochs[e]

ChainedSound(d) ==
  /\ \A q \in DOMAIN d.log : IsRegistration(d.log[q]) =>
       d.chained[d.log[q].payload.cert.keys.member_id]
         = d.log[q].payload.cert.keys.member_kind
  /\ \A m \in Member : d.chained[m] # NotChained =>
       \E q \in DOMAIN d.log : /\ IsRegistration(d.log[q])
                               /\ d.log[q].payload.cert.keys.member_id = m

RolesSound(d) ==
  \A q \in DOMAIN d.log :
    LET op == d.log[q]
    IN /\ WellFormed(op)
       /\ \/ RootSigned(op)
          \/ \E g \in DOMAIN d.grants :
               /\ d.grants[g].member_id = op.author_member_id
               /\ d.grants[g].role \in ROLE_OP_CLASS_MATRIX[op.op_class]
               /\ d.grants[g].granted_seq < q
       /\ IsControl(op, "grant") /\ IsPreferences =>
            d.chained[op.payload.cert.member_id] = MEMBER_KIND_DEVICE

PrunesSound(d) ==
  /\ DOMAIN d.stamp = DOMAIN d.log
  /\ \A p \in DOMAIN d.log : IsPrune(d.log[p]) =>
       /\ \A t \in Targets(d.log[p].payload) :
            /\ t.seq \in DOMAIN d.log /\ d.stamp[t.seq] = p
            /\ ~IsCompactionExempt(d.log[t.seq].op_class)
            /\ t.author_seq = d.log[t.seq].author_seq
       /\ \E c \in DOMAIN d.log :
            /\ c < p /\ d.log[c].op_id = d.log[p].payload.compaction_op_id
            /\ d.log[c].author_member_id = d.log[p].author_member_id
            /\ d.log[c].op_class = OP_CLASS_COMPACTION
  /\ \A q \in DOMAIN d.log : d.stamp[q] # Null =>
       /\ d.stamp[q] \in DOMAIN d.log /\ IsPrune(d.log[d.stamp[q]])
       /\ q \in TargetSeqs(d.log[d.stamp[q]])

TablesSound(d) ==
  /\ GenesisSound(d) /\ GrantsSound(d) /\ RevokesSound(d) /\ EpochsSound(d)
  /\ ChainedSound(d) /\ RolesSound(d) /\ PrunesSound(d)

RequestStands(d, t) == BatchStands(d, t) /\ Placed(d, t) /\ StagedFree(d, t)

IndexInv ==
  /\ TablesSound(db)
  /\ \A s \in Slot : RequestStands(db, txn[s])
  /\ \A s, o \in Slot : s # o => StagedApart(txn[s], txn[o])

-----------------------------------------------------------------------------
(* From the door to the rows.                                              *)

\* What the door vouches for stands.
LEMMA VouchedStands ==
  ASSUME ChainInv, TablesSound(db), NEW m, NEW b \in Batch, b # <<>>, Verdict(db, m, b) = Ok
  PROVE  \A i \in DOMAIN b : Stands(db, b, i)
<1>1. /\ b \in Seq(Posted) /\ DOMAIN b = 1 .. Len(b) /\ Len(b) \in Nat
      /\ \A i \in DOMAIN b : b[i] \in Posted
  BY BatchIndices
<1>2. Len(b) > 0
  BY <1>1
<1>3. DOMAIN db.epochs \subseteq 1 .. MaxKeyEpoch
  BY DEF TablesSound, EpochsSound
<1>4. \A i \in 1 .. Len(b) : IsPrune(b[i]) =>
        b[i].payload.targets \in Seq(Targets(b[i].payload))
  BY <1>1, PostedAssumption DEF IsPrune
<1>5. \A i \in 1 .. Len(b) : Vouched(db, b, i)
  BY <1>1, <1>2, <1>3, <1>4, AdmittedIsVouched
<1>6. SoundLog(log, nextSeq) /\ db.log = log
  BY DEF ChainInv, db
<1> SUFFICES ASSUME NEW i \in DOMAIN b PROVE Stands(db, b, i)
  OBVIOUS
<1>7. FoundingStands(db, b, i)
  <2>1. FoundingVouched(db, b, i)
    BY <1>1, <1>5 DEF Vouched
  <2>2. ASSUME db.genesis = Null, NEW j \in DOMAIN b PROVE ~IsPrune(b[j])
    <3>1. DOMAIN log = {}
      BY <1>6, <2>2 DEF TablesSound, GenesisSound
    <3>2. PruneVouched(db, b, j)
      BY <1>1, <1>5 DEF Vouched
    <3> QED BY <1>6, <3>1, <3>2 DEF PruneVouched, TargetSeqs
  <2> QED BY <2>1, <2>2 DEF FoundingStands, FoundingVouched
<1>8. GrantStands(db, b, i)
  <2>1. GrantVouched(db, b, i)
    BY <1>1, <1>5 DEF Vouched
  <2>2. ASSUME NEW j \in 1 .. i - 1, IsControl(b[i], "grant"), IsControl(b[j], "grant"),
               b[j].payload.cert.grant_id = b[i].payload.cert.grant_id
        PROVE  IsReplay(db, b[i]) /\ IsReplay(db, b[j])
    <3>1. j \in DOMAIN b /\ i \in 1 .. Len(b)
      BY <1>1
    <3>2. IsReplay(db, b[i])
      BY <2>1, <2>2 DEF GrantVouched
    <3>3. PICK q \in DOMAIN log : log[q] = b[i]
      BY <1>1, <1>6, <3>2, ReplayIsHeld DEF HeldIn
    <3>4. b[i].payload.cert.grant_id \in DOMAIN db.grants
      BY <1>6, <2>2, <3>3 DEF TablesSound, GrantsSound
    <3>5. GrantVouched(db, b, j)
      BY <1>1, <1>5, <3>1 DEF Vouched
    <3>6. IsReplay(db, b[j])
      BY <2>2, <3>4, <3>5 DEF GrantVouched
    <3> QED BY <3>2, <3>6
  <2> QED BY <2>1, <2>2 DEF GrantStands, GrantVouched
<1>9. /\ WellFormed(b[i]) /\ RoleVouched(db, b, i) /\ RevokeVouched(db, b, i)
      /\ RotateVouched(db, b, i) /\ PruneVouched(db, b, i)
  BY <1>1, <1>5 DEF Vouched
<1> QED BY <1>7, <1>8, <1>9 DEF Stands

\* And goes on standing while the tables grow.
LEMMA StandsKept ==
  ASSUME NEW d, NEW e, TablesGrow(d, e), NEW b, NEW i, Stands(d, b, i),
         IsControl(b[i], "grant") => b[i].payload.cert.member_id \in Member
  PROVE  Stands(e, b, i)
<1>1. \A op : IsReplay(d, op) => IsReplay(e, op)
  BY DEF TablesGrow, Grows, IsReplay
<1>2. WellFormed(b[i]) /\ FoundingStands(e, b, i)
  BY DEF Stands, FoundingStands, TablesGrow
<1>3. RoleVouched(e, b, i)
  <2>1. RoleVouched(d, b, i)
    BY DEF Stands
  <2>2. CASE \E g \in DOMAIN d.grants :
               /\ d.grants[g].member_id = b[i].author_member_id
               /\ d.grants[g].role \in ROLE_OP_CLASS_MATRIX[b[i].op_class]
    BY <2>2 DEF RoleVouched, TablesGrow
  <2> QED BY <2>1, <2>2 DEF RoleVouched
<1>4. GrantStands(e, b, i)
  <2>1. GrantStands(d, b, i)
    BY DEF Stands
  <2>2. ASSUME IsControl(b[i], "grant"),
               d.chained[b[i].payload.cert.member_id] = MEMBER_KIND_DEVICE
        PROVE  e.chained[b[i].payload.cert.member_id] = MEMBER_KIND_DEVICE
    <3>1. MEMBER_KIND_DEVICE # NotChained
      BY DEF MEMBER_KIND_DEVICE, NotChained
    <3> QED BY <2>2, <3>1 DEF TablesGrow
  <2> QED BY <1>1, <2>1, <2>2 DEF GrantStands
<1>5. RevokeVouched(e, b, i)
  BY DEF Stands, RevokeVouched, TablesGrow
<1>6. RotateVouched(e, b, i)
  <2>1. \A x : EpochReached(d, b, i, x) => EpochReached(e, b, i, x)
    BY DEF EpochReached, TablesGrow, Grows
  <2> QED BY <2>1 DEF Stands, RotateVouched
<1>7. PruneVouched(e, b, i)
  <2> SUFFICES ASSUME IsPrune(b[i]) PROVE PruneVouched(e, b, i)
    BY DEF PruneVouched
  <2>1. PruneVouched(d, b, i)
    BY DEF Stands
  <2>2. \A t \in Targets(b[i].payload) :
          /\ t.seq \in DOMAIN e.log
          /\ ~IsCompactionExempt(e.log[t.seq].op_class)
          /\ t.author_seq = e.log[t.seq].author_seq
    <3>1. \A t \in Targets(b[i].payload) :
            /\ t.seq \in DOMAIN d.log
            /\ ~IsCompactionExempt(d.log[t.seq].op_class)
            /\ t.author_seq = d.log[t.seq].author_seq
      BY <2>1 DEF PruneVouched
    <3> QED BY <3>1 DEF TablesGrow, Grows
  <2>3. ASSUME NEW seq \in DOMAIN d.log
        PROVE  seq \in DOMAIN e.log /\ e.log[seq] = d.log[seq]
    BY DEF TablesGrow, Grows
  <2>4. \/ \E j \in 1 .. i - 1 : /\ b[j].op_class = OP_CLASS_COMPACTION
                                 /\ b[j].op_id = b[i].payload.compaction_op_id
        \/ \E seq \in DOMAIN e.log :
             /\ e.log[seq].op_id = b[i].payload.compaction_op_id
             /\ e.log[seq].author_member_id = b[i].author_member_id
             /\ e.log[seq].op_class = OP_CLASS_COMPACTION
    <3>1. CASE \E seq \in DOMAIN d.log :
                 /\ d.log[seq].op_id = b[i].payload.compaction_op_id
                 /\ d.log[seq].author_member_id = b[i].author_member_id
                 /\ d.log[seq].op_class = OP_CLASS_COMPACTION
      BY <2>3, <3>1
    <3> QED BY <2>1, <3>1 DEF PruneVouched
  <2> QED BY <1>1, <2>1, <2>2, <2>4 DEF PruneVouched
<1> QED BY <1>2, <1>3, <1>4, <1>5, <1>6, <1>7 DEF Stands

LEMMA PlacedKept ==
  ASSUME NEW d, NEW e, TablesGrow(d, e), NEW t, Placed(d, t),
         HasRows(t) => \A i \in t.fresh :
           IsControl(t.batch[i], "grant") => t.batch[i].payload.cert.member_id \in Member
  PROVE  Placed(e, t)
<1> SUFFICES ASSUME HasRows(t) PROVE Placed(e, t)
  BY DEF Placed
<1>1. FoundingPlaced(e, t)
  BY DEF Placed, FoundingPlaced, TablesGrow
<1>2. t.unstamped \subseteq DOMAIN e.grants \cup NewGrantIds(t)
  BY DEF Placed, TablesGrow
<1>3. ASSUME NEW i \in t.fresh PROVE RolePlaced(e, t, i)
  <2>1. RolePlaced(d, t, i)
    BY DEF Placed
  <2>2. CASE \E g \in DOMAIN d.grants :
               /\ d.grants[g].member_id = t.batch[i].author_member_id
               /\ d.grants[g].role \in ROLE_OP_CLASS_MATRIX[t.batch[i].op_class]
               /\ d.grants[g].granted_seq < t.seqs[i]
    BY <2>2 DEF RolePlaced, TablesGrow
  <2> QED BY <2>1, <2>2 DEF RolePlaced
<1>4. ASSUME NEW i \in t.fresh PROVE GranteePlaced(e, t, i)
  <2>1. MEMBER_KIND_DEVICE # NotChained
    BY DEF MEMBER_KIND_DEVICE, NotChained
  <2> QED BY <2>1 DEF Placed, GranteePlaced, TablesGrow
<1>5. ASSUME NEW i \in t.fresh PROVE RevokePlaced(e, t, i)
  BY DEF Placed, RevokePlaced, TablesGrow
<1>6. ASSUME NEW i \in t.fresh PROVE RotatePlaced(e, t, i)
  BY DEF Placed, RotatePlaced, TablesGrow, Grows
<1>7. ASSUME NEW i \in t.fresh PROVE PrunePlaced(e, t, i)
  <2>1. PrunePlaced(d, t, i)
    BY DEF Placed
  <2>2. ASSUME NEW c \in DOMAIN d.log PROVE c \in DOMAIN e.log /\ e.log[c] = d.log[c]
    BY DEF TablesGrow, Grows
  <2> QED BY <2>1, <2>2 DEF PrunePlaced
<1> QED BY <1>1, <1>2, <1>3, <1>4, <1>5, <1>6, <1>7 DEF Placed

LEMMA ControlOpsAre ==
  ASSUME NEW t, NEW type
  PROVE  ControlOps(t, type) = {i \in t.fresh : IsControl(t.batch[i], type)}
BY DEF ControlOps, IsControl

\* The ids a revoke was read without a stamp under, as Insert leaves them.
Unstamped(d, t) ==
  {GrantCert(t, i).grant_id : i \in
     {j \in ControlOps(t, "revoke") :
        \/ GrantCert(t, j).grant_id \in NewGrantIds(t)
        \/ /\ GrantCert(t, j).grant_id \in DOMAIN d.grants
           /\ d.grants[GrantCert(t, j).grant_id].revoked_by_seq = Null}}

\* Rows that draw seqs above the whole log have what they stand on below them.
LEMMA InsertPlaces ==
  ASSUME NEW d, NEW t, NEW n \in Nat, TablesSound(d), HasRows(t),
         t.batch \in Batch, t.batch # <<>>, OneAuthor(t.batch), Selected(d.log, t),
         \A i \in DOMAIN t.batch : Stands(d, t.batch, i),
         DOMAIN d.log \subseteq 1 .. (n - 1),
         \A i \in t.fresh : t.seqs[i] \in Nat /\ n <= t.seqs[i],
         t.unstamped = Unstamped(d, t)
  PROVE  Placed(d, t)
<1> DEFINE b == t.batch
<1>1. /\ DOMAIN b = 1 .. Len(b) /\ Len(b) \in Nat /\ t.fresh \subseteq DOMAIN b
      /\ \A i \in DOMAIN b : HeldIn(d.log, b[i]) \/ \E k \in t.fresh : k <= i /\ b[k] = b[i]
  <2>1. HasFresh(t)
    BY DEF HasRows, HasFresh
  <2> QED BY <2>1, BatchIndices DEF Selected
<1>2. ASSUME NEW i \in t.fresh, NEW q \in DOMAIN d.log PROVE q < t.seqs[i]
  <2>1. q \in 1 .. (n - 1) /\ t.seqs[i] \in Nat /\ n <= t.seqs[i]
    OBVIOUS
  <2> QED BY <2>1
<1>3. ASSUME NEW i \in t.fresh, NEW j \in 1 .. i - 1
      PROVE  \/ \E q \in DOMAIN d.log : d.log[q] = b[j]
             \/ \E k \in t.fresh : k < i /\ b[k] = b[j]
  <2>1. j \in DOMAIN b /\ i \in Nat /\ j < i
    BY <1>1
  <2>2. \A k \in t.fresh : k \in Nat
    BY <1>1
  <2>3. CASE HeldIn(d.log, b[j])
    BY <2>3 DEF HeldIn
  <2>4. CASE \E k \in t.fresh : k <= j /\ b[k] = b[j]
    BY <2>1, <2>2, <2>4
  <2> QED BY <1>1, <2>1, <2>3, <2>4
<1>4. \A i \in t.fresh : Stands(d, b, i)
  BY <1>1
<1>5. FoundingPlaced(d, t)
  <2>1. CASE d.genesis = Null
    <3>1. DOMAIN d.log = {}
      BY <2>1 DEF TablesSound, GenesisSound
    <3>2. 1 \in DOMAIN b
      BY <1>1
    <3>3. IsControl(b[1], "workspace_genesis")
      BY <2>1, <3>2 DEF Stands, FoundingStands
    <3>4. PICK k \in t.fresh : b[k] = b[1]
      BY <1>1, <3>1, <3>2 DEF HeldIn
    <3>5. k \in ControlOps(t, "workspace_genesis")
      BY <3>3, <3>4, ControlOpsAre
    <3> QED BY <2>1, <3>5 DEF FoundingPlaced, Founds
  <2>2. CASE d.genesis # Null
    <3>1. d.genesis \in DOMAIN d.log
      BY <2>2 DEF TablesSound, GenesisSound
    <3> QED BY <1>2, <2>2, <3>1 DEF FoundingPlaced
  <2> QED BY <2>1, <2>2
<1>6. t.unstamped \subseteq DOMAIN d.grants \cup NewGrantIds(t)
  BY DEF Unstamped
<1>7. ASSUME NEW i \in t.fresh PROVE RolePlaced(d, t, i)
  <2>1. RoleVouched(d, b, i)
    BY <1>4 DEF Stands
  <2>2. ASSUME NEW g \in DOMAIN d.grants PROVE d.grants[g].granted_seq < t.seqs[i]
    BY <1>2, <2>2 DEF TablesSound, GrantsSound
  <2>3. CASE \E g \in DOMAIN d.grants :
               /\ d.grants[g].member_id = b[i].author_member_id
               /\ d.grants[g].role \in ROLE_OP_CLASS_MATRIX[b[i].op_class]
    BY <2>2, <2>3 DEF RolePlaced
  <2>4. ASSUME NEW j \in 1 .. i - 1, IsControl(b[j], "grant"),
               b[j].payload.cert.member_id = b[i].author_member_id,
               b[j].payload.cert.role \in ROLE_OP_CLASS_MATRIX[b[i].op_class]
        PROVE  RolePlaced(d, t, i)
    <3>1. CASE \E q \in DOMAIN d.log : d.log[q] = b[j]
      <4>1. PICK q \in DOMAIN d.log : d.log[q] = b[j]
        BY <3>1
      <4>2. b[j].payload.cert.grant_id \in DOMAIN d.grants
            /\ d.grants[b[j].payload.cert.grant_id].member_id = b[j].payload.cert.member_id
            /\ d.grants[b[j].payload.cert.grant_id].role = b[j].payload.cert.role
        BY <2>4, <4>1 DEF TablesSound, GrantsSound
      <4> QED BY <2>3, <2>4, <4>2
    <3>2. CASE \E k \in t.fresh : k < i /\ b[k] = b[j]
      BY <2>4, <3>2 DEF RolePlaced
    <3> QED BY <1>3, <3>1, <3>2
  <2>5. CASE RootSigned(b[i])
    BY <2>5 DEF RolePlaced
  <2> QED BY <2>1, <2>3, <2>4, <2>5 DEF RoleVouched
<1>8. ASSUME NEW i \in t.fresh PROVE GranteePlaced(d, t, i)
  <2> DEFINE m == b[i].payload.cert.member_id
  <2> SUFFICES ASSUME IsControl(b[i], "grant"), IsPreferences PROVE GranteePlaced(d, t, i)
    BY DEF GranteePlaced
  <2>1. GrantStands(d, b, i)
    BY <1>4 DEF Stands
  <2>2. ASSUME NEW j \in 1 .. i - 1, IsRegistration(b[j]),
               b[j].payload.cert.keys.member_id = m,
               b[j].payload.cert.keys.member_kind = MEMBER_KIND_DEVICE
        PROVE  GranteePlaced(d, t, i)
    <3>1. CASE \E q \in DOMAIN d.log : d.log[q] = b[j]
      <4>1. PICK q \in DOMAIN d.log : d.log[q] = b[j]
        BY <3>1
      <4>2. d.chained[m] = MEMBER_KIND_DEVICE
        BY <2>2, <4>1 DEF TablesSound, ChainedSound
      <4> QED BY <4>2 DEF GranteePlaced
    <3>2. CASE \E k \in t.fresh : k < i /\ b[k] = b[j]
      BY <2>2, <3>2 DEF GranteePlaced
    <3> QED BY <1>3, <3>1, <3>2
  <2>3. CASE d.chained[m] = MEMBER_KIND_DEVICE
    BY <2>3 DEF GranteePlaced
  <2> QED BY <2>1, <2>2, <2>3 DEF GrantStands
<1>9. ASSUME NEW i \in t.fresh PROVE RevokePlaced(d, t, i)
  <2> DEFINE gid == b[i].payload.cert.grant_id
  <2> SUFFICES ASSUME IsControl(b[i], "revoke"), gid \notin t.unstamped
               PROVE  /\ gid \notin NewGrantIds(t) /\ gid \in DOMAIN d.grants
                      /\ d.grants[gid].revoked_by_seq # Null
    BY DEF RevokePlaced
  <2>1. i \in ControlOps(t, "revoke") /\ GrantCert(t, i).grant_id = gid
    BY ControlOpsAre DEF GrantCert
  <2>2. gid \notin NewGrantIds(t)
    BY <2>1 DEF Unstamped
  <2>3. RevokeVouched(d, b, i)
    BY <1>4 DEF Stands
  <2>4. ASSUME NEW j \in 1 .. i - 1, IsControl(b[j], "grant"),
               b[j].payload.cert.grant_id = gid
        PROVE  gid \in DOMAIN d.grants
    <3>1. CASE \E q \in DOMAIN d.log : d.log[q] = b[j]
      BY <2>4, <3>1 DEF TablesSound, GrantsSound
    <3>2. CASE \E k \in t.fresh : k < i /\ b[k] = b[j]
      <4>1. PICK k \in t.fresh : b[k] = b[j]
        BY <3>2
      <4>2. k \in ControlOps(t, "grant") /\ GrantCert(t, k).grant_id = gid
        BY <2>4, <4>1, ControlOpsAre DEF GrantCert
      <4> QED BY <2>2, <4>2 DEF NewGrantIds
    <3> QED BY <1>3, <3>1, <3>2
  <2>5. gid \in DOMAIN d.grants
    BY <2>3, <2>4 DEF RevokeVouched
  <2>6. d.grants[gid].revoked_by_seq # Null
    BY <2>1, <2>5 DEF Unstamped
  <2> QED BY <2>2, <2>5, <2>6
<1>10. ASSUME NEW i \in t.fresh PROVE RotatePlaced(d, t, i)
  <2> DEFINE e == b[i].payload.rotate.to_epoch
  <2> SUFFICES ASSUME IsControl(b[i], "rotate"), e # 1 PROVE RotatePlaced(d, t, i)
    BY DEF RotatePlaced
  <2>1. EpochReached(d, b, i, e - 1)
    BY <1>4 DEF Stands, RotateVouched
  <2>2. ASSUME NEW x \in DOMAIN d.epochs PROVE d.epochs[x] < t.seqs[i]
    BY <1>2 DEF TablesSound, EpochsSound
  <2>3. ASSUME NEW j \in 1 .. i - 1, MintsEpoch(b[j], e - 1)
        PROVE  RotatePlaced(d, t, i)
    <3>1. CASE \E q \in DOMAIN d.log : d.log[q] = b[j]
      <4>1. e - 1 \in DOMAIN d.epochs
        BY <2>3, <3>1 DEF TablesSound, EpochsSound, MintsEpoch
      <4> QED BY <2>2, <4>1 DEF RotatePlaced
    <3>2. CASE \E k \in t.fresh : k < i /\ b[k] = b[j]
      BY <2>3, <3>2 DEF RotatePlaced
    <3> QED BY <1>3, <3>1, <3>2
  <2> QED BY <2>1, <2>2, <2>3 DEF EpochReached, RotatePlaced
<1>11. ASSUME NEW i \in t.fresh PROVE PrunePlaced(d, t, i)
  <2> SUFFICES ASSUME IsPrune(b[i]) PROVE PrunePlaced(d, t, i)
    BY DEF PrunePlaced
  <2> DEFINE known == \E c \in DOMAIN d.log :
                        /\ d.log[c].op_id = b[i].payload.compaction_op_id
                        /\ d.log[c].author_member_id = b[i].author_member_id
                        /\ d.log[c].op_class = OP_CLASS_COMPACTION
  <2>1. known => PrunePlaced(d, t, i)
    BY <1>2 DEF PrunePlaced
  <2>2. PruneVouched(d, b, i)
    BY <1>4 DEF Stands
  <2>3. ASSUME NEW j \in 1 .. i - 1, b[j].op_class = OP_CLASS_COMPACTION,
               b[j].op_id = b[i].payload.compaction_op_id
        PROVE  PrunePlaced(d, t, i)
    <3>1. CASE \E q \in DOMAIN d.log : d.log[q] = b[j]
      <4>1. b[j].author_member_id = b[i].author_member_id
        <5>1. HasRows(t) /\ j \in DOMAIN b /\ i \in DOMAIN b
          BY <1>1
        <5> QED BY <5>1 DEF OneAuthor
      <4> QED BY <2>1, <2>3, <3>1, <4>1
    <3>2. CASE \E k \in t.fresh : k < i /\ b[k] = b[j]
      BY <2>3, <3>2 DEF PrunePlaced
    <3> QED BY <1>3, <3>1, <3>2
  <2> QED BY <2>1, <2>2, <2>3 DEF PruneVouched
<1> QED BY <1>5, <1>6, <1>7, <1>8, <1>9, <1>10, <1>11 DEF Placed

-----------------------------------------------------------------------------
(* The steps that leave the tables alone.                                  *)

LEMMA StagedApartSymmetric ==
  ASSUME NEW t, NEW u, StagedApart(t, u)
  PROVE  StagedApart(u, t)
BY DEF StagedApart

LEMMA NotStagedApart ==
  ASSUME NEW t, NEW u, t.pc # "staged"
  PROVE  StagedApart(t, u)
BY DEF StagedApart

LEMMA QuietIndexStep ==
  ASSUME IndexInv, NEW s \in Slot, db' = db,
         \A o \in Slot : o # s => txn'[o] = txn[o],
         RequestStands(db, txn'[s]),
         \A o \in Slot : o # s => StagedApart(txn'[s], txn[o])
  PROVE  IndexInv'
<1>1. TablesSound(db')
  BY DEF IndexInv
<1>2. \A o \in Slot : RequestStands(db', txn'[o])
  BY DEF IndexInv
<1>3. ASSUME NEW o \in Slot, NEW p \in Slot, o # p PROVE StagedApart(txn'[o], txn'[p])
  <2>1. CASE o # s /\ p # s
    BY <1>3, <2>1 DEF IndexInv
  <2>2. CASE o = s
    BY <1>3, <2>2
  <2>3. CASE p = s
    BY <1>3, <2>3, StagedApartSymmetric
  <2> QED BY <2>1, <2>2, <2>3
<1> QED BY <1>1, <1>2, <1>3 DEF IndexInv

\* A request that is not in flight stands on nothing.
LEMMA NothingStands ==
  ASSUME NEW d, NEW t, t.pc \in {"idle", "closing", "refused"}
  PROVE  RequestStands(d, t) /\ t.pc # "staged"
BY DEF RequestStands, BatchStands, InFlight, Placed, HasRows, StagedFree

LEMMA NoRowsStand ==
  ASSUME NEW d, NEW t, ~HasRows(t), BatchStands(d, t)
  PROVE  RequestStands(d, t) /\ t.pc # "staged"
BY DEF RequestStands, Placed, HasRows, StagedFree

\* Two records of one request at two steps hold the same rows.
LEMMA SameRows ==
  ASSUME NEW t, NEW u, u.batch = t.batch, u.fresh = t.fresh
  PROVE  /\ \A type : ControlOps(u, type) = ControlOps(t, type)
         /\ Founds(u) = Founds(t) /\ NewGrantIds(u) = NewGrantIds(t)
         /\ NewEpochs(u) = NewEpochs(t) /\ PruneSeqs(u) = PruneSeqs(t)
<1>1. \A type : ControlOps(u, type) = ControlOps(t, type)
  BY DEF ControlOps
<1>2. Founds(u) = Founds(t)
  BY <1>1 DEF Founds
<1>3. NewGrantIds(u) = NewGrantIds(t)
  BY <1>1 DEF NewGrantIds, GrantCert
<1>4. NewEpochs(u) = NewEpochs(t)
  BY <1>1 DEF NewEpochs
<1>5. PruneSeqs(u) = PruneSeqs(t)
  BY DEF PruneSeqs, Prunes
<1> QED BY <1>1, <1>2, <1>3, <1>4, <1>5

LEMMA TablesUnchanged == UNCHANGED tables => db' = db
BY DEF tables, db

LEMMA IndexInit == Init => IndexInv
<1> SUFFICES ASSUME Init PROVE IndexInv
  OBVIOUS
<1>1. /\ DOMAIN db.log = {} /\ DOMAIN db.stamp = {} /\ db.genesis = Null
      /\ DOMAIN db.grants = {} /\ DOMAIN db.epochs = {}
      /\ \A m \in Member : db.chained[m] = NotChained
  BY DEF Init, db
<1>2. TablesSound(db)
  <2>1. GenesisSound(db) /\ GrantsSound(db) /\ RevokesSound(db) /\ EpochsSound(db)
    BY <1>1 DEF GenesisSound, GrantsSound, RevokesSound, EpochsSound
  <2>2. ChainedSound(db) /\ RolesSound(db) /\ PrunesSound(db)
    BY <1>1 DEF ChainedSound, RolesSound, PrunesSound
  <2> QED BY <2>1, <2>2 DEF TablesSound
<1>3. \A s \in Slot : txn[s].pc = "idle"
  BY DEF Init, Idle
<1> QED BY <1>2, <1>3, NothingStands, NotStagedApart DEF IndexInv

LEMMA AdmitKeepsIndex ==
  ASSUME ChainInv, IndexInv, NEW s \in Slot, NEW m \in Member, NEW b \in authored,
         Admit(s, m, b)
  PROVE  IndexInv'
<1> DEFINE t == [pc |-> "admitted", batch |-> b, retried |-> FALSE]
<1>1. /\ b \in Batch /\ b # <<>> /\ Verdict(db, m, b) = Ok
      /\ txn' = [txn EXCEPT ![s] = t] /\ DOMAIN txn = Slot /\ db' = db
  BY TablesUnchanged DEF Admit, ChainInv
<1>2. \A i \in DOMAIN b : Stands(db, b, i)
  BY <1>1, VouchedStands DEF IndexInv
<1>3. BatchStands(db, t) /\ ~HasRows(t)
  BY <1>2 DEF BatchStands, HasRows
<1> HIDE DEF t
<1>4. txn'[s] = t /\ \A o \in Slot : o # s => txn'[o] = txn[o]
  BY <1>1
<1>5. RequestStands(db, txn'[s]) /\ txn'[s].pc # "staged"
  BY <1>3, <1>4, NoRowsStand
<1> QED BY <1>1, <1>4, <1>5, NotStagedApart, QuietIndexStep

\* A step to a request that holds the same batch and no rows, or is over.
LEMMA StepsBack ==
  ASSUME ChainInv, IndexInv, NEW s \in Slot, InFlight(txn[s]), db' = db, NEW u,
         txn' = [txn EXCEPT ![s] = u], u.batch = txn[s].batch,
         ~HasRows(u)
  PROVE  IndexInv'
<1>1. DOMAIN txn = Slot
  BY DEF ChainInv
<1>2. BatchStands(db, u)
  BY DEF IndexInv, RequestStands, BatchStands
<1>3. RequestStands(db, u) /\ u.pc # "staged"
  BY <1>2, NoRowsStand
<1>4. txn'[s] = u /\ \A o \in Slot : o # s => txn'[o] = txn[o]
  BY <1>1
<1> QED BY <1>3, <1>4, NotStagedApart, QuietIndexStep

LEMMA RefusedKeepsIndex ==
  ASSUME ChainInv, IndexInv, NEW s \in Slot, InFlight(txn[s]), db' = db, NEW code,
         Refused(s, code)
  PROVE  IndexInv'
<1> DEFINE u == [pc |-> "refused", code |-> code, batch |-> txn[s].batch]
<1>1. txn' = [txn EXCEPT ![s] = u]
  BY DEF Refused
<1>2. u.batch = txn[s].batch /\ ~HasRows(u)
  BY DEF HasRows
<1> HIDE DEF u
<1> QED BY <1>1, <1>2, StepsBack

LEMMA ReadsKeepIndex ==
  ASSUME ChainInv, IndexInv, NEW s \in Slot, ReadStored(s) \/ ReadHeads(s)
  PROVE  IndexInv'
<1>1. db' = db /\ InFlight(txn[s])
  BY TablesUnchanged DEF ReadStored, ReadHeads, InFlight
<1>2. CASE ReadStored(s)
  <2> DEFINE u == [pc |-> "resolved", batch |-> txn[s].batch, retried |-> txn[s].retried,
                   fresh |-> Fresh(txn[s].batch)]
  <2>1. txn' = [txn EXCEPT ![s] = u]
    BY <1>2 DEF ReadStored
  <2>2. u.batch = txn[s].batch /\ ~HasRows(u)
    BY DEF HasRows
  <2> HIDE DEF u
  <2> QED BY <1>1, <2>1, <2>2, StepsBack
<1>3. CASE ReadHeads(s) /\ ~ChainContinues(txn[s].batch, txn[s].fresh)
  <2>1. Refused(s, "author_chain_conflict")
    BY <1>3 DEF ReadHeads
  <2> QED BY <1>1, <2>1, RefusedKeepsIndex
<1>4. CASE ReadHeads(s) /\ ChainContinues(txn[s].batch, txn[s].fresh)
  <2> DEFINE u == [txn[s] EXCEPT !.pc = "planned"]
  <2>1. txn[s].pc = "resolved" /\ RequestShape(txn[s]) /\ DOMAIN txn = Slot
    BY <1>4 DEF ReadHeads, ChainInv, RequestInv
  <2>2. DOMAIN txn[s] = {"pc", "batch", "retried", "fresh"}
    BY <2>1 DEF RequestShape
  <2>3. u.pc = "planned" /\ u.batch = txn[s].batch
    BY <2>2
  <2>4. txn' = [txn EXCEPT ![s].pc = "planned"]
    BY <1>4 DEF ReadHeads
  <2>5. txn' = [txn EXCEPT ![s] = u]
    BY <2>1, <2>4
  <2>6. ~HasRows(u)
    BY <2>3 DEF HasRows
  <2> HIDE DEF u
  <2> QED BY <1>1, <2>3, <2>5, <2>6, StepsBack
<1> QED BY <1>2, <1>3, <1>4

\* A flush that passes the constraints leaves the batch's rows above the log.
LEMMA RowsGoOnTop ==
  ASSUME ChainInv, ChainInv', NEW s \in Slot, Insert(s), ~InsertFails(s)
  PROVE  LET u == txn'[s]
         IN /\ u.pc = "inserted" /\ u.batch = txn[s].batch /\ u.fresh = txn[s].fresh
            /\ u.unstamped = Unstamped(db, u)
            /\ u.batch \in Batch /\ u.batch # <<>> /\ OneAuthor(u.batch)
            /\ Selected(db.log, u) /\ u.fresh \subseteq DOMAIN u.batch
            /\ nextSeq \in Nat /\ DOMAIN db.log \subseteq 1 .. (nextSeq - 1)
            /\ \A i \in u.fresh : u.seqs[i] \in Nat /\ nextSeq <= u.seqs[i]
            /\ \A o \in Slot : o # s => txn'[o] = txn[o]
<1> DEFINE t == txn[s]
           u == txn'[s]
<1>1. DOMAIN txn = Slot /\ db.log = log /\ log' = log
  BY DEF Insert, ChainInv, db, tables
<1>2. txn' = [txn EXCEPT ![s] =
           [pc |-> "inserted", batch |-> t.batch, fresh |-> t.fresh,
            seqs |-> Drawn(t.fresh),
            unstamped |-> {GrantCert(t, i).grant_id : i \in
              {j \in ControlOps(t, "revoke") :
                 \/ GrantCert(t, j).grant_id \in NewGrantIds(t)
                 \/ /\ GrantCert(t, j).grant_id \in DOMAIN grants
                    /\ grants[GrantCert(t, j).grant_id].revoked_by_seq = Null}}]]
  BY DEF Insert
<1>3. /\ u.pc = "inserted" /\ u.batch = t.batch /\ u.fresh = t.fresh
      /\ u.seqs = Drawn(t.fresh)
      /\ \A o \in Slot : o # s => txn'[o] = txn[o]
  BY <1>1, <1>2
<1>4. u.unstamped = Unstamped(db, u)
  <2>1. u.unstamped = Unstamped(db, t)
    BY <1>1, <1>2 DEF Unstamped, db
  <2>2. Unstamped(db, u) = Unstamped(db, t)
    <3>1. /\ ControlOps(u, "revoke") = ControlOps(t, "revoke")
          /\ NewGrantIds(u) = NewGrantIds(t)
      BY <1>3, SameRows
    <3> QED BY <1>3, <3>1 DEF Unstamped, GrantCert
  <2> QED BY <2>1, <2>2
<1>5. RequestInv(log, nextSeq', u) /\ SoundLog(log, nextSeq)
  BY <1>1 DEF ChainInv
<1>6. /\ u.batch \in Batch /\ u.batch # <<>> /\ OneAuthor(u.batch) /\ Selected(db.log, u)
      /\ u.fresh \subseteq DOMAIN u.batch
  BY <1>1, <1>3, <1>5 DEF RequestInv, RequestShape, Selected, HasFresh
<1>7. nextSeq \in Nat /\ DOMAIN db.log \subseteq 1 .. (nextSeq - 1)
  BY <1>1, <1>5 DEF SoundLog
<1>8. \A i \in u.fresh : u.seqs[i] \in Nat /\ nextSeq <= u.seqs[i]
  <2>1. u.fresh \in SUBSET (1 .. Len(u.batch)) /\ Len(u.batch) \in Nat
    BY <1>6, BatchIndices
  <2>2. /\ Cardinality(u.fresh) \in Nat
        /\ \A i \in u.fresh : Rank(u.fresh, i) \in 1 .. Cardinality(u.fresh)
    <3> HIDE DEF u
    <3> QED BY <2>1, RankOrder
  <2>3. \A i \in u.fresh : Rank(u.fresh, i) \in Nat /\ Rank(u.fresh, i) >= 1
    BY <2>2
  <2> QED BY <1>3, <1>7, <2>3 DEF Drawn
<1> QED BY <1>3, <1>4, <1>6, <1>7, <1>8

LEMMA InsertKeepsIndex ==
  ASSUME ChainInv, ChainInv', IndexInv, NEW s \in Slot, Insert(s)
  PROVE  IndexInv'
<1> DEFINE t == txn[s]
<1>1. db' = db /\ InFlight(t)
  BY TablesUnchanged DEF Insert, InFlight
<1>2. CASE InsertFails(s) /\ t.retried
  <2>1. Refused(s, "author_chain_conflict")
    BY <1>2 DEF Insert
  <2> QED BY <1>1, <2>1, RefusedKeepsIndex
<1>3. CASE InsertFails(s) /\ ~t.retried
  <2> DEFINE u == [pc |-> "admitted", batch |-> t.batch, retried |-> TRUE]
  <2>1. txn' = [txn EXCEPT ![s] = u]
    BY <1>3 DEF Insert
  <2>2. u.batch = t.batch /\ ~HasRows(u)
    BY DEF HasRows
  <2> HIDE DEF u
  <2> QED BY <1>1, <2>1, <2>2, StepsBack
<1>4. CASE ~InsertFails(s)
  <2> DEFINE u == txn'[s]
  <2>1. /\ u.pc = "inserted" /\ u.batch = t.batch /\ u.fresh = t.fresh
        /\ u.unstamped = Unstamped(db, u)
        /\ u.batch \in Batch /\ u.batch # <<>> /\ OneAuthor(u.batch)
        /\ Selected(db.log, u)
        /\ nextSeq \in Nat /\ DOMAIN db.log \subseteq 1 .. (nextSeq - 1)
        /\ \A i \in u.fresh : u.seqs[i] \in Nat /\ nextSeq <= u.seqs[i]
        /\ \A o \in Slot : o # s => txn'[o] = txn[o]
    BY <1>4, RowsGoOnTop
  <2>2. BatchStands(db, u)
    BY <1>1, <2>1 DEF IndexInv, RequestStands, BatchStands
  <2>3. HasRows(u) /\ \A i \in DOMAIN u.batch : Stands(db, u.batch, i)
    BY <2>1, <2>2 DEF BatchStands, InFlight, HasRows
  <2> HIDE DEF u
  <2>4. Placed(db, u)
    BY <2>1, <2>3, InsertPlaces DEF IndexInv
  <2>5. RequestStands(db, u)
    BY <2>1, <2>2, <2>4 DEF RequestStands, StagedFree
  <2> QED BY <1>1, <2>1, <2>5, NotStagedApart, QuietIndexStep DEF u
<1> QED BY <1>2, <1>3, <1>4

LEMMA MaterialiseKeepsIndex ==
  ASSUME ChainInv, IndexInv, NEW s \in Slot, Materialise(s)
  PROVE  IndexInv'
<1> DEFINE t == txn[s]
<1>1. /\ db' = db /\ t.pc = "inserted" /\ DOMAIN txn = Slot /\ ~MustWait(s)
  BY TablesUnchanged DEF Materialise, ChainInv
<1>2. InFlight(t)
  BY <1>1 DEF InFlight
<1>3. CASE IndexFails(t) \/ PruneFails(t)
  <2>1. PICK code : Refused(s, code)
    BY <1>3 DEF Materialise
  <2> QED BY <1>1, <1>2, <2>1, RefusedKeepsIndex
<1>4. CASE ~IndexFails(t) /\ ~PruneFails(t)
  <2> DEFINE u == [pc |-> "staged", batch |-> t.batch, fresh |-> t.fresh, seqs |-> t.seqs,
                   unstamped |-> t.unstamped, closing |-> Stripped(t)]
  <2>1. txn' = [txn EXCEPT ![s] = u]
    BY <1>4 DEF Materialise
  <2>2. /\ u.pc = "staged" /\ u.batch = t.batch /\ u.fresh = t.fresh /\ u.seqs = t.seqs
        /\ u.unstamped = t.unstamped
    OBVIOUS
  <2> HIDE DEF u
  <2>3. txn'[s] = u /\ \A o \in Slot : o # s => txn'[o] = txn[o]
    BY <1>1, <2>1
  <2>4. /\ Founds(u) = Founds(t) /\ NewGrantIds(u) = NewGrantIds(t)
        /\ NewEpochs(u) = NewEpochs(t) /\ PruneSeqs(u) = PruneSeqs(t)
    BY <2>2, SameRows
  <2>5. RequestStands(db, t)
    BY DEF IndexInv
  <2>6. BatchStands(db, u)
    BY <1>2, <2>2, <2>5 DEF RequestStands, BatchStands
  <2>7. Placed(db, u)
    <3>1. HasRows(t) /\ Placed(db, t)
      BY <1>1, <2>5 DEF HasRows, RequestStands
    <3>2. FoundingPlaced(db, u)
      BY <2>2, <2>4, <3>1 DEF Placed, FoundingPlaced
    <3>3. u.unstamped \subseteq DOMAIN db.grants \cup NewGrantIds(u)
      BY <2>2, <2>4, <3>1 DEF Placed
    <3>4. \A i \in u.fresh : RolePlaced(db, u, i) /\ GranteePlaced(db, u, i)
      <4> TAKE i \in u.fresh
      <4>1. RolePlaced(db, u, i)
        BY <2>2, <3>1 DEF Placed, RolePlaced
      <4>2. GranteePlaced(db, u, i)
        BY <2>2, <3>1 DEF Placed, GranteePlaced
      <4> QED BY <4>1, <4>2
    <3>5. \A i \in u.fresh : RevokePlaced(db, u, i)
      BY <2>2, <2>4, <3>1 DEF Placed, RevokePlaced
    <3>6. \A i \in u.fresh : RotatePlaced(db, u, i) /\ PrunePlaced(db, u, i)
      BY <2>2, <3>1 DEF Placed, RotatePlaced, PrunePlaced
    <3> QED BY <3>2, <3>3, <3>4, <3>5, <3>6 DEF Placed
  <2>8. StagedFree(db, u)
    <3>1. /\ Founds(t) => genesis = Null
          /\ NewGrantIds(t) \cap DOMAIN grants = {} /\ NewEpochs(t) \cap DOMAIN epochs = {}
          /\ PruneSeqs(t) \subseteq {q \in DOMAIN stamp : stamp[q] = Null}
      BY <1>4 DEF IndexFails, PruneFails
    <3>2. /\ db.genesis = genesis /\ db.grants = grants /\ db.epochs = epochs
          /\ db.stamp = stamp
      BY DEF db
    <3> QED BY <2>4, <3>1, <3>2 DEF StagedFree
  <2>9. ASSUME NEW o \in Slot, o # s PROVE StagedApart(u, txn[o])
    <3>1. txn[o].pc = "staged" =>
            /\ ~(Founds(t) /\ Founds(txn[o]))
            /\ NewGrantIds(t) \cap NewGrantIds(txn[o]) = {}
            /\ NewEpochs(t) \cap NewEpochs(txn[o]) = {}
            /\ PruneSeqs(t) \cap PruneSeqs(txn[o]) = {}
      BY <1>1, <2>9 DEF MustWait
    <3> QED BY <2>4, <3>1 DEF StagedApart
  <2>10. RequestStands(db, u)
    BY <2>6, <2>7, <2>8 DEF RequestStands
  <2> QED BY <1>1, <2>3, <2>9, <2>10, QuietIndexStep
<1> QED BY <1>3, <1>4

LEMMA EndingsKeepIndex ==
  ASSUME ChainInv, IndexInv, NEW s \in Slot,
         Answer(s) \/ AnswerRefusal(s) \/ \E m \in Member : CloseTransport(s, m)
  PROVE  IndexInv'
<1>1. db' = db /\ DOMAIN txn = Slot
  BY TablesUnchanged DEF Answer, AnswerRefusal, CloseTransport, ChainInv
<1>2. CASE Answer(s) \/ AnswerRefusal(s)
  <2>1. txn' = [txn EXCEPT ![s] = Idle]
    BY <1>2 DEF Answer, AnswerRefusal
  <2>2. txn'[s].pc = "idle" /\ \A o \in Slot : o # s => txn'[o] = txn[o]
    BY <1>1, <2>1 DEF Idle
  <2> QED BY <1>1, <2>2, NothingStands, NotStagedApart, QuietIndexStep
<1>3. ASSUME NEW m \in Member, CloseTransport(s, m) PROVE IndexInv'
  <2>1. txn' = [txn EXCEPT ![s].closing = @ \ {m}] /\ txn[s].pc = "closing"
    BY <1>3 DEF CloseTransport
  <2>2. DOMAIN txn[s] = {"pc", "batch", "closing"}
    BY <2>1 DEF ChainInv, RequestInv, RequestShape
  <2>3. txn'[s].pc = "closing" /\ \A o \in Slot : o # s => txn'[o] = txn[o]
    BY <1>1, <2>1, <2>2
  <2> QED BY <1>1, <2>3, NothingStands, NotStagedApart, QuietIndexStep
<1> QED BY <1>2, <1>3

LEMMA CrashKeepsIndex ==
  ASSUME ChainInv, IndexInv, Crash
  PROVE  IndexInv'
<1>1. db' = db /\ \A s \in Slot : txn'[s].pc = "idle"
  BY TablesUnchanged DEF Crash, Idle
<1> QED BY <1>1, NothingStands, NotStagedApart DEF IndexInv

-----------------------------------------------------------------------------
(* The commit, table by table: tables d before it, e after it, t the       *)
(* request.                                                                *)

LogCommits(d, e, t) ==
  /\ t.pc = "staged" /\ t.fresh \subseteq Nat \ {0}
  /\ DOMAIN d.log \subseteq Nat \ {0} /\ Grows(d.log, e.log)
  /\ \A i \in t.fresh :
       /\ t.seqs[i] \in Nat \ {0} /\ t.seqs[i] \notin DOMAIN d.log
       /\ t.seqs[i] \in DOMAIN e.log /\ e.log[t.seqs[i]] = t.batch[i]
       /\ ~IsReplay(d, t.batch[i]) /\ t.batch[i] \in Posted
       /\ Stands(d, t.batch, i)
  /\ \A i, j \in t.fresh :
       /\ t.batch[i].author_member_id = t.batch[j].author_member_id
       /\ i < j => t.seqs[i] < t.seqs[j]
       /\ t.seqs[i] = t.seqs[j] => i = j
  /\ \A q \in DOMAIN e.log : q \in DOMAIN d.log \/ \E i \in t.fresh : q = t.seqs[i]
  /\ \A q, r \in DOMAIN e.log : Collides(e.log[q], e.log[r]) => q = r
  /\ \A q \in DOMAIN e.log : e.log[q].author_member_id \in Member
  /\ TablesSound(d) /\ Placed(d, t) /\ StagedFree(d, t)

LEMMA CommitMeets ==
  ASSUME ChainInv, IndexInv, NEW s \in Slot, Commit(s)
  PROVE  LogCommits(db, db', txn[s])
<1> DEFINE t == txn[s]
<1>1. /\ HasRows(t) /\ RequestInv(log, nextSeq, t) /\ Grows(log, log')
      /\ DOMAIN log' = DOMAIN log \cup {t.seqs[i] : i \in t.fresh}
      /\ \A i \in t.fresh : log'[t.seqs[i]] = t.batch[i]
      /\ SoundLog(log', nextSeq)
  BY CommitGrowsLog
<1>2. db.log = log /\ db'.log = log' /\ t.pc = "staged" /\ SoundLog(log, nextSeq)
  BY DEF db, Commit, ChainInv
<1>3. /\ t.batch \in Batch /\ OneAuthor(t.batch) /\ t.fresh \subseteq DOMAIN t.batch
      /\ \A i \in t.fresh : t.seqs[i] \in 1 .. (nextSeq - 1) /\ t.seqs[i] \notin DOMAIN log
      /\ \A i, j \in t.fresh : i < j => t.seqs[i] < t.seqs[j]
      /\ \A i \in t.fresh, q \in DOMAIN log : ~Collides(t.batch[i], log[q])
  BY <1>1, <1>2 DEF RequestInv, RequestShape, Selected, Inserted, HasRows, HasFresh
<1>4. /\ DOMAIN t.batch = 1 .. Len(t.batch) /\ Len(t.batch) \in Nat
      /\ \A i \in DOMAIN t.batch : t.batch[i] \in Posted
  BY <1>3, BatchIndices
<1>5. RequestStands(db, t) /\ TablesSound(db)
  BY DEF IndexInv
<1>6. \A i \in t.fresh : Stands(db, t.batch, i)
  BY <1>2, <1>3, <1>5 DEF RequestStands, BatchStands, InFlight
<1>7. \A i \in t.fresh : ~IsReplay(db, t.batch[i])
  BY <1>2, <1>3 DEF IsReplay, Collides
<1>8. \A i, j \in t.fresh : t.seqs[i] = t.seqs[j] => i = j
  <2> SUFFICES ASSUME NEW i \in t.fresh, NEW j \in t.fresh, i # j PROVE t.seqs[i] # t.seqs[j]
    OBVIOUS
  <2>1. i < j \/ j < i
    BY <1>3, <1>4
  <2>2. t.seqs[i] \in Int /\ t.seqs[j] \in Int
    BY <1>3
  <2> QED BY <1>3, <2>1, <2>2
<1>9. \A i, j \in t.fresh : t.batch[i].author_member_id = t.batch[j].author_member_id
  BY <1>3 DEF OneAuthor
<1>10. DOMAIN log \subseteq Nat \ {0} /\ t.fresh \subseteq Nat \ {0}
  BY <1>2, <1>3, <1>4 DEF SoundLog
<1>11. \A i \in t.fresh : t.seqs[i] \in Nat \ {0}
  BY <1>2, <1>3
<1>12. /\ \A q, r \in DOMAIN log' : Collides(log'[q], log'[r]) => q = r
       /\ \A q \in DOMAIN log' : log'[q].author_member_id \in Member
  BY <1>1 DEF SoundLog
<1> HIDE DEF t
<1>13. /\ Grows(db.log, db'.log) /\ DOMAIN db.log \subseteq Nat \ {0}
       /\ \A i \in t.fresh : /\ t.seqs[i] \in Nat \ {0} /\ t.seqs[i] \notin DOMAIN db.log
                              /\ t.seqs[i] \in DOMAIN db'.log /\ db'.log[t.seqs[i]] = t.batch[i]
       /\ \A q \in DOMAIN db'.log : q \in DOMAIN db.log \/ \E i \in t.fresh : q = t.seqs[i]
       /\ \A q, r \in DOMAIN db'.log : Collides(db'.log[q], db'.log[r]) => q = r
       /\ \A q \in DOMAIN db'.log : db'.log[q].author_member_id \in Member
  BY <1>1, <1>2, <1>3, <1>10, <1>11, <1>12
<1>14. /\ t.pc = "staged" /\ t.fresh \subseteq Nat \ {0} /\ \A i \in t.fresh : t.batch[i] \in Posted
       /\ \A i, j \in t.fresh : i < j => t.seqs[i] < t.seqs[j]
       /\ TablesSound(db) /\ Placed(db, t) /\ StagedFree(db, t)
  BY <1>2, <1>3, <1>4, <1>5, <1>10 DEF RequestStands
<1>15. LogCommits(db, db', t)
  BY <1>6, <1>7, <1>8, <1>9, <1>13, <1>14 DEF LogCommits
<1> QED BY <1>15 DEF t

LEMMA NewRow ==
  ASSUME NEW d, NEW e, NEW t, LogCommits(d, e, t), NEW q \in DOMAIN e.log
  PROVE  \/ q \in DOMAIN d.log /\ e.log[q] = d.log[q]
         \/ \E i \in t.fresh : q = t.seqs[i] /\ e.log[q] = t.batch[i] /\ q \notin DOMAIN d.log
BY DEF LogCommits, Grows

GenesisAfter(d, t) ==
  IF Founds(t) THEN t.seqs[Max(ControlOps(t, "workspace_genesis"))] ELSE d.genesis

\* A founding op is the first of its batch.
LEMMA FoundsFirst ==
  ASSUME NEW d, NEW e, NEW t, LogCommits(d, e, t), Founds(t)
  PROVE  /\ ControlOps(t, "workspace_genesis") = {1} /\ 1 \in t.fresh
         /\ IsControl(t.batch[1], "workspace_genesis")
         /\ Max(ControlOps(t, "workspace_genesis")) = 1
<1>1. \A i \in ControlOps(t, "workspace_genesis") :
        i = 1 /\ i \in t.fresh /\ IsControl(t.batch[i], "workspace_genesis")
  BY ControlOpsAre DEF LogCommits, Stands, FoundingStands
<1>2. ControlOps(t, "workspace_genesis") = {1} /\ 1 \in t.fresh
      /\ IsControl(t.batch[1], "workspace_genesis")
  BY <1>1 DEF Founds
<1>3. Max({1}) \in {1}
  <2>1. {1} \in SUBSET (1 .. 1) /\ {1} # {} /\ 1 \in Nat
    OBVIOUS
  <2> QED BY <2>1, GreatestBelow
<1> QED BY <1>2, <1>3

LEMMA GenesisCommits ==
  ASSUME NEW d, NEW e, NEW t, LogCommits(d, e, t), e.genesis = GenesisAfter(d, t)
  PROVE  GenesisSound(e) /\ (d.genesis # Null => e.genesis = d.genesis)
<1>1. GenesisSound(d) /\ FoundingPlaced(d, t) /\ (Founds(t) => d.genesis = Null)
  <2>1. HasRows(t)
    BY DEF LogCommits, HasRows
  <2> QED BY <2>1 DEF LogCommits, TablesSound, Placed, StagedFree
<1>2. CASE Founds(t)
  <2>1. /\ 1 \in t.fresh /\ IsControl(t.batch[1], "workspace_genesis")
        /\ e.genesis = t.seqs[1] /\ d.genesis = Null
    BY <1>1, <1>2, FoundsFirst DEF GenesisAfter
  <2>2. DOMAIN d.log = {}
    BY <1>1, <2>1 DEF GenesisSound
  <2>3. \A q \in DOMAIN e.log : \E i \in t.fresh : q = t.seqs[i] /\ e.log[q] = t.batch[i]
    BY <2>2, NewRow
  <2>4. ASSUME NEW q \in DOMAIN e.log, IsControl(e.log[q], "workspace_genesis")
        PROVE  e.genesis = q
    <3>1. PICK i \in t.fresh : q = t.seqs[i] /\ e.log[q] = t.batch[i]
      BY <2>3
    <3>2. i = 1
      BY <2>4, <3>1 DEF LogCommits, Stands, FoundingStands
    <3> QED BY <2>1, <3>1, <3>2
  <2>5. ASSUME NEW q \in DOMAIN e.log PROVE e.genesis <= q
    <3>1. PICK i \in t.fresh : q = t.seqs[i]
      BY <2>3
    <3>2. i \in Nat \ {0} /\ t.seqs[i] \in Nat /\ t.seqs[1] \in Nat /\ (1 < i => t.seqs[1] < t.seqs[i])
      BY <2>1 DEF LogCommits
    <3>3. i = 1 \/ 1 < i
      BY <3>2
    <3> QED BY <2>1, <3>1, <3>2, <3>3
  <2>6. e.genesis \in DOMAIN e.log /\ e.genesis # Null /\ e.log[e.genesis] = t.batch[1]
    BY <2>1 DEF LogCommits, Null
  <2> QED BY <2>1, <2>4, <2>5, <2>6 DEF GenesisSound
<1>3. CASE ~Founds(t)
  <2>1. e.genesis = d.genesis /\ d.genesis # Null
    BY <1>1, <1>3 DEF GenesisAfter, FoundingPlaced
  <2>2. \A i \in t.fresh : d.genesis < t.seqs[i] /\ ~IsControl(t.batch[i], "workspace_genesis")
    BY <1>1, <1>3, <2>1, ControlOpsAre DEF FoundingPlaced, Founds
  <2>3. d.genesis \in DOMAIN d.log /\ d.genesis \in Nat
    BY <1>1, <2>1 DEF GenesisSound, LogCommits
  <2>4. ASSUME NEW q \in DOMAIN e.log
        PROVE  e.genesis <= q /\ (IsControl(e.log[q], "workspace_genesis") => e.genesis = q)
    <3>1. CASE q \in DOMAIN d.log /\ e.log[q] = d.log[q]
      BY <1>1, <2>1, <3>1 DEF GenesisSound
    <3>2. CASE \E i \in t.fresh : q = t.seqs[i] /\ e.log[q] = t.batch[i]
      <4>1. PICK i \in t.fresh : q = t.seqs[i] /\ e.log[q] = t.batch[i]
        BY <3>2
      <4>2. t.seqs[i] \in Nat
        BY DEF LogCommits
      <4> QED BY <2>1, <2>2, <2>3, <4>1, <4>2
    <3> QED BY <3>1, <3>2, NewRow
  <2>5. e.genesis \in DOMAIN e.log /\ IsControl(e.log[e.genesis], "workspace_genesis")
    BY <1>1, <2>1, <2>3 DEF GenesisSound, LogCommits, Grows
  <2> QED BY <2>1, <2>4, <2>5 DEF GenesisSound
<1> QED BY <1>2, <1>3

EpochRowsAfter(d, t) ==
  [e \in DOMAIN d.epochs \cup NewEpochs(t) |->
     IF e \in NewEpochs(t)
     THEN t.seqs[CHOOSE i \in ControlOps(t, "rotate") :
                   t.batch[i].payload.rotate.to_epoch = e]
     ELSE d.epochs[e]]

LEMMA EpochsCommit ==
  ASSUME NEW d, NEW e, NEW t, LogCommits(d, e, t), e.epochs = EpochRowsAfter(d, t)
  PROVE  EpochsSound(e) /\ Grows(d.epochs, e.epochs)
<1> DEFINE epoch(i) == t.batch[i].payload.rotate.to_epoch
           R == {i \in t.fresh : IsControl(t.batch[i], "rotate")}
<1>1. ControlOps(t, "rotate") = R /\ NewEpochs(t) = {epoch(i) : i \in R}
  BY ControlOpsAre DEF NewEpochs
<1>2. NewEpochs(t) \cap DOMAIN d.epochs = {} /\ EpochsSound(d)
  BY DEF LogCommits, StagedFree, TablesSound
<1>3. ASSUME NEW i \in R
      PROVE  /\ epoch(i) \in 1 .. MaxKeyEpoch
             /\ \A j \in 1 .. i - 1 : IsControl(t.batch[j], "rotate") => epoch(j) \in 1 .. epoch(i) - 1
             /\ RotatePlaced(d, t, i)
  <2>1. Stands(d, t.batch, i) /\ IsControl(t.batch[i], "rotate") /\ HasRows(t)
    BY DEF LogCommits, HasRows
  <2>2. RotatePlaced(d, t, i)
    BY <2>1 DEF LogCommits, Placed
  <2> QED BY <2>1, <2>2 DEF Stands, WellFormed, RotateVouched
<1>4. \A i, j \in R : epoch(i) = epoch(j) => i = j
  <2> SUFFICES ASSUME NEW i \in R, NEW j \in R, i < j PROVE epoch(i) # epoch(j)
    <3>1. \A i, j \in R : i \in Nat /\ j \in Nat
      BY DEF LogCommits
    <3>2. \A i, j \in R : i = j \/ i < j \/ j < i
      BY <3>1
    <3> QED BY <3>2
  <2>1. i \in 1 .. j - 1
    BY DEF LogCommits
  <2>2. epoch(i) \in 1 .. epoch(j) - 1 /\ epoch(j) \in 1 .. MaxKeyEpoch
    BY <1>3, <2>1
  <2> QED BY <2>2, MaxKeyEpochAssumption
<1>5. DOMAIN e.epochs = DOMAIN d.epochs \cup {epoch(i) : i \in R}
  BY <1>1 DEF EpochRowsAfter
<1>6. ASSUME NEW x \in DOMAIN d.epochs PROVE e.epochs[x] = d.epochs[x]
  BY <1>2 DEF EpochRowsAfter
<1>7. ASSUME NEW i \in R PROVE e.epochs[epoch(i)] = t.seqs[i]
  <2>1. (CHOOSE j \in R : epoch(j) = epoch(i)) = i
    BY <1>4
  <2>2. epoch(i) \in NewEpochs(t)
    BY <1>1
  <2>3. (CHOOSE j \in ControlOps(t, "rotate") :
           t.batch[j].payload.rotate.to_epoch = epoch(i)) = i
    BY <1>1, <2>1
  <2> QED BY <2>2, <2>3 DEF EpochRowsAfter
<1>8. DOMAIN e.epochs \subseteq 1 .. MaxKeyEpoch
  BY <1>2, <1>3, <1>5 DEF EpochsSound
<1>9. ASSUME NEW q \in DOMAIN e.log, IsControl(e.log[q], "rotate")
      PROVE  LET x == e.log[q].payload.rotate.to_epoch
             IN x \in DOMAIN e.epochs /\ e.epochs[x] = q
  <2>1. CASE q \in DOMAIN d.log /\ e.log[q] = d.log[q]
    BY <1>2, <1>5, <1>6, <1>9, <2>1 DEF EpochsSound
  <2>2. CASE \E i \in t.fresh : q = t.seqs[i] /\ e.log[q] = t.batch[i]
    BY <1>5, <1>7, <1>9, <2>2
  <2> QED BY <2>1, <2>2, NewRow
<1>10. ASSUME NEW x \in DOMAIN e.epochs
       PROVE  /\ e.epochs[x] \in DOMAIN e.log /\ MintsEpoch(e.log[e.epochs[x]], x)
              /\ \/ x = 1
                 \/ x - 1 \in DOMAIN e.epochs /\ e.epochs[x - 1] < e.epochs[x]
  <2>1. CASE x \in DOMAIN d.epochs
    <3>1. /\ d.epochs[x] \in DOMAIN d.log /\ MintsEpoch(d.log[d.epochs[x]], x)
          /\ \/ x = 1
             \/ x - 1 \in DOMAIN d.epochs /\ d.epochs[x - 1] < d.epochs[x]
      BY <1>2, <2>1 DEF EpochsSound
    <3>2. e.epochs[x] = d.epochs[x]
      BY <1>6, <2>1
    <3>3. e.epochs[x] \in DOMAIN e.log /\ MintsEpoch(e.log[e.epochs[x]], x)
      BY <3>1, <3>2 DEF LogCommits, Grows
    <3>4. ASSUME x # 1 PROVE x - 1 \in DOMAIN e.epochs /\ e.epochs[x - 1] < e.epochs[x]
      <4>1. x - 1 \in DOMAIN d.epochs /\ d.epochs[x - 1] < d.epochs[x]
        BY <3>1, <3>4
      <4>2. e.epochs[x - 1] = d.epochs[x - 1] /\ x - 1 \in DOMAIN e.epochs
        BY <1>5, <1>6, <4>1
      <4> QED BY <3>2, <4>1, <4>2
    <3> QED BY <3>3, <3>4
  <2>2. CASE x \notin DOMAIN d.epochs
    <3>1. PICK i \in R : x = epoch(i)
      BY <1>5, <2>2
    <3>2. e.epochs[x] = t.seqs[i] /\ RotatePlaced(d, t, i) /\ IsControl(t.batch[i], "rotate")
      BY <1>3, <1>7, <3>1
    <3>3. e.epochs[x] \in DOMAIN e.log /\ MintsEpoch(e.log[e.epochs[x]], x)
      BY <3>1, <3>2 DEF LogCommits, MintsEpoch
    <3>4. CASE x - 1 \in DOMAIN d.epochs /\ d.epochs[x - 1] < t.seqs[i]
      BY <1>5, <1>6, <3>2, <3>3, <3>4
    <3>5. ASSUME NEW k \in t.fresh, k < i, MintsEpoch(t.batch[k], x - 1)
          PROVE  x - 1 \in DOMAIN e.epochs /\ e.epochs[x - 1] < e.epochs[x]
      <4>1. k \in R /\ epoch(k) = x - 1
        BY <3>5 DEF MintsEpoch
      <4>2. e.epochs[x - 1] = t.seqs[k] /\ x - 1 \in DOMAIN e.epochs
        BY <1>5, <1>7, <4>1
      <4>3. t.seqs[k] < t.seqs[i]
        BY <3>5 DEF LogCommits
      <4> QED BY <3>2, <4>2, <4>3
    <3> QED BY <3>1, <3>2, <3>3, <3>4, <3>5 DEF RotatePlaced
  <2> QED BY <2>1, <2>2
<1>11. Grows(d.epochs, e.epochs)
  BY <1>5, <1>6 DEF Grows
<1>12. EpochsSound(e)
  BY <1>8, <1>9, <1>10 DEF EpochsSound
<1> QED BY <1>11, <1>12

GrantRowsAfter(d, t) ==
  [g \in DOMAIN d.grants \cup NewGrantIds(t) |->
     LET base == IF g \in NewGrantIds(t)
                 THEN LET i == CHOOSE j \in ControlOps(t, "grant") :
                                 GrantCert(t, j).grant_id = g
                      IN [member_id |-> GrantCert(t, i).member_id,
                          role |-> GrantCert(t, i).role,
                          granter |-> GrantCert(t, i).granter,
                          granted_seq |-> t.seqs[i], revoked_by_seq |-> Null]
                 ELSE d.grants[g]
     IN IF g \in StampedGrantIds(t)
        THEN [base EXCEPT !.revoked_by_seq =
                t.seqs[CHOOSE i \in EffectiveRevokes(t) :
                         GrantCert(t, i).grant_id = g]]
        ELSE base]

\* Row by row, what a commit does to the grants.
LEMMA GrantRowsCommit ==
  ASSUME NEW d, NEW e, NEW t, LogCommits(d, e, t), e.grants = GrantRowsAfter(d, t)
  PROVE  /\ DOMAIN e.grants = DOMAIN d.grants \cup NewGrantIds(t)
         /\ \A g \in DOMAIN d.grants :
              /\ DOMAIN e.grants[g] = GrantRow
              /\ e.grants[g].member_id = d.grants[g].member_id
              /\ e.grants[g].role = d.grants[g].role
              /\ e.grants[g].granted_seq = d.grants[g].granted_seq
              /\ g \notin StampedGrantIds(t)
                   => e.grants[g].revoked_by_seq = d.grants[g].revoked_by_seq
         /\ \A i \in ControlOps(t, "grant") :
              LET g == GrantCert(t, i).grant_id
              IN /\ DOMAIN e.grants[g] = GrantRow
                 /\ e.grants[g].member_id = GrantCert(t, i).member_id
                 /\ e.grants[g].role = GrantCert(t, i).role
                 /\ e.grants[g].granted_seq = t.seqs[i]
                 /\ g \notin StampedGrantIds(t) => e.grants[g].revoked_by_seq = Null
         /\ \A g \in DOMAIN e.grants \cap StampedGrantIds(t) :
              \E i \in EffectiveRevokes(t) : /\ GrantCert(t, i).grant_id = g
                                             /\ e.grants[g].revoked_by_seq = t.seqs[i]
<1> DEFINE G == ControlOps(t, "grant")
           gid(i) == GrantCert(t, i).grant_id
           stamper(g) == CHOOSE i \in EffectiveRevokes(t) : GrantCert(t, i).grant_id = g
           new(i) == [member_id |-> GrantCert(t, i).member_id, role |-> GrantCert(t, i).role,
                      granter |-> GrantCert(t, i).granter,
                      granted_seq |-> t.seqs[i], revoked_by_seq |-> Null]
<1>1. NewGrantIds(t) = {gid(i) : i \in G} /\ NewGrantIds(t) \cap DOMAIN d.grants = {}
  BY DEF NewGrantIds, LogCommits, StagedFree
<1>2. \A i, j \in G : gid(i) = gid(j) => i = j
  <2> SUFFICES ASSUME NEW i \in G, NEW j \in G, j < i, gid(i) = gid(j) PROVE FALSE
    <3>1. \A i, j \in G : i \in Nat /\ j \in Nat
      BY ControlOpsAre DEF LogCommits
    <3>2. \A i, j \in G : i = j \/ i < j \/ j < i
      BY <3>1
    <3> QED BY <3>2
  <2>1. /\ i \in t.fresh /\ j \in t.fresh /\ IsControl(t.batch[i], "grant")
        /\ IsControl(t.batch[j], "grant")
    BY ControlOpsAre
  <2>2. j \in 1 .. i - 1 /\ GrantStands(d, t.batch, i) /\ ~IsReplay(d, t.batch[i])
    BY <2>1 DEF LogCommits, Stands
  <2> QED BY <2>1, <2>2 DEF GrantStands, GrantCert
<1>3. DOMAIN e.grants = DOMAIN d.grants \cup NewGrantIds(t)
  BY DEF GrantRowsAfter
<1>4. ASSUME NEW g \in DOMAIN d.grants
      PROVE  e.grants[g] = IF g \in StampedGrantIds(t)
                           THEN [d.grants[g] EXCEPT !.revoked_by_seq = t.seqs[stamper(g)]]
                           ELSE d.grants[g]
  BY <1>1 DEF GrantRowsAfter
<1>5. ASSUME NEW i \in G
      PROVE  e.grants[gid(i)] = IF gid(i) \in StampedGrantIds(t)
                                THEN [new(i) EXCEPT !.revoked_by_seq = t.seqs[stamper(gid(i))]]
                                ELSE new(i)
  <2>1. gid(i) \in NewGrantIds(t)
    BY <1>1
  <2>2. (CHOOSE j \in G : GrantCert(t, j).grant_id = gid(i)) = i
    BY <1>2
  <2> QED BY <2>1, <2>2 DEF GrantRowsAfter
<1>6. \A g \in DOMAIN d.grants : DOMAIN d.grants[g] = GrantRow
  BY DEF LogCommits, TablesSound, GrantsSound
<1>7. ASSUME NEW i \in G
      PROVE  /\ DOMAIN new(i) = GrantRow /\ new(i).member_id = GrantCert(t, i).member_id
             /\ new(i).role = GrantCert(t, i).role /\ new(i).granted_seq = t.seqs[i]
             /\ new(i).revoked_by_seq = Null
  BY DEF GrantRow
<1>8. ASSUME NEW g \in StampedGrantIds(t)
      PROVE  stamper(g) \in EffectiveRevokes(t) /\ GrantCert(t, stamper(g)).grant_id = g
  BY <1>8 DEF StampedGrantIds
<1> HIDE DEF G, stamper, new
<1>9. ASSUME NEW g \in DOMAIN d.grants
      PROVE  /\ DOMAIN e.grants[g] = GrantRow
             /\ e.grants[g].member_id = d.grants[g].member_id
             /\ e.grants[g].role = d.grants[g].role
             /\ e.grants[g].granted_seq = d.grants[g].granted_seq
             /\ g \notin StampedGrantIds(t)
                  => e.grants[g].revoked_by_seq = d.grants[g].revoked_by_seq
             /\ g \in StampedGrantIds(t) => e.grants[g].revoked_by_seq = t.seqs[stamper(g)]
  BY <1>4, <1>6 DEF GrantRow
<1>10. ASSUME NEW i \in G
       PROVE  /\ DOMAIN e.grants[gid(i)] = GrantRow
              /\ e.grants[gid(i)].member_id = GrantCert(t, i).member_id
              /\ e.grants[gid(i)].role = GrantCert(t, i).role
              /\ e.grants[gid(i)].granted_seq = t.seqs[i]
              /\ gid(i) \notin StampedGrantIds(t) => e.grants[gid(i)].revoked_by_seq = Null
              /\ gid(i) \in StampedGrantIds(t)
                   => e.grants[gid(i)].revoked_by_seq = t.seqs[stamper(gid(i))]
  BY <1>5, <1>7 DEF GrantRow
<1>11. ASSUME NEW g \in DOMAIN e.grants \cap StampedGrantIds(t)
       PROVE  \E i \in EffectiveRevokes(t) : /\ GrantCert(t, i).grant_id = g
                                             /\ e.grants[g].revoked_by_seq = t.seqs[i]
  <2>1. e.grants[g].revoked_by_seq = t.seqs[stamper(g)]
    <3>1. CASE g \in DOMAIN d.grants
      BY <1>9, <3>1
    <3>2. CASE g \in NewGrantIds(t)
      BY <1>1, <1>10, <3>2
    <3> QED BY <1>3, <3>1, <3>2
  <2> QED BY <1>8, <2>1
<1> QED BY <1>3, <1>9, <1>10, <1>11 DEF G

LEMMA GrantsCommit ==
  ASSUME NEW d, NEW e, NEW t, LogCommits(d, e, t), e.grants = GrantRowsAfter(d, t)
  PROVE  GrantsSound(e)
<1>1. GrantsSound(d)
  BY DEF LogCommits, TablesSound
<1>2. DOMAIN e.grants = DOMAIN d.grants \cup NewGrantIds(t)
  BY GrantRowsCommit
<1>5. ASSUME NEW g \in DOMAIN d.grants
      PROVE  /\ DOMAIN e.grants[g] = GrantRow
             /\ e.grants[g].member_id = d.grants[g].member_id
             /\ e.grants[g].role = d.grants[g].role
             /\ e.grants[g].granted_seq = d.grants[g].granted_seq
  BY GrantRowsCommit
<1>6. ASSUME NEW i \in ControlOps(t, "grant")
      PROVE  LET g == GrantCert(t, i).grant_id
             IN /\ DOMAIN e.grants[g] = GrantRow
                /\ e.grants[g].member_id = GrantCert(t, i).member_id
                /\ e.grants[g].role = GrantCert(t, i).role
                /\ e.grants[g].granted_seq = t.seqs[i]
  BY GrantRowsCommit
<1>3. ASSUME NEW q \in DOMAIN e.log, IsControl(e.log[q], "grant")
      PROVE  LET cert == e.log[q].payload.cert
             IN /\ cert.grant_id \in DOMAIN e.grants
                /\ e.grants[cert.grant_id].granted_seq = q
                /\ e.grants[cert.grant_id].member_id = cert.member_id
                /\ e.grants[cert.grant_id].role = cert.role
  <2>1. CASE q \in DOMAIN d.log /\ e.log[q] = d.log[q]
    <3>1. LET cert == e.log[q].payload.cert
          IN /\ cert.grant_id \in DOMAIN d.grants
             /\ d.grants[cert.grant_id].granted_seq = q
             /\ d.grants[cert.grant_id].member_id = cert.member_id
             /\ d.grants[cert.grant_id].role = cert.role
      BY <1>1, <1>3, <2>1 DEF GrantsSound
    <3> QED BY <1>2, <1>5, <3>1
  <2>2. CASE \E i \in t.fresh : q = t.seqs[i] /\ e.log[q] = t.batch[i]
    <3>1. PICK i \in t.fresh : q = t.seqs[i] /\ e.log[q] = t.batch[i]
      BY <2>2
    <3>2. i \in ControlOps(t, "grant") /\ GrantCert(t, i) = e.log[q].payload.cert
      BY <1>3, <3>1, ControlOpsAre DEF GrantCert
    <3>3. GrantCert(t, i).grant_id \in NewGrantIds(t)
      BY <3>2 DEF NewGrantIds
    <3> QED BY <1>2, <1>6, <3>1, <3>2, <3>3
  <2> QED BY <2>1, <2>2, NewRow
<1>4. ASSUME NEW g \in DOMAIN e.grants
      PROVE  /\ DOMAIN e.grants[g] = GrantRow
             /\ \E q \in DOMAIN e.log : /\ IsControl(e.log[q], "grant")
                                        /\ e.log[q].payload.cert.grant_id = g
  <2>1. CASE g \in DOMAIN d.grants
    <3>1. PICK q \in DOMAIN d.log : /\ IsControl(d.log[q], "grant")
                                    /\ d.log[q].payload.cert.grant_id = g
      BY <1>1, <2>1 DEF GrantsSound
    <3>2. q \in DOMAIN e.log /\ e.log[q] = d.log[q]
      BY DEF LogCommits, Grows
    <3> QED BY <1>5, <2>1, <3>1, <3>2
  <2>2. CASE g \in NewGrantIds(t)
    <3>1. PICK i \in ControlOps(t, "grant") : g = GrantCert(t, i).grant_id
      BY <2>2 DEF NewGrantIds
    <3>2. i \in t.fresh /\ IsControl(t.batch[i], "grant")
      BY <3>1, ControlOpsAre
    <3>3. t.seqs[i] \in DOMAIN e.log /\ e.log[t.seqs[i]] = t.batch[i]
      BY <3>2 DEF LogCommits
    <3> QED BY <1>6, <3>1, <3>2, <3>3 DEF GrantCert
  <2> QED BY <1>2, <2>1, <2>2
<1> QED BY <1>3, <1>4 DEF GrantsSound

LEMMA RevokesCommit ==
  ASSUME NEW d, NEW e, NEW t, LogCommits(d, e, t), e.grants = GrantRowsAfter(d, t)
  PROVE  /\ RevokesSound(e)
         /\ \A g \in DOMAIN d.grants : d.grants[g].revoked_by_seq # Null
                                         => e.grants[g].revoked_by_seq # Null
<1>1. RevokesSound(d) /\ HasRows(t) /\ t.unstamped \subseteq DOMAIN d.grants \cup NewGrantIds(t)
  BY DEF LogCommits, TablesSound, HasRows, Placed
<1>2. DOMAIN e.grants = DOMAIN d.grants \cup NewGrantIds(t)
  BY GrantRowsCommit
<1>3. \A g \in DOMAIN d.grants : g \notin StampedGrantIds(t)
        => e.grants[g].revoked_by_seq = d.grants[g].revoked_by_seq
  BY GrantRowsCommit
<1>4. \A i \in ControlOps(t, "grant") : GrantCert(t, i).grant_id \notin StampedGrantIds(t)
        => e.grants[GrantCert(t, i).grant_id].revoked_by_seq = Null
  BY GrantRowsCommit
<1>5. ASSUME NEW g \in DOMAIN e.grants, g \in StampedGrantIds(t)
      PROVE  LET q == e.grants[g].revoked_by_seq
             IN /\ q # Null /\ q \in DOMAIN e.log /\ IsControl(e.log[q], "revoke")
                /\ e.log[q].payload.cert.grant_id = g
  <2>1. PICK i \in EffectiveRevokes(t) : /\ GrantCert(t, i).grant_id = g
                                         /\ e.grants[g].revoked_by_seq = t.seqs[i]
    BY <1>5, GrantRowsCommit
  <2>2. i \in t.fresh /\ IsControl(t.batch[i], "revoke")
    BY ControlOpsAre DEF EffectiveRevokes
  <2>3. /\ t.seqs[i] \in Nat \ {0} /\ t.seqs[i] \in DOMAIN e.log
        /\ e.log[t.seqs[i]] = t.batch[i]
    BY <2>2 DEF LogCommits
  <2> QED BY <2>1, <2>2, <2>3 DEF GrantCert, Null
<1>6. ASSUME NEW g \in DOMAIN d.grants, d.grants[g].revoked_by_seq # Null
      PROVE  g \in DOMAIN e.grants /\ e.grants[g].revoked_by_seq # Null
  BY <1>2, <1>3, <1>5, <1>6
<1>7. ASSUME NEW q \in DOMAIN e.log, IsControl(e.log[q], "revoke")
      PROVE  LET g == e.log[q].payload.cert.grant_id
             IN g \in DOMAIN e.grants /\ e.grants[g].revoked_by_seq # Null
  <2>1. CASE q \in DOMAIN d.log /\ e.log[q] = d.log[q]
    BY <1>1, <1>6, <1>7, <2>1 DEF RevokesSound
  <2>2. CASE \E i \in t.fresh : q = t.seqs[i] /\ e.log[q] = t.batch[i]
    <3>1. PICK i \in t.fresh : q = t.seqs[i] /\ e.log[q] = t.batch[i]
      BY <2>2
    <3>2. i \in ControlOps(t, "revoke") /\ GrantCert(t, i) = e.log[q].payload.cert
      BY <1>7, <3>1, ControlOpsAre DEF GrantCert
    <3>3. RevokePlaced(d, t, i)
      BY <1>1, <3>1 DEF LogCommits, Placed
    <3>4. CASE GrantCert(t, i).grant_id \in t.unstamped
      <4>1. GrantCert(t, i).grant_id \in StampedGrantIds(t)
        BY <3>2, <3>4 DEF StampedGrantIds, EffectiveRevokes
      <4>2. GrantCert(t, i).grant_id \in DOMAIN e.grants
        BY <1>1, <1>2, <3>4
      <4> QED BY <1>5, <3>2, <4>1, <4>2
    <3>5. CASE GrantCert(t, i).grant_id \notin t.unstamped
      BY <1>6, <1>7, <3>1, <3>2, <3>3, <3>5 DEF RevokePlaced
    <3> QED BY <3>4, <3>5
  <2> QED BY <2>1, <2>2, NewRow
<1>8. ASSUME NEW g \in DOMAIN e.grants, e.grants[g].revoked_by_seq # Null
      PROVE  LET q == e.grants[g].revoked_by_seq
             IN /\ q \in DOMAIN e.log /\ IsControl(e.log[q], "revoke")
                /\ e.log[q].payload.cert.grant_id = g
  <2>1. CASE g \in StampedGrantIds(t)
    BY <1>5, <2>1
  <2>2. CASE g \in DOMAIN d.grants /\ g \notin StampedGrantIds(t)
    <3>1. e.grants[g].revoked_by_seq = d.grants[g].revoked_by_seq
      BY <1>3, <2>2
    <3> QED BY <1>1, <1>8, <2>2, <3>1 DEF RevokesSound, LogCommits, Grows
  <2>3. CASE g \in NewGrantIds(t) /\ g \notin StampedGrantIds(t)
    BY <1>4, <1>8, <2>3 DEF NewGrantIds
  <2> QED BY <1>2, <2>1, <2>2, <2>3
<1>9. RevokesSound(e)
  BY <1>7, <1>8 DEF RevokesSound
<1> QED BY <1>6, <1>9

ChainedRowsAfter(d, t) ==
  [m \in Member |->
     LET mine == {i \in Registrations(t) : GrantCert(t, i).keys.member_id = m}
     IN IF mine = {} THEN d.chained[m]
        ELSE GrantCert(t, Max(mine)).keys.member_kind]

LEMMA MaxOfOne ==
  ASSUME NEW n \in Nat
  PROVE  Max({n}) = n
<1>1. {n} \in SUBSET (1 .. n) \/ n = 0
  OBVIOUS
<1>2. CASE {n} \in SUBSET (1 .. n)
  <2>1. Max({n}) \in {n}
    BY <1>2, GreatestBelow
  <2> QED BY <2>1
<1>3. CASE n = 0
  BY <1>3 DEF Max
<1> QED BY <1>1, <1>2, <1>3

\* A member is registered once: by its first op, and no second op is first.
LEMMA ChainedCommit ==
  ASSUME NEW d, NEW e, NEW t, LogCommits(d, e, t), e.chained = ChainedRowsAfter(d, t)
  PROVE  /\ ChainedSound(e)
         /\ \A m \in Member : d.chained[m] # NotChained => e.chained[m] = d.chained[m]
<1> DEFINE mine(m) == {i \in Registrations(t) : GrantCert(t, i).keys.member_id = m}
<1>1. ChainedSound(d) /\ RolesSound(d)
  BY DEF LogCommits, TablesSound
<1>2. Registrations(t) = {i \in t.fresh : IsRegistration(t.batch[i])}
  BY ControlOpsAre DEF Registrations, IsRegistration
<1>3. ASSUME NEW q \in DOMAIN e.log, IsRegistration(e.log[q])
      PROVE  /\ e.log[q].author_seq = 1 /\ e.log[q].author_member_id \in Member
             /\ e.log[q].payload.cert.keys.member_id = e.log[q].author_member_id
  <2>1. CASE q \in DOMAIN d.log /\ e.log[q] = d.log[q]
    BY <1>1, <1>3, <2>1 DEF RolesSound, WellFormed, LogCommits
  <2>2. CASE \E i \in t.fresh : q = t.seqs[i] /\ e.log[q] = t.batch[i]
    BY <1>3, <2>2 DEF LogCommits, Stands, WellFormed
  <2> QED BY <2>1, <2>2, NewRow
<1>4. ASSUME NEW q \in DOMAIN e.log, NEW r \in DOMAIN e.log,
             IsRegistration(e.log[q]), IsRegistration(e.log[r]),
             e.log[q].payload.cert.keys.member_id = e.log[r].payload.cert.keys.member_id
      PROVE  q = r
  <2>1. Collides(e.log[q], e.log[r])
    BY <1>3, <1>4 DEF Collides
  <2> QED BY <2>1 DEF LogCommits
<1>5. ASSUME NEW m, NEW i \in mine(m)
      PROVE  /\ i \in Nat /\ mine(m) = {i} /\ t.seqs[i] \in DOMAIN e.log
             /\ t.seqs[i] \notin DOMAIN d.log
             /\ e.log[t.seqs[i]] = t.batch[i] /\ IsRegistration(t.batch[i])
             /\ t.batch[i].payload.cert.keys.member_id = m
  <2>1. ASSUME NEW j \in mine(m)
        PROVE  /\ j \in Nat /\ j \in t.fresh /\ t.seqs[j] \in DOMAIN e.log
               /\ t.seqs[j] \notin DOMAIN d.log
               /\ e.log[t.seqs[j]] = t.batch[j] /\ IsRegistration(t.batch[j])
               /\ t.batch[j].payload.cert.keys.member_id = m
    BY <1>2 DEF LogCommits, GrantCert
  <2>2. ASSUME NEW j \in mine(m) PROVE t.seqs[i] = t.seqs[j]
    <3>1. /\ t.seqs[i] \in DOMAIN e.log /\ IsRegistration(e.log[t.seqs[i]])
          /\ e.log[t.seqs[i]].payload.cert.keys.member_id = m
      BY <2>1
    <3>2. /\ t.seqs[j] \in DOMAIN e.log /\ IsRegistration(e.log[t.seqs[j]])
          /\ e.log[t.seqs[j]].payload.cert.keys.member_id = m
      BY <2>1
    <3> QED BY <1>4, <3>1, <3>2
  <2>3. \A j \in mine(m) : i = j
    BY <2>1, <2>2 DEF LogCommits
  <2> QED BY <2>1, <2>3
<1>6. ASSUME NEW m \in Member PROVE mine(m) = {} => e.chained[m] = d.chained[m]
  BY DEF ChainedRowsAfter
<1>7. ASSUME NEW m \in Member, NEW i \in mine(m)
      PROVE  e.chained[m] = t.batch[i].payload.cert.keys.member_kind
  <2>1. Max(mine(m)) = i /\ mine(m) # {}
    BY <1>5, MaxOfOne
  <2>2. e.chained[m] = GrantCert(t, Max(mine(m))).keys.member_kind
    BY <2>1 DEF ChainedRowsAfter
  <2> QED BY <2>1, <2>2 DEF GrantCert
<1> HIDE DEF mine
<1>8. ASSUME NEW q \in DOMAIN d.log, IsRegistration(d.log[q])
      PROVE  LET m == d.log[q].payload.cert.keys.member_id
             IN m \in Member /\ e.chained[m] = d.chained[m]
  <2>1. q \in DOMAIN e.log /\ e.log[q] = d.log[q]
    BY DEF LogCommits, Grows
  <2>2. ASSUME NEW i \in mine(d.log[q].payload.cert.keys.member_id) PROVE FALSE
    <3>1. /\ t.seqs[i] \in DOMAIN e.log /\ t.seqs[i] \notin DOMAIN d.log
          /\ IsRegistration(e.log[t.seqs[i]])
          /\ e.log[t.seqs[i]].payload.cert.keys.member_id
               = e.log[q].payload.cert.keys.member_id
      BY <1>5, <2>1
    <3>2. t.seqs[i] = q
      BY <1>4, <1>8, <2>1, <3>1
    <3> QED BY <3>1, <3>2
  <2> QED BY <1>3, <1>6, <1>8, <2>1, <2>2
<1>9. ASSUME NEW q \in DOMAIN e.log, IsRegistration(e.log[q])
      PROVE  e.chained[e.log[q].payload.cert.keys.member_id]
               = e.log[q].payload.cert.keys.member_kind
  <2>1. CASE q \in DOMAIN d.log /\ e.log[q] = d.log[q]
    BY <1>1, <1>8, <1>9, <2>1 DEF ChainedSound
  <2>2. CASE \E i \in t.fresh : q = t.seqs[i] /\ e.log[q] = t.batch[i]
    <3>1. PICK i \in t.fresh : q = t.seqs[i] /\ e.log[q] = t.batch[i]
      BY <2>2
    <3>2. i \in mine(e.log[q].payload.cert.keys.member_id)
      BY <1>2, <1>9, <3>1 DEF mine, GrantCert
    <3> QED BY <1>3, <1>7, <1>9, <3>1, <3>2
  <2> QED BY <2>1, <2>2, NewRow
<1>10. ASSUME NEW m \in Member, e.chained[m] # NotChained
       PROVE  \E q \in DOMAIN e.log : /\ IsRegistration(e.log[q])
                                      /\ e.log[q].payload.cert.keys.member_id = m
  <2>1. CASE mine(m) = {}
    <3>1. PICK q \in DOMAIN d.log : /\ IsRegistration(d.log[q])
                                    /\ d.log[q].payload.cert.keys.member_id = m
      BY <1>1, <1>6, <1>10, <2>1 DEF ChainedSound
    <3> QED BY <3>1 DEF LogCommits, Grows
  <2>2. CASE mine(m) # {}
    BY <1>5, <2>2
  <2> QED BY <2>1, <2>2
<1>11. ASSUME NEW m \in Member, d.chained[m] # NotChained PROVE e.chained[m] = d.chained[m]
  <2>1. PICK q \in DOMAIN d.log : /\ IsRegistration(d.log[q])
                                  /\ d.log[q].payload.cert.keys.member_id = m
    BY <1>1, <1>11 DEF ChainedSound
  <2> QED BY <1>8, <2>1
<1>12. ChainedSound(e)
  BY <1>9, <1>10 DEF ChainedSound
<1> QED BY <1>11, <1>12

LEMMA RolesCommit ==
  ASSUME NEW d, NEW e, NEW t, LogCommits(d, e, t),
         GrantsSound(e), ChainedSound(e), DOMAIN d.grants \subseteq DOMAIN e.grants,
         \A g \in DOMAIN d.grants :
           /\ e.grants[g].member_id = d.grants[g].member_id
           /\ e.grants[g].role = d.grants[g].role
           /\ e.grants[g].granted_seq = d.grants[g].granted_seq,
         \A m \in Member : d.chained[m] # NotChained => e.chained[m] = d.chained[m]
  PROVE  RolesSound(e)
<1>1. RolesSound(d) /\ HasRows(t) /\ MEMBER_KIND_DEVICE # NotChained
  BY DEF LogCommits, TablesSound, HasRows, MEMBER_KIND_DEVICE, NotChained
<1> SUFFICES ASSUME NEW q \in DOMAIN e.log
             PROVE  /\ WellFormed(e.log[q])
                    /\ \/ RootSigned(e.log[q])
                       \/ \E g \in DOMAIN e.grants :
                            /\ e.grants[g].member_id = e.log[q].author_member_id
                            /\ e.grants[g].role \in ROLE_OP_CLASS_MATRIX[e.log[q].op_class]
                            /\ e.grants[g].granted_seq < q
                    /\ IsControl(e.log[q], "grant") /\ IsPreferences =>
                         e.chained[e.log[q].payload.cert.member_id] = MEMBER_KIND_DEVICE
  BY DEF RolesSound
<1>2. ASSUME q \in DOMAIN d.log, e.log[q] = d.log[q]
      PROVE  /\ WellFormed(e.log[q])
             /\ \/ RootSigned(e.log[q])
                \/ \E g \in DOMAIN e.grants :
                     /\ e.grants[g].member_id = e.log[q].author_member_id
                     /\ e.grants[g].role \in ROLE_OP_CLASS_MATRIX[e.log[q].op_class]
                     /\ e.grants[g].granted_seq < q
             /\ IsControl(e.log[q], "grant") /\ IsPreferences =>
                  e.chained[e.log[q].payload.cert.member_id] = MEMBER_KIND_DEVICE
  <2>1. WellFormed(e.log[q])
    BY <1>1, <1>2 DEF RolesSound
  <2>2. ASSUME NEW g \in DOMAIN d.grants,
               d.grants[g].member_id = e.log[q].author_member_id,
               d.grants[g].role \in ROLE_OP_CLASS_MATRIX[e.log[q].op_class],
               d.grants[g].granted_seq < q
        PROVE  /\ g \in DOMAIN e.grants /\ e.grants[g].member_id = e.log[q].author_member_id
               /\ e.grants[g].role \in ROLE_OP_CLASS_MATRIX[e.log[q].op_class]
               /\ e.grants[g].granted_seq < q
    BY <2>2
  <2>3. ASSUME IsControl(e.log[q], "grant"), IsPreferences
        PROVE  e.chained[e.log[q].payload.cert.member_id] = MEMBER_KIND_DEVICE
    <3>1. d.chained[e.log[q].payload.cert.member_id] = MEMBER_KIND_DEVICE
      BY <1>1, <1>2, <2>3 DEF RolesSound
    <3>2. e.log[q].payload.cert.member_id \in Member
      BY <2>1, <2>3 DEF WellFormed
    <3> QED BY <1>1, <3>1, <3>2
  <2>4. \/ RootSigned(e.log[q])
        \/ \E g \in DOMAIN d.grants :
             /\ d.grants[g].member_id = e.log[q].author_member_id
             /\ d.grants[g].role \in ROLE_OP_CLASS_MATRIX[e.log[q].op_class]
             /\ d.grants[g].granted_seq < q
    BY <1>1, <1>2 DEF RolesSound
  <2> QED BY <2>1, <2>2, <2>3, <2>4
<1>3. ASSUME NEW i \in t.fresh, q = t.seqs[i], e.log[q] = t.batch[i]
      PROVE  /\ WellFormed(e.log[q])
             /\ \/ RootSigned(e.log[q])
                \/ \E g \in DOMAIN e.grants :
                     /\ e.grants[g].member_id = e.log[q].author_member_id
                     /\ e.grants[g].role \in ROLE_OP_CLASS_MATRIX[e.log[q].op_class]
                     /\ e.grants[g].granted_seq < q
             /\ IsControl(e.log[q], "grant") /\ IsPreferences =>
                  e.chained[e.log[q].payload.cert.member_id] = MEMBER_KIND_DEVICE
  <2>1. WellFormed(e.log[q])
    BY <1>3 DEF LogCommits, Stands
  <2>2. RolePlaced(d, t, i) /\ GranteePlaced(d, t, i)
    BY <1>1 DEF LogCommits, Placed
  <2>3. ASSUME NEW g \in DOMAIN d.grants,
               d.grants[g].member_id = e.log[q].author_member_id,
               d.grants[g].role \in ROLE_OP_CLASS_MATRIX[e.log[q].op_class],
               d.grants[g].granted_seq < q
        PROVE  /\ g \in DOMAIN e.grants /\ e.grants[g].member_id = e.log[q].author_member_id
               /\ e.grants[g].role \in ROLE_OP_CLASS_MATRIX[e.log[q].op_class]
               /\ e.grants[g].granted_seq < q
    BY <2>3
  <2>4. ASSUME NEW k \in t.fresh, k < i, IsControl(t.batch[k], "grant"),
               t.batch[k].payload.cert.member_id = e.log[q].author_member_id,
               t.batch[k].payload.cert.role \in ROLE_OP_CLASS_MATRIX[e.log[q].op_class]
        PROVE  \E g \in DOMAIN e.grants :
                 /\ e.grants[g].member_id = e.log[q].author_member_id
                 /\ e.grants[g].role \in ROLE_OP_CLASS_MATRIX[e.log[q].op_class]
                 /\ e.grants[g].granted_seq < q
    <3> DEFINE gid == t.batch[k].payload.cert.grant_id
    <3>1. /\ t.seqs[k] \in DOMAIN e.log /\ e.log[t.seqs[k]] = t.batch[k]
          /\ t.seqs[k] < t.seqs[i]
      BY <2>4 DEF LogCommits
    <3>3. IsControl(e.log[t.seqs[k]], "grant") /\ e.log[t.seqs[k]].payload.cert.grant_id = gid
      BY <2>4, <3>1
    <3> HIDE DEF gid
    <3>2. /\ gid \in DOMAIN e.grants /\ e.grants[gid].granted_seq = t.seqs[k]
          /\ e.grants[gid].member_id = t.batch[k].payload.cert.member_id
          /\ e.grants[gid].role = t.batch[k].payload.cert.role
      BY <3>1, <3>3 DEF GrantsSound
    <3> QED BY <1>3, <2>4, <3>1, <3>2
  <2>5. \/ RootSigned(e.log[q])
        \/ \E g \in DOMAIN e.grants :
             /\ e.grants[g].member_id = e.log[q].author_member_id
             /\ e.grants[g].role \in ROLE_OP_CLASS_MATRIX[e.log[q].op_class]
             /\ e.grants[g].granted_seq < q
    BY <1>3, <2>2, <2>3, <2>4 DEF RolePlaced
  <2>6. ASSUME IsControl(e.log[q], "grant"), IsPreferences
        PROVE  e.chained[e.log[q].payload.cert.member_id] = MEMBER_KIND_DEVICE
    <3> DEFINE m == e.log[q].payload.cert.member_id
    <3>1. m \in Member
      BY <2>1, <2>6 DEF WellFormed
    <3>2. CASE d.chained[m] = MEMBER_KIND_DEVICE
      BY <1>1, <3>1, <3>2
    <3>3. ASSUME NEW k \in t.fresh, IsRegistration(t.batch[k]),
                 t.batch[k].payload.cert.keys.member_id = m,
                 t.batch[k].payload.cert.keys.member_kind = MEMBER_KIND_DEVICE
          PROVE  e.chained[m] = MEMBER_KIND_DEVICE
      <4>1. t.seqs[k] \in DOMAIN e.log /\ e.log[t.seqs[k]] = t.batch[k]
        BY DEF LogCommits
      <4>2. /\ IsRegistration(e.log[t.seqs[k]])
            /\ e.log[t.seqs[k]].payload.cert.keys.member_id = m
            /\ e.log[t.seqs[k]].payload.cert.keys.member_kind = MEMBER_KIND_DEVICE
        BY <3>3, <4>1
      <4> HIDE DEF m
      <4> QED BY <4>1, <4>2 DEF ChainedSound
    <3>4. \/ d.chained[m] = MEMBER_KIND_DEVICE
          \/ \E k \in t.fresh :
               /\ IsRegistration(t.batch[k])
               /\ t.batch[k].payload.cert.keys.member_id = m
               /\ t.batch[k].payload.cert.keys.member_kind = MEMBER_KIND_DEVICE
      BY <1>3, <2>2, <2>6 DEF GranteePlaced
    <3> QED BY <3>2, <3>3, <3>4
  <2> QED BY <2>1, <2>5, <2>6
<1> QED BY <1>2, <1>3, NewRow

StampRowsAfter(d, e, t) ==
  [q \in DOMAIN e.log |->
     IF q \in PruneSeqs(t)
     THEN t.seqs[CHOOSE i \in Prunes(t) :
                   q \in {g.seq : g \in Targets(t.batch[i].payload)}]
     ELSE IF q \in DOMAIN d.stamp THEN d.stamp[q] ELSE Null]

\* Prunes of one request name disjoint rows, and rows nobody has compacted.
LEMMA PrunesCommit ==
  ASSUME NEW d, NEW e, NEW t, LogCommits(d, e, t), e.stamp = StampRowsAfter(d, e, t)
  PROVE  PrunesSound(e)
<1> DEFINE P == {i \in t.fresh : IsPrune(t.batch[i])}
<1>1. PrunesSound(d) /\ HasRows(t) /\ DOMAIN d.stamp = DOMAIN d.log
  BY DEF LogCommits, TablesSound, HasRows, PrunesSound
<1>2. /\ Prunes(t) = P /\ PruneSeqs(t) = UNION {TargetSeqs(t.batch[i]) : i \in P}
  BY DEF Prunes, IsPrune, PruneSeqs, TargetSeqs
<1>3. \A q \in PruneSeqs(t) : q \in DOMAIN d.stamp /\ d.stamp[q] = Null
  BY DEF LogCommits, StagedFree
<1>4. ASSUME NEW i \in P
      PROVE  /\ i \in t.fresh /\ IsPrune(t.batch[i]) /\ i \in Nat \ {0}
             /\ PruneVouched(d, t.batch, i) /\ PrunePlaced(d, t, i)
             /\ ~IsReplay(d, t.batch[i])
             /\ t.seqs[i] \in DOMAIN e.log /\ e.log[t.seqs[i]] = t.batch[i]
             /\ t.seqs[i] \in Nat \ {0} /\ t.seqs[i] \notin DOMAIN d.log
  <2>1. i \in t.fresh /\ IsPrune(t.batch[i]) /\ i \in Nat \ {0}
    BY DEF LogCommits
  <2>2. Stands(d, t.batch, i) /\ ~IsReplay(d, t.batch[i])
    BY DEF LogCommits
  <2>3. PrunePlaced(d, t, i)
    BY <1>1 DEF LogCommits, Placed
  <2>4. /\ t.seqs[i] \in DOMAIN e.log /\ e.log[t.seqs[i]] = t.batch[i]
        /\ t.seqs[i] \in Nat \ {0} /\ t.seqs[i] \notin DOMAIN d.log
    BY DEF LogCommits
  <2> QED BY <2>1, <2>2, <2>3, <2>4 DEF Stands
<1>5. \A i, j \in P : TargetSeqs(t.batch[i]) \cap TargetSeqs(t.batch[j]) # {} => i = j
  <2> SUFFICES ASSUME NEW i \in P, NEW j \in P, i < j
               PROVE  TargetSeqs(t.batch[i]) \cap TargetSeqs(t.batch[j]) = {}
    <3>1. \A i, j \in P : i = j \/ i < j \/ j < i
      BY <1>4
    <3> QED BY <3>1
  <2>1. i \in 1 .. j - 1
    BY <1>4
  <2> QED BY <1>4, <2>1 DEF PruneVouched
<1>6. ASSUME NEW i \in P, NEW q \in TargetSeqs(t.batch[i])
      PROVE  /\ q \in PruneSeqs(t) /\ q \in DOMAIN e.log /\ e.log[q] = d.log[q]
             /\ e.stamp[q] = t.seqs[i]
  <2>1. q \in PruneSeqs(t) /\ q \in DOMAIN d.log
    BY <1>1, <1>2, <1>3
  <2>2. q \in DOMAIN e.log /\ e.log[q] = d.log[q]
    BY <2>1 DEF LogCommits, Grows
  <2>3. (CHOOSE k \in Prunes(t) : q \in {g.seq : g \in Targets(t.batch[k].payload)}) = i
    <3>1. \A k \in P : q \in TargetSeqs(t.batch[k]) <=> k = i
      BY <1>5
    <3> QED BY <1>2, <3>1 DEF TargetSeqs
  <2> QED BY <2>1, <2>2, <2>3 DEF StampRowsAfter
<1>7. ASSUME NEW q \in DOMAIN d.log, q \notin PruneSeqs(t)
      PROVE  q \in DOMAIN e.log /\ e.stamp[q] = d.stamp[q]
  <2>1. q \in DOMAIN e.log
    BY DEF LogCommits, Grows
  <2> QED BY <1>1, <1>7, <2>1 DEF StampRowsAfter
<1>8. \A q \in DOMAIN e.log : q \notin DOMAIN d.log /\ q \notin PruneSeqs(t) => e.stamp[q] = Null
  BY <1>1 DEF StampRowsAfter
<1>9. DOMAIN e.stamp = DOMAIN e.log
  BY DEF StampRowsAfter
<1> HIDE DEF P
<1>10. ASSUME NEW p \in DOMAIN e.log, IsPrune(e.log[p]), p \in DOMAIN d.log, e.log[p] = d.log[p]
       PROVE  /\ \A g \in Targets(e.log[p].payload) :
                   /\ g.seq \in DOMAIN e.log /\ e.stamp[g.seq] = p
                   /\ ~IsCompactionExempt(e.log[g.seq].op_class)
                   /\ g.author_seq = e.log[g.seq].author_seq
              /\ \E c \in DOMAIN e.log :
                   /\ c < p /\ e.log[c].op_id = e.log[p].payload.compaction_op_id
                   /\ e.log[c].author_member_id = e.log[p].author_member_id
                   /\ e.log[c].op_class = OP_CLASS_COMPACTION
  <2>1. ASSUME NEW g \in Targets(d.log[p].payload)
        PROVE  /\ g.seq \in DOMAIN e.log /\ e.stamp[g.seq] = p
               /\ ~IsCompactionExempt(e.log[g.seq].op_class)
               /\ g.author_seq = e.log[g.seq].author_seq
    <3>1. /\ g.seq \in DOMAIN d.log /\ d.stamp[g.seq] = p
          /\ ~IsCompactionExempt(d.log[g.seq].op_class)
          /\ g.author_seq = d.log[g.seq].author_seq
      BY <1>1, <1>10, <2>1 DEF PrunesSound
    <3>2. p # Null
      BY <1>10 DEF LogCommits, Null
    <3>3. e.stamp[g.seq] = d.stamp[g.seq]
      BY <1>3, <1>7, <3>1, <3>2
    <3> QED BY <3>1, <3>3 DEF LogCommits, Grows
  <2>2. PICK c \in DOMAIN d.log :
          /\ c < p /\ d.log[c].op_id = d.log[p].payload.compaction_op_id
          /\ d.log[c].author_member_id = d.log[p].author_member_id
          /\ d.log[c].op_class = OP_CLASS_COMPACTION
    BY <1>1, <1>10 DEF PrunesSound
  <2>3. c \in DOMAIN e.log /\ e.log[c] = d.log[c]
    BY DEF LogCommits, Grows
  <2> QED BY <1>10, <2>1, <2>2, <2>3
<1>11. ASSUME NEW p \in DOMAIN e.log, IsPrune(e.log[p]),
              NEW i \in t.fresh, p = t.seqs[i], e.log[p] = t.batch[i]
       PROVE  /\ \A g \in Targets(e.log[p].payload) :
                   /\ g.seq \in DOMAIN e.log /\ e.stamp[g.seq] = p
                   /\ ~IsCompactionExempt(e.log[g.seq].op_class)
                   /\ g.author_seq = e.log[g.seq].author_seq
              /\ \E c \in DOMAIN e.log :
                   /\ c < p /\ e.log[c].op_id = e.log[p].payload.compaction_op_id
                   /\ e.log[c].author_member_id = e.log[p].author_member_id
                   /\ e.log[c].op_class = OP_CLASS_COMPACTION
  <2>1. i \in P
    BY <1>11 DEF P
  <2>2. ASSUME NEW g \in Targets(t.batch[i].payload)
        PROVE  /\ g.seq \in DOMAIN e.log /\ e.stamp[g.seq] = p
               /\ ~IsCompactionExempt(e.log[g.seq].op_class)
               /\ g.author_seq = e.log[g.seq].author_seq
    <3>1. /\ g.seq \in DOMAIN d.log /\ ~IsCompactionExempt(d.log[g.seq].op_class)
          /\ g.author_seq = d.log[g.seq].author_seq
      BY <1>4, <2>1 DEF PruneVouched
    <3>2. g.seq \in TargetSeqs(t.batch[i])
      BY DEF TargetSeqs
    <3>3. g.seq \in DOMAIN e.log /\ e.log[g.seq] = d.log[g.seq] /\ e.stamp[g.seq] = t.seqs[i]
      BY <1>6, <2>1, <3>2
    <3> QED BY <1>11, <3>1, <3>3
  <2>3. PrunePlaced(d, t, i) /\ IsPrune(t.batch[i])
    BY <1>4, <2>1
  <2>4. ASSUME NEW k \in t.fresh, k < i, t.batch[k].op_class = OP_CLASS_COMPACTION,
               t.batch[k].op_id = t.batch[i].payload.compaction_op_id
        PROVE  \E c \in DOMAIN e.log :
                 /\ c < p /\ e.log[c].op_id = e.log[p].payload.compaction_op_id
                 /\ e.log[c].author_member_id = e.log[p].author_member_id
                 /\ e.log[c].op_class = OP_CLASS_COMPACTION
    <3>1. /\ t.seqs[k] \in DOMAIN e.log /\ e.log[t.seqs[k]] = t.batch[k]
          /\ t.seqs[k] < t.seqs[i]
          /\ t.batch[k].author_member_id = t.batch[i].author_member_id
      BY <2>4 DEF LogCommits
    <3> QED BY <1>11, <2>4, <3>1
  <2>5. ASSUME NEW c \in DOMAIN d.log, c < t.seqs[i],
               d.log[c].op_id = t.batch[i].payload.compaction_op_id,
               d.log[c].author_member_id = t.batch[i].author_member_id,
               d.log[c].op_class = OP_CLASS_COMPACTION
        PROVE  \E x \in DOMAIN e.log :
                 /\ x < p /\ e.log[x].op_id = e.log[p].payload.compaction_op_id
                 /\ e.log[x].author_member_id = e.log[p].author_member_id
                 /\ e.log[x].op_class = OP_CLASS_COMPACTION
    <3>1. c \in DOMAIN e.log /\ e.log[c] = d.log[c]
      BY DEF LogCommits, Grows
    <3> QED BY <1>11, <2>5, <3>1
  <2> QED BY <1>11, <2>2, <2>3, <2>4, <2>5 DEF PrunePlaced
<1>12. ASSUME NEW q \in DOMAIN e.log, e.stamp[q] # Null
       PROVE  /\ e.stamp[q] \in DOMAIN e.log /\ IsPrune(e.log[e.stamp[q]])
              /\ q \in TargetSeqs(e.log[e.stamp[q]])
  <2>1. CASE q \in PruneSeqs(t)
    <3>1. PICK i \in P : q \in TargetSeqs(t.batch[i])
      BY <1>2, <2>1
    <3> QED BY <1>4, <1>6, <3>1
  <2>2. CASE q \in DOMAIN d.log /\ q \notin PruneSeqs(t)
    <3>1. e.stamp[q] = d.stamp[q]
      BY <1>7, <2>2
    <3>2. /\ d.stamp[q] \in DOMAIN d.log /\ IsPrune(d.log[d.stamp[q]])
          /\ q \in TargetSeqs(d.log[d.stamp[q]])
      BY <1>1, <1>12, <2>2, <3>1 DEF PrunesSound
    <3>3. d.stamp[q] \in DOMAIN e.log /\ e.log[d.stamp[q]] = d.log[d.stamp[q]]
      BY <3>2 DEF LogCommits, Grows
    <3> QED BY <3>1, <3>2, <3>3
  <2> QED BY <1>8, <1>12, <2>1, <2>2
<1>13. \A p \in DOMAIN e.log : IsPrune(e.log[p]) =>
         /\ \A g \in Targets(e.log[p].payload) :
              /\ g.seq \in DOMAIN e.log /\ e.stamp[g.seq] = p
              /\ ~IsCompactionExempt(e.log[g.seq].op_class)
              /\ g.author_seq = e.log[g.seq].author_seq
         /\ \E c \in DOMAIN e.log :
              /\ c < p /\ e.log[c].op_id = e.log[p].payload.compaction_op_id
              /\ e.log[c].author_member_id = e.log[p].author_member_id
              /\ e.log[c].op_class = OP_CLASS_COMPACTION
  BY <1>10, <1>11, NewRow
<1> QED BY <1>9, <1>12, <1>13 DEF PrunesSound

\* A commit, table by table.
Commits(d, e, t) ==
  /\ LogCommits(d, e, t)
  /\ e.stamp = StampRowsAfter(d, e, t)
  /\ e.genesis = GenesisAfter(d, t)
  /\ e.grants = GrantRowsAfter(d, t)
  /\ e.epochs = EpochRowsAfter(d, t)
  /\ e.chained = ChainedRowsAfter(d, t)

LEMMA CommitsTables ==
  ASSUME ChainInv, IndexInv, NEW s \in Slot, Commit(s)
  PROVE  Commits(db, db', txn[s])
<1>1. LogCommits(db, db', txn[s])
  BY CommitMeets
<1>2. db'.genesis = GenesisAfter(db, txn[s])
  BY DEF db, Commit, GenesisAfter
<1>3. db'.grants = GrantRowsAfter(db, txn[s])
  BY DEF db, Commit, GrantsAfter, GrantRowsAfter
<1>4. db'.epochs = EpochRowsAfter(db, txn[s])
  BY DEF db, Commit, EpochsAfter, EpochRowsAfter
<1>5. db'.chained = ChainedRowsAfter(db, txn[s])
  BY DEF db, Commit, ChainedAfter, ChainedRowsAfter
<1>6. db'.stamp = StampRowsAfter(db, db', txn[s])
  <2>1. db'.log = LogAfter(txn[s]) /\ db'.stamp = StampAfter(txn[s])
    BY DEF db, Commit
  <2>2. db.stamp = stamp
    BY DEF db
  <2> QED BY <2>1, <2>2 DEF StampAfter, StampRowsAfter
<1> QED BY <1>1, <1>2, <1>3, <1>4, <1>5, <1>6 DEF Commits

LEMMA CommitGrowsTables ==
  ASSUME NEW d, NEW e, NEW t, Commits(d, e, t)
  PROVE  TablesSound(e) /\ TablesGrow(d, e)
<1>1. /\ LogCommits(d, e, t) /\ e.grants = GrantRowsAfter(d, t)
      /\ Grows(d.log, e.log)
  BY DEF Commits, LogCommits
<1>2. GenesisSound(e) /\ (d.genesis # Null => e.genesis = d.genesis)
  BY GenesisCommits DEF Commits
<1>3. EpochsSound(e) /\ Grows(d.epochs, e.epochs)
  BY EpochsCommit DEF Commits
<1>4. GrantsSound(e)
  BY <1>1, GrantsCommit
<1>5. /\ RevokesSound(e)
      /\ \A g \in DOMAIN d.grants : d.grants[g].revoked_by_seq # Null
                                      => e.grants[g].revoked_by_seq # Null
  BY <1>1, RevokesCommit
<1>6. /\ ChainedSound(e)
      /\ \A m \in Member : d.chained[m] # NotChained => e.chained[m] = d.chained[m]
  BY ChainedCommit DEF Commits
<1>7. DOMAIN d.grants \subseteq DOMAIN e.grants
  BY DEF Commits, GrantRowsAfter
<1>8. \A g \in DOMAIN d.grants :
        /\ e.grants[g].member_id = d.grants[g].member_id
        /\ e.grants[g].role = d.grants[g].role
        /\ e.grants[g].granted_seq = d.grants[g].granted_seq
  BY <1>1, GrantRowsCommit
<1>9. RolesSound(e)
  BY <1>1, <1>4, <1>6, <1>7, <1>8, RolesCommit
<1>10. PrunesSound(e)
  BY PrunesCommit DEF Commits
<1>11. TablesGrow(d, e)
  BY <1>1, <1>2, <1>3, <1>5, <1>6, <1>7, <1>8 DEF TablesGrow
<1> QED BY <1>2, <1>3, <1>4, <1>5, <1>6, <1>9, <1>10, <1>11 DEF TablesSound

\* What another request has staged stays free.
LEMMA StagedFreeKept ==
  ASSUME NEW d, NEW e, NEW t, NEW u, Commits(d, e, t), StagedApart(t, u), StagedFree(d, u)
  PROVE  StagedFree(e, u)
<1> SUFFICES ASSUME u.pc = "staged" PROVE StagedFree(e, u)
  BY DEF StagedFree
<1>1. /\ ~(Founds(t) /\ Founds(u))
      /\ NewGrantIds(t) \cap NewGrantIds(u) = {}
      /\ NewEpochs(t) \cap NewEpochs(u) = {}
      /\ PruneSeqs(t) \cap PruneSeqs(u) = {}
  BY DEF StagedApart, Commits, LogCommits
<1>2. /\ Founds(u) => d.genesis = Null
      /\ NewGrantIds(u) \cap DOMAIN d.grants = {}
      /\ NewEpochs(u) \cap DOMAIN d.epochs = {}
      /\ PruneSeqs(u) \subseteq {q \in DOMAIN d.stamp : d.stamp[q] = Null}
  BY DEF StagedFree
<1>3. Founds(u) => e.genesis = Null
  BY <1>1, <1>2 DEF Commits, GenesisAfter
<1>4. NewGrantIds(u) \cap DOMAIN e.grants = {}
  BY <1>1, <1>2 DEF Commits, GrantRowsAfter
<1>5. NewEpochs(u) \cap DOMAIN e.epochs = {}
  BY <1>1, <1>2 DEF Commits, EpochRowsAfter
<1>6. ASSUME NEW q \in PruneSeqs(u) PROVE q \in DOMAIN e.stamp /\ e.stamp[q] = Null
  <2>1. q \in DOMAIN d.stamp /\ d.stamp[q] = Null /\ q \notin PruneSeqs(t)
    BY <1>1, <1>2
  <2>2. DOMAIN d.stamp = DOMAIN d.log /\ DOMAIN d.log \subseteq DOMAIN e.log
    BY DEF Commits, LogCommits, TablesSound, PrunesSound, Grows
  <2> QED BY <2>1, <2>2 DEF Commits, StampRowsAfter
<1> QED BY <1>3, <1>4, <1>5, <1>6 DEF StagedFree

LEMMA CommitKeepsIndex ==
  ASSUME ChainInv, IndexInv, NEW s \in Slot, Commit(s)
  PROVE  IndexInv'
<1>1. Commits(db, db', txn[s])
  BY CommitsTables
<1>2. TablesSound(db') /\ TablesGrow(db, db')
  BY <1>1, CommitGrowsTables
<1>3. txn'[s].pc = "closing" /\ \A o \in Slot : o # s => txn'[o] = txn[o]
  <2>1. /\ DOMAIN txn = Slot
        /\ txn' = [txn EXCEPT ![s] = [pc |-> "closing", batch |-> txn[s].batch,
                                      closing |-> txn[s].closing]]
    BY DEF Commit, ChainInv
  <2> QED BY <2>1
<1>4. ASSUME NEW o \in Slot, o # s PROVE RequestStands(db', txn[o])
  <2> DEFINE u == txn[o]
  <2>1. /\ BatchStands(db, u) /\ Placed(db, u) /\ StagedFree(db, u)
        /\ StagedApart(txn[s], u)
    BY <1>4 DEF IndexInv, RequestStands
  <2>2. HasRows(u) => u.fresh \subseteq DOMAIN u.batch /\ InFlight(u)
    BY DEF ChainInv, RequestInv, Selected, HasFresh, HasRows, InFlight
  <2> HIDE DEF u
  <2>3. ASSUME InFlight(u), NEW i \in DOMAIN u.batch, IsControl(u.batch[i], "grant")
        PROVE  u.batch[i].payload.cert.member_id \in Member
    BY <2>1, <2>3 DEF BatchStands, Stands, WellFormed
  <2>4. BatchStands(db', u)
    <3> SUFFICES ASSUME InFlight(u), NEW i \in DOMAIN u.batch PROVE Stands(db', u.batch, i)
      BY DEF BatchStands
    <3>1. Stands(db, u.batch, i)
      BY <2>1 DEF BatchStands
    <3> QED BY <1>2, <2>3, <3>1, StandsKept
  <2>5. Placed(db', u)
    <3>1. HasRows(u) => \A i \in u.fresh : IsControl(u.batch[i], "grant")
                          => u.batch[i].payload.cert.member_id \in Member
      BY <2>2, <2>3
    <3> QED BY <1>2, <2>1, <3>1, PlacedKept
  <2>6. StagedFree(db', u)
    BY <1>1, <2>1, StagedFreeKept
  <2>7. RequestStands(db', u)
    BY <2>4, <2>5, <2>6 DEF RequestStands
  <2> QED BY <2>7 DEF u
<1>5. \A o \in Slot : RequestStands(db', txn'[o])
  BY <1>3, <1>4, NothingStands
<1>6. ASSUME NEW o \in Slot, NEW p \in Slot, o # p PROVE StagedApart(txn'[o], txn'[p])
  <2>1. CASE o # s /\ p # s
    BY <1>3, <1>6, <2>1 DEF IndexInv
  <2>2. CASE o = s
    BY <1>3, <2>2, NotStagedApart
  <2>3. CASE p = s
    BY <1>3, <2>3, NotStagedApart, StagedApartSymmetric
  <2> QED BY <2>1, <2>2, <2>3
<1> QED BY <1>2, <1>5, <1>6 DEF IndexInv

LEMMA IndexInductive == ChainInv /\ IndexInv /\ [Next]_vars => IndexInv'
<1> SUFFICES ASSUME ChainInv, IndexInv, [Next]_vars PROVE IndexInv'
  OBVIOUS
<1>1. ASSUME NEW s \in Slot, NEW m \in Member, NEW b \in authored, Admit(s, m, b)
      PROVE  IndexInv'
  BY <1>1, AdmitKeepsIndex
<1>2. ASSUME NEW s \in Slot, Step(s) PROVE IndexInv'
  <2>1. CASE ReadStored(s) \/ ReadHeads(s)
    BY <2>1, ReadsKeepIndex
  <2>2. CASE Insert(s)
    BY <2>2, ChainInductive, InsertKeepsIndex
  <2>3. CASE Materialise(s)
    BY <2>3, MaterialiseKeepsIndex
  <2>4. CASE Commit(s)
    BY <2>4, CommitKeepsIndex
  <2>5. CASE Answer(s) \/ AnswerRefusal(s) \/ \E m \in Member : CloseTransport(s, m)
    BY <2>5, EndingsKeepIndex
  <2> QED BY <1>2, <2>1, <2>2, <2>3, <2>4, <2>5 DEF Step
<1>3. ASSUME UNCHANGED vars PROVE IndexInv'
  <2>1. db' = db /\ txn' = txn
    BY <1>3, TablesUnchanged DEF vars
  <2> QED BY <2>1 DEF IndexInv
<1> QED BY <1>1, <1>2, <1>3, CrashKeepsIndex DEF Next

LEMMA IndexInvariant == Spec => [](ChainInv /\ IndexInv)
<1>1. Init => ChainInv /\ IndexInv
  BY ChainInit, IndexInit
<1>2. ChainInv /\ IndexInv /\ [Next]_vars => (ChainInv /\ IndexInv)'
  BY ChainInductive, IndexInductive
<1> QED BY <1>1, <1>2, PTL DEF Spec

-----------------------------------------------------------------------------
(* What the invariants give.                                               *)

\* Rows a request that is not committing leaves alone, and the types no table
\* check needs.
TypeInv == transport \subseteq Member /\ stamp = [q \in DOMAIN stamp |-> stamp[q]]

LEMMA TypeInductive == TypeInv /\ [Next]_vars => TypeInv'
<1> SUFFICES ASSUME TypeInv, [Next]_vars PROVE TypeInv'
  OBVIOUS
<1>1. ASSUME NEW s \in Slot, Commit(s) PROVE TypeInv'
  <2>1. transport' = transport /\ stamp' = StampAfter(txn[s])
    BY <1>1 DEF Commit
  <2>2. stamp' = [q \in DOMAIN stamp' |-> stamp'[q]]
    BY <2>1 DEF StampAfter
  <2> QED BY <2>1, <2>2 DEF TypeInv
<1>2. ASSUME NEW s \in Slot, NEW m \in Member, CloseTransport(s, m) PROVE TypeInv'
  BY <1>2 DEF CloseTransport, TypeInv, tables
<1>3. ASSUME UNCHANGED <<stamp, transport>> PROVE TypeInv'
  BY <1>3 DEF TypeInv
<1>4. ASSUME NEW s \in Slot, Step(s) PROVE TypeInv'
  <2>1. CASE \/ ReadStored(s) \/ ReadHeads(s) \/ Insert(s) \/ Materialise(s)
             \/ Answer(s) \/ AnswerRefusal(s)
    BY <1>3, <2>1 DEF ReadStored, ReadHeads, Insert, Materialise, Answer, AnswerRefusal,
                      tables
  <2> QED BY <1>1, <1>2, <1>4, <2>1 DEF Step
<1>5. ASSUME NEW s \in Slot, NEW m \in Member, NEW b \in authored, Admit(s, m, b)
      PROVE  TypeInv'
  BY <1>3, <1>5 DEF Admit, tables
<1>6. ASSUME Crash PROVE TypeInv'
  BY <1>3, <1>6 DEF Crash, tables
<1>7. ASSUME UNCHANGED vars PROVE TypeInv'
  BY <1>3, <1>7 DEF vars, tables
<1> QED BY <1>4, <1>5, <1>6, <1>7 DEF Next

LEMMA TypeFollows == ChainInv /\ IndexInv /\ TypeInv => TypeOK
<1> SUFFICES ASSUME ChainInv, IndexInv, TypeInv PROVE TypeOK
  OBVIOUS
<1>1. /\ db.log = log /\ db.stamp = stamp /\ db.genesis = genesis /\ db.grants = grants
      /\ db.epochs = epochs /\ db.chained = chained
  BY DEF db
<1>2. /\ nextSeq \in Nat \ {0} /\ DOMAIN log \subseteq 1 .. (nextSeq - 1)
      /\ \A q \in DOMAIN log : log[q].author_member_id \in Member
  BY DEF ChainInv, SoundLog
<1>3. stamp \in [DOMAIN log -> {Null} \cup DOMAIN log]
  <2>1. DOMAIN stamp = DOMAIN log /\ \A q \in DOMAIN stamp : stamp[q] \in {Null} \cup DOMAIN log
    BY <1>1 DEF IndexInv, TablesSound, PrunesSound
  <2> QED BY <2>1 DEF TypeInv
<1>4. genesis \in {Null} \cup DOMAIN log
  BY <1>1 DEF IndexInv, TablesSound, GenesisSound
<1>5. ASSUME NEW g \in DOMAIN grants
      PROVE  /\ grants[g].member_id \in Member /\ grants[g].granted_seq \in DOMAIN log
             /\ grants[g].revoked_by_seq \in {Null} \cup DOMAIN log
  <2>1. PICK q \in DOMAIN log : IsControl(log[q], "grant") /\ log[q].payload.cert.grant_id = g
    BY <1>1, <1>5 DEF IndexInv, TablesSound, GrantsSound
  <2>2. grants[g].granted_seq = q /\ grants[g].member_id = log[q].payload.cert.member_id
    BY <1>1, <2>1 DEF IndexInv, TablesSound, GrantsSound
  <2>3. log[q].payload.cert.member_id \in Member
    BY <1>1, <2>1 DEF IndexInv, TablesSound, RolesSound, WellFormed
  <2>4. grants[g].revoked_by_seq \in {Null} \cup DOMAIN log
    BY <1>1, <1>5 DEF IndexInv, TablesSound, RevokesSound
  <2> QED BY <2>2, <2>3, <2>4
<1>6. \A e \in DOMAIN epochs : epochs[e] \in DOMAIN log
  BY <1>1 DEF IndexInv, TablesSound, EpochsSound
<1>7. ASSUME NEW s \in Slot
      PROVE  /\ txn[s].pc \in {"idle", "admitted", "resolved", "planned", "inserted",
                               "staged", "closing", "refused"}
             /\ HasRows(txn[s]) => \A i \in txn[s].fresh :
                  txn[s].seqs[i] \in 1 .. (nextSeq - 1) /\ txn[s].seqs[i] \notin DOMAIN log
  <2>1. RequestShape(txn[s]) /\ Inserted(log, nextSeq, txn[s])
    BY DEF ChainInv, RequestInv
  <2> QED BY <2>1 DEF RequestShape, Inserted
<1>8. transport \subseteq Member
  BY DEF TypeInv
<1> QED BY <1>2, <1>3, <1>4, <1>5, <1>6, <1>7, <1>8 DEF TypeOK

\* Every committed row carries a seq already drawn, every index row names a row
\* of the log, and what a request holds fits the step it is at.
THEOREM ServerTypeCorrect == Spec => []TypeOK
<1>1. Init => TypeInv
  BY DEF Init, TypeInv
<1> QED BY <1>1, TypeInductive, TypeFollows, IndexInvariant, PTL DEF Spec

LEMMA AssertsAre ==
  ASSUME NEW type
  PROVE  Asserts(type) = {q \in DOMAIN log : IsControl(log[q], type)}
BY DEF Asserts, IsControl

LEMMA IndexFollows == ChainInv /\ IndexInv => IndexMatchesLog
<1> SUFFICES ASSUME ChainInv, IndexInv PROVE IndexMatchesLog
  OBVIOUS
<1>1. /\ db.log = log /\ db.genesis = genesis /\ db.grants = grants
      /\ db.epochs = epochs /\ db.chained = chained
  BY DEF db
<1>2. /\ GenesisSound(db) /\ GrantsSound(db) /\ RevokesSound(db) /\ EpochsSound(db)
      /\ ChainedSound(db) /\ RolesSound(db)
  BY DEF IndexInv, TablesSound
<1>3. Asserts("workspace_genesis") = {genesis} \ {Null}
  <2>1. \A q \in Asserts("workspace_genesis") : q = genesis /\ q # Null
    BY <1>1, <1>2, AssertsAre DEF GenesisSound
  <2>2. genesis # Null => genesis \in Asserts("workspace_genesis")
    BY <1>1, <1>2, AssertsAre DEF GenesisSound
  <2> QED BY <2>1, <2>2
<1>4. {Cert(q).grant_id : q \in Asserts("grant")} = DOMAIN grants
  <2>1. \A q \in Asserts("grant") : Cert(q).grant_id \in DOMAIN grants
    BY <1>1, <1>2, AssertsAre DEF GrantsSound, Cert
  <2>2. \A g \in DOMAIN grants : \E q \in Asserts("grant") : Cert(q).grant_id = g
    BY <1>1, <1>2, AssertsAre DEF GrantsSound, Cert
  <2> QED BY <2>1, <2>2
<1>5. \A q \in Asserts("grant") :
        LET row == grants[Cert(q).grant_id]
        IN row.granted_seq = q /\ row.member_id = Cert(q).member_id /\ row.role = Cert(q).role
  BY <1>1, <1>2, AssertsAre DEF GrantsSound, Cert
<1>6. ASSUME NEW g \in DOMAIN grants
      PROVE  LET revokes == {q \in Asserts("revoke") : Cert(q).grant_id = g}
             IN IF revokes = {} THEN grants[g].revoked_by_seq = Null
                ELSE grants[g].revoked_by_seq \in revokes
  <2>1. \A q \in Asserts("revoke") : Cert(q).grant_id = g => grants[g].revoked_by_seq # Null
    BY <1>1, <1>2, AssertsAre DEF RevokesSound, Cert
  <2>2. grants[g].revoked_by_seq # Null =>
          /\ grants[g].revoked_by_seq \in Asserts("revoke")
          /\ Cert(grants[g].revoked_by_seq).grant_id = g
    BY <1>1, <1>2, <1>6, AssertsAre DEF RevokesSound, Cert
  <2> QED BY <2>1, <2>2
<1>7. {<<log[q].payload.rotate.to_epoch, q>> : q \in Asserts("rotate")}
        = {<<e, epochs[e]>> : e \in DOMAIN epochs}
  <2>1. ASSUME NEW q \in Asserts("rotate")
        PROVE  LET e == log[q].payload.rotate.to_epoch
               IN e \in DOMAIN epochs /\ epochs[e] = q
    BY <1>1, <1>2, AssertsAre DEF EpochsSound
  <2>2. ASSUME NEW e \in DOMAIN epochs
        PROVE  /\ epochs[e] \in Asserts("rotate")
               /\ log[epochs[e]].payload.rotate.to_epoch = e
    BY <1>1, <1>2, AssertsAre DEF EpochsSound, MintsEpoch
  <2>3. ASSUME NEW x \in {<<log[q].payload.rotate.to_epoch, q>> : q \in Asserts("rotate")}
        PROVE  x \in {<<e, epochs[e]>> : e \in DOMAIN epochs}
    BY <2>1
  <2>4. ASSUME NEW x \in {<<e, epochs[e]>> : e \in DOMAIN epochs}
        PROVE  x \in {<<log[q].payload.rotate.to_epoch, q>> : q \in Asserts("rotate")}
    BY <2>2
  <2> QED BY <2>3, <2>4
<1>8. ASSUME NEW m \in Member
      PROVE  chained[m] = NotChained <=>
               \A q \in Asserts("workspace_genesis") \cup Asserts("member_register") :
                 Cert(q).keys.member_id # m
  <2>1. Asserts("workspace_genesis") \cup Asserts("member_register")
          = {q \in DOMAIN log : IsRegistration(log[q])}
    BY AssertsAre DEF IsRegistration
  <2>2. ASSUME NEW q \in DOMAIN log, IsRegistration(log[q]),
               log[q].payload.cert.keys.member_id = m
        PROVE  chained[m] # NotChained
    <3>1. chained[m] = log[q].payload.cert.keys.member_kind
      BY <1>1, <1>2, <2>2 DEF ChainedSound
    <3>2. log[q] \in Posted
      BY DEF ChainInv, SoundLog
    <3>3. /\ log[q].op_class = OP_CLASS_CONTROL
          /\ log[q].payload.control_type \in {"workspace_genesis", "member_register"}
      BY <2>2 DEF IsRegistration, IsControl
    <3> QED BY <3>1, <3>2, <3>3, PostedAssumption
  <2>3. ASSUME chained[m] # NotChained
        PROVE  \E q \in DOMAIN log : /\ IsRegistration(log[q])
                                     /\ log[q].payload.cert.keys.member_id = m
    BY <1>1, <1>2, <2>3 DEF ChainedSound
  <2> QED BY <2>1, <2>2, <2>3 DEF Cert
<1> QED BY <1>3, <1>4, <1>5, <1>6, <1>7, <1>8 DEF IndexMatchesLog

\* The index tables say exactly what the log says, whatever raced, was retried,
\* replayed or rolled back.
THEOREM IndexIsTheLog == Spec => []IndexMatchesLog
BY IndexInvariant, IndexFollows, PTL

LEMMA PrunesFollow == ChainInv /\ IndexInv => PrunesVouched
<1> SUFFICES ASSUME ChainInv, IndexInv, NEW q \in DOMAIN log
             PROVE  LET prunes == {p \in DOMAIN log :
                                     /\ log[p].op_class = OP_CLASS_PRUNE
                                     /\ q \in {t.seq : t \in Targets(log[p].payload)}}
                    IN /\ prunes = {stamp[q]} \ {Null}
                       /\ \A p \in prunes :
                            /\ ~IsCompactionExempt(log[q].op_class)
                            /\ \E t \in Targets(log[p].payload) :
                                 t.seq = q /\ t.author_seq = log[q].author_seq
                            /\ \E c \in DOMAIN log :
                                 /\ c < p
                                 /\ log[c].op_id = log[p].payload.compaction_op_id
                                 /\ log[c].author_member_id = log[p].author_member_id
                                 /\ log[c].op_class = OP_CLASS_COMPACTION
  BY DEF PrunesVouched
<1> DEFINE prunes == {p \in DOMAIN log : IsPrune(log[p]) /\ q \in TargetSeqs(log[p])}
<1>1. db.log = log /\ db.stamp = stamp /\ PrunesSound(db)
  BY DEF db, IndexInv, TablesSound
<1>2. \A p \in DOMAIN log : p # Null
  BY DEF ChainInv, SoundLog, Null
<1>3. ASSUME NEW p \in prunes
      PROVE  /\ stamp[q] = p /\ ~IsCompactionExempt(log[q].op_class)
             /\ \E t \in Targets(log[p].payload) :
                  t.seq = q /\ t.author_seq = log[q].author_seq
             /\ \E c \in DOMAIN log :
                  /\ c < p /\ log[c].op_id = log[p].payload.compaction_op_id
                  /\ log[c].author_member_id = log[p].author_member_id
                  /\ log[c].op_class = OP_CLASS_COMPACTION
  <2>1. PICK t \in Targets(log[p].payload) : t.seq = q
    BY DEF TargetSeqs
  <2>2. /\ stamp[t.seq] = p /\ ~IsCompactionExempt(log[t.seq].op_class)
        /\ t.author_seq = log[t.seq].author_seq
    BY <1>1, <2>1 DEF PrunesSound
  <2>3. \E c \in DOMAIN log :
          /\ c < p /\ log[c].op_id = log[p].payload.compaction_op_id
          /\ log[c].author_member_id = log[p].author_member_id
          /\ log[c].op_class = OP_CLASS_COMPACTION
    BY <1>1 DEF PrunesSound
  <2> QED BY <2>1, <2>2, <2>3
<1>4. stamp[q] # Null => stamp[q] \in prunes
  BY <1>1 DEF PrunesSound
<1>5. prunes = {stamp[q]} \ {Null}
  BY <1>2, <1>3, <1>4
<1>6. prunes = {p \in DOMAIN log : /\ log[p].op_class = OP_CLASS_PRUNE
                                   /\ q \in {t.seq : t \in Targets(log[p].payload)}}
  BY DEF IsPrune, TargetSeqs
<1> HIDE DEF prunes
<1> QED BY <1>3, <1>5, <1>6

\* One prune vouches for each hidden row, and prunes that raced for a row never
\* both stand.
THEOREM ServerVouchesPrunes == Spec => []PrunesVouched
BY IndexInvariant, PrunesFollow, PTL

-----------------------------------------------------------------------------
(* The founding race.                                                      *)

\* A device founds in one batch and revokes in another.
FoundsApart ==
  \A b \in Batch : \A i, j \in DOMAIN b :
    ~(IsControl(b[i], "workspace_genesis") /\ IsControl(b[j], "revoke"))

\* A request that asks for the genesis is refused as one that came too late.
LEMMA FoundingRefusal ==
  ASSUME FoundsApart, ChainInv, IndexInv, NEW s \in Slot, Materialise(s),
         txn'[s].pc = "refused",
         NEW i \in DOMAIN txn[s].batch, IsControl(txn[s].batch[i], "workspace_genesis")
  PROVE  genesis # Null /\ txn'[s].code = "genesis_not_first"
<1> DEFINE t == txn[s]
<1>1. /\ t.pc = "inserted" /\ DOMAIN txn = Slot /\ t.batch \in Batch
      /\ t.fresh \subseteq DOMAIN t.batch
  BY DEF Materialise, ChainInv, RequestInv, RequestShape, Selected, HasFresh
<1>2. BatchStands(db, t) /\ InFlight(t) /\ GenesisSound(db) /\ GrantsSound(db) /\ EpochsSound(db)
  BY <1>1 DEF IndexInv, RequestStands, TablesSound, InFlight
<1>3. Prunes(t) = {}
  <2>1. \A j \in DOMAIN t.batch : ~IsPrune(t.batch[j])
    BY <1>2 DEF BatchStands, Stands, FoundingStands
  <2> QED BY <1>1, <2>1 DEF Prunes, IsPrune
<1>4. EffectiveRevokes(t) = {}
  BY <1>1, ControlOpsAre DEF EffectiveRevokes, FoundsApart
<1>5. ~PruneFails(t) /\ ~FlushedEarly(t)
  BY <1>3, <1>4 DEF PruneFails, PruneSeqs, FlushedEarly
<1>6. IndexFails(t)
  <2> SUFFICES ASSUME ~IndexFails(t) PROVE FALSE
    OBVIOUS
  <2>1. txn' = [txn EXCEPT ![s] =
          [pc |-> "staged", batch |-> t.batch, fresh |-> t.fresh, seqs |-> t.seqs,
           unstamped |-> t.unstamped, closing |-> Stripped(t)]]
    BY <1>5 DEF Materialise
  <2> QED BY <1>1, <2>1
<1>7. genesis # Null
  <2>1. CASE Founds(t) /\ genesis # Null
    BY <2>1
  <2>2. CASE NewGrantIds(t) \cap DOMAIN grants # {}
    <3>1. db.grants = grants /\ db.genesis = genesis
      BY DEF db
    <3> QED BY <1>2, <2>2, <3>1 DEF GrantsSound, GenesisSound
  <2>3. CASE NewEpochs(t) \cap DOMAIN epochs # {}
    <3>1. db.epochs = epochs /\ db.genesis = genesis
      BY DEF db
    <3> QED BY <1>2, <2>3, <3>1 DEF EpochsSound, GenesisSound
  <2> QED BY <1>6, <2>1, <2>2, <2>3 DEF IndexFails
<1>8. Refused(s, ResolveCommitConflict(t))
  BY <1>5, <1>6 DEF Materialise
<1>9. ResolveCommitConflict(t) = "genesis_not_first"
  BY DEF ResolveCommitConflict, IsControl
<1> QED BY <1>1, <1>7, <1>8, <1>9 DEF Refused

LEMMA GenesisStays ==
  ASSUME ChainInv, IndexInv, [Next]_vars, genesis # Null
  PROVE  genesis' # Null
<1>1. ASSUME NEW s \in Slot, Commit(s) PROVE genesis' # Null
  <2>1. Commits(db, db', txn[s])
    BY <1>1, CommitsTables
  <2>2. db'.genesis = db.genesis
    BY <2>1, CommitGrowsTables DEF TablesGrow, db
  <2> QED BY <2>2 DEF db
<1>2. ASSUME UNCHANGED genesis PROVE genesis' # Null
  BY <1>2
<1>3. ASSUME NEW s \in Slot, Step(s) PROVE genesis' # Null
  <2>1. CASE \/ ReadStored(s) \/ ReadHeads(s) \/ Insert(s) \/ Materialise(s)
             \/ Answer(s) \/ AnswerRefusal(s) \/ \E m \in Member : CloseTransport(s, m)
    BY <1>2, <2>1 DEF ReadStored, ReadHeads, Insert, Materialise, Answer, AnswerRefusal,
                      CloseTransport, tables
  <2> QED BY <1>1, <1>3, <2>1 DEF Step
<1>4. ASSUME NEW s \in Slot, NEW m \in Member, NEW b \in authored, Admit(s, m, b)
      PROVE  genesis' # Null
  BY <1>2, <1>4 DEF Admit, tables
<1>5. ASSUME Crash \/ UNCHANGED vars PROVE genesis' # Null
  BY <1>2, <1>5 DEF Crash, vars, tables
<1> QED BY <1>3, <1>4, <1>5 DEF Next

\* A request other than the one a step serves stays as it is.
ServesOnly(s) == \A o \in Slot : o # s => txn'[o] = txn[o]

LEMMA StepServes ==
  ASSUME ChainInv, NEW s \in Slot,
         Step(s) \/ \E m \in Member, b \in authored : Admit(s, m, b)
  PROVE  ServesOnly(s) /\ DOMAIN txn' = Slot
<1>1. DOMAIN txn = Slot
  BY DEF ChainInv
<1>2. ASSUME NEW u, txn' = [txn EXCEPT ![s] = u]
      PROVE  ServesOnly(s) /\ DOMAIN txn' = Slot
  BY <1>1, <1>2 DEF ServesOnly
<1>3. ASSUME NEW code, Refused(s, code) PROVE ServesOnly(s) /\ DOMAIN txn' = Slot
  BY <1>2, <1>3 DEF Refused
<1>4. CASE Step(s)
  <2>1. CASE ReadStored(s)
    BY <1>2, <2>1 DEF ReadStored
  <2>2. CASE ReadHeads(s)
    <3>1. CASE ChainContinues(txn[s].batch, txn[s].fresh)
      <4>1. txn' = [txn EXCEPT ![s] = [txn[s] EXCEPT !.pc = "planned"]]
        BY <2>2, <3>1 DEF ReadHeads
      <4> QED BY <1>2, <4>1
    <3> QED BY <1>3, <2>2, <3>1 DEF ReadHeads
  <2>3. CASE Insert(s)
    <3>1. \/ \E code : Refused(s, code)
          \/ \E u : txn' = [txn EXCEPT ![s] = u]
      BY <2>3 DEF Insert
    <3> QED BY <1>2, <1>3, <3>1
  <2>4. CASE Materialise(s)
    <3>1. \/ \E code : Refused(s, code)
          \/ \E u : txn' = [txn EXCEPT ![s] = u]
      BY <2>4 DEF Materialise
    <3> QED BY <1>2, <1>3, <3>1
  <2>5. CASE Commit(s)
    <3>1. \E u : txn' = [txn EXCEPT ![s] = u]
      BY <2>5 DEF Commit
    <3> QED BY <1>2, <3>1
  <2>6. ASSUME NEW m \in Member, CloseTransport(s, m)
        PROVE  ServesOnly(s) /\ DOMAIN txn' = Slot
    BY <1>1, <2>6 DEF CloseTransport, ServesOnly
  <2>7. CASE Answer(s) \/ AnswerRefusal(s)
    BY <1>2, <2>7 DEF Answer, AnswerRefusal
  <2> QED BY <1>4, <2>1, <2>2, <2>3, <2>4, <2>5, <2>6, <2>7 DEF Step
<1>5. ASSUME NEW m \in Member, NEW b \in authored, Admit(s, m, b)
      PROVE  ServesOnly(s) /\ DOMAIN txn' = Slot
  BY <1>2, <1>5 DEF Admit
<1> QED BY <1>4, <1>5

\* Only the first rows and the tables refuse a request that was admitted.
LEMMA RefusedWhere ==
  ASSUME ChainInv, NEW s \in Slot, Step(s), txn'[s].pc = "refused"
  PROVE  \/ Materialise(s) /\ txn'[s].batch = txn[s].batch
         \/ txn'[s].code = "author_chain_conflict"
<1>1. DOMAIN txn = Slot
  BY DEF ChainInv
<1>3. ASSUME NEW code, Refused(s, code)
      PROVE  txn'[s].code = code /\ txn'[s].batch = txn[s].batch
  BY <1>1, <1>3 DEF Refused
<1>4. ~ReadStored(s) /\ ~Commit(s) /\ ~Answer(s) /\ ~AnswerRefusal(s)
  <2>1. ASSUME ReadStored(s) PROVE txn'[s].pc = "resolved"
    BY <1>1, <2>1 DEF ReadStored
  <2>2. ASSUME Commit(s) PROVE txn'[s].pc = "closing"
    BY <1>1, <2>2 DEF Commit
  <2>3. ASSUME Answer(s) \/ AnswerRefusal(s) PROVE txn'[s].pc = "idle"
    BY <1>1, <2>3 DEF Answer, AnswerRefusal, Idle
  <2> QED BY <2>1, <2>2, <2>3
<1>5. ASSUME NEW m \in Member PROVE ~CloseTransport(s, m)
  <2> SUFFICES ASSUME CloseTransport(s, m) PROVE FALSE
    OBVIOUS
  <2>1. txn[s].pc = "closing" /\ DOMAIN txn[s] = {"pc", "batch", "closing"}
    BY DEF CloseTransport, ChainInv, RequestInv, RequestShape
  <2> QED BY <1>1, <2>1 DEF CloseTransport
<1>6. CASE ReadHeads(s)
  <2>1. CASE ChainContinues(txn[s].batch, txn[s].fresh)
    <3>1. txn[s].pc = "resolved" /\ DOMAIN txn[s] = {"pc", "batch", "retried", "fresh"}
      BY <1>6 DEF ReadHeads, ChainInv, RequestInv, RequestShape
    <3>2. txn' = [txn EXCEPT ![s].pc = "planned"]
      BY <1>6, <2>1 DEF ReadHeads
    <3> QED BY <1>1, <3>1, <3>2
  <2> QED BY <1>3, <1>6, <2>1 DEF ReadHeads
<1>7. CASE Insert(s)
  <2>1. CASE InsertFails(s) /\ txn[s].retried
    BY <1>3, <1>7, <2>1 DEF Insert
  <2>2. CASE ~(InsertFails(s) /\ txn[s].retried)
    <3>1. CASE InsertFails(s)
      <4>1. txn' = [txn EXCEPT ![s] = [pc |-> "admitted", batch |-> txn[s].batch,
                                       retried |-> TRUE]]
        BY <1>7, <2>2, <3>1 DEF Insert
      <4>2. txn'[s].pc = "admitted"
        BY <1>1, <4>1
      <4> QED BY <4>2
    <3>2. CASE ~InsertFails(s)
      <4>1. txn'[s].pc = "inserted"
        BY <1>1, <1>7, <3>2 DEF Insert
      <4> QED BY <4>1
    <3> QED BY <3>1, <3>2
  <2> QED BY <2>1, <2>2
<1>8. CASE Materialise(s)
  <2>1. CASE \E code : Refused(s, code)
    BY <1>3, <1>8, <2>1
  <2>2. CASE ~\E code : Refused(s, code)
    <3>1. txn' = [txn EXCEPT ![s] =
            [pc |-> "staged", batch |-> txn[s].batch, fresh |-> txn[s].fresh,
             seqs |-> txn[s].seqs, unstamped |-> txn[s].unstamped,
             closing |-> Stripped(txn[s])]]
      BY <1>8, <2>2 DEF Materialise
    <3>2. txn'[s].pc = "staged"
      BY <1>1, <3>1
    <3> QED BY <3>2
  <2> QED BY <2>1, <2>2
<1> QED BY <1>4, <1>5, <1>6, <1>7, <1>8 DEF Step

LEMMA FoundersInductive ==
  ASSUME FoundsApart
  PROVE  ChainInv /\ IndexInv /\ FoundersLearnWhy /\ [Next]_vars => FoundersLearnWhy'
<1> SUFFICES ASSUME ChainInv, IndexInv, FoundersLearnWhy, [Next]_vars,
                    NEW o \in Slot, txn'[o].pc = "refused",
                    txn'[o].code # "author_chain_conflict",
                    NEW i \in DOMAIN txn'[o].batch,
                    IsControl(txn'[o].batch[i], "workspace_genesis")
             PROVE  txn'[o].code = "genesis_not_first" /\ genesis' # Null
  BY DEF FoundersLearnWhy, IsControl
<1>1. CASE txn'[o] = txn[o]
  <2>1. txn[o].code = "genesis_not_first" /\ genesis # Null
    BY <1>1 DEF FoundersLearnWhy, IsControl
  <2> QED BY <1>1, <2>1, GenesisStays
<1>2. ASSUME NEW s \in Slot, Step(s), txn'[o] # txn[o]
      PROVE  txn'[o].code = "genesis_not_first" /\ genesis' # Null
  <2>1. o = s
    BY <1>2, StepServes DEF ServesOnly
  <2>2. Materialise(s) /\ txn'[s].batch = txn[s].batch
    BY <1>2, <2>1, RefusedWhere
  <2>3. genesis # Null /\ txn'[s].code = "genesis_not_first"
    BY <2>1, <2>2, FoundingRefusal
  <2> QED BY <2>1, <2>3, GenesisStays
<1>3. ASSUME NEW s \in Slot, NEW m \in Member, NEW b \in authored, Admit(s, m, b),
             txn'[o] # txn[o]
      PROVE  FALSE
  <2>1. o = s
    BY <1>3, StepServes DEF ServesOnly
  <2>2. txn'[s].pc = "admitted"
    BY <1>3 DEF Admit, ChainInv
  <2> QED BY <2>1, <2>2
<1>4. ~Crash
  BY DEF Crash, Idle
<1>5. UNCHANGED vars => txn'[o] = txn[o]
  BY DEF vars
<1> QED BY <1>1, <1>2, <1>3, <1>4, <1>5 DEF Next

\* A device that lost the founding race is told so, whichever constraint fired,
\* as long as nobody revokes in the batch that founds.
THEOREM ServerTellsFounders ==
  ASSUME FoundsApart
  PROVE  Spec => []FoundersLearnWhy
<1>1. Init => FoundersLearnWhy
  BY DEF Init, FoundersLearnWhy, Idle
<1>2. ChainInv /\ IndexInv /\ FoundersLearnWhy /\ [Next]_vars => FoundersLearnWhy'
  BY FoundersInductive
<1> QED BY <1>1, <1>2, IndexInvariant, PTL DEF Spec

-----------------------------------------------------------------------------
(* The order of seqs is the order of every author's chain.                 *)

InOrder(l) ==
  \A q, r \in DOMAIN l : /\ l[q].author_member_id = l[r].author_member_id
                         /\ l[q].author_seq < l[r].author_seq
                         => q < r

\* The rows a request has inserted lie above those its author has in the log.
OnTop(l, t) ==
  HasRows(t) => \A i \in t.fresh, q \in DOMAIN l :
    l[q].author_member_id = t.batch[i].author_member_id => q < t.seqs[i]

OrderInv == InOrder(log) /\ \A s \in Slot : OnTop(log, txn[s])

\* Rows that go on at k + 1, where the log's chain of their author m ends at k.
GoesOnAt(l, t, m, k) ==
  /\ PlacesIn(l, m) = 1 .. k
  /\ \A j \in t.fresh : /\ t.batch[j].author_member_id = m
                        /\ t.batch[j].author_seq = k + Rank(t.fresh, j)
  /\ \E j \in t.fresh : t.batch[j].author_seq = k + 1

\* Inserted rows continue their author's chain from where the log has it, and not
\* from below: a place further down would collide.
LEMMA FreshContinues ==
  ASSUME NEW l, NEW n, NEW t, SoundLog(l, n), RequestInv(l, n, t), HasRows(t),
         NEW i \in t.fresh
  PROVE  \E k \in Nat : GoesOnAt(l, t, t.batch[i].author_member_id, k)
<1> DEFINE m == t.batch[i].author_member_id
<1>1. /\ t.batch \in Batch /\ OneAuthor(t.batch) /\ t.fresh \subseteq DOMAIN t.batch
      /\ Inserted(l, n, t) /\ Continues(l, t) /\ HasPlan(t)
  BY DEF RequestInv, RequestShape, Selected, HasRows, HasFresh, HasPlan
<1>2. /\ DOMAIN t.batch = 1 .. Len(t.batch) /\ Len(t.batch) \in Nat
      /\ t.fresh \in SUBSET (1 .. Len(t.batch))
  BY <1>1, BatchIndices
<1>3. m \in Member /\ \A j \in t.fresh : t.batch[j].author_member_id = m
  BY <1>1 DEF OneAuthor
<1>4. /\ Cardinality(t.fresh) \in Nat /\ Rank(t.fresh, i) \in 1 .. Cardinality(t.fresh)
      /\ \A x \in 1 .. Cardinality(t.fresh) : \E j \in t.fresh : Rank(t.fresh, j) = x
  BY <1>2, RankOrder
<1>5. PICK first \in t.fresh : Rank(t.fresh, first) = 1
  BY <1>4
<1>6. PICK base \in Nat : \A j \in t.fresh :
        /\ t.batch[j].author_seq = base + Rank(t.fresh, j)
        /\ 1 .. base \subseteq PlacesIn(l, t.batch[j].author_member_id)
  BY <1>1 DEF Continues
<1>7. PICK k \in Nat : PlacesIn(l, m) = 1 .. k
  BY <1>3 DEF SoundLog
<1>8. t.batch[first].author_seq = base + 1 /\ 1 .. base \subseteq 1 .. k
  BY <1>3, <1>5, <1>6, <1>7
<1>9. base + 1 \notin PlacesIn(l, m)
  <2> SUFFICES ASSUME base + 1 \in PlacesIn(l, m) PROVE FALSE
    OBVIOUS
  <2>1. PICK q \in DOMAIN l : l[q].author_member_id = m /\ l[q].author_seq = base + 1
    BY DEF PlacesIn
  <2>2. Collides(t.batch[first], l[q])
    BY <1>3, <1>8, <2>1 DEF Collides
  <2> QED BY <1>1, <2>2 DEF Inserted
<1>10. base = k
  BY <1>7, <1>8, <1>9
<1> QED BY <1>3, <1>6, <1>7, <1>8, <1>10 DEF GoesOnAt

\* A step that leaves the log alone and touches one request.
LEMMA QuietOrderStep ==
  ASSUME OrderInv, NEW s \in Slot, log' = log, OnTop(log, txn'[s]),
         \A o \in Slot : o # s => txn'[o] = txn[o]
  PROVE  OrderInv'
<1>1. \A o \in Slot : OnTop(log, txn'[o])
  BY DEF OrderInv
<1> QED BY <1>1 DEF OrderInv

LEMMA InsertKeepsOrder ==
  ASSUME ChainInv, ChainInv', OrderInv, NEW s \in Slot, Insert(s)
  PROVE  OrderInv'
<1>1. DOMAIN txn = Slot /\ log' = log /\ db.log = log
  BY DEF Insert, tables, ChainInv, db
<1>2. CASE InsertFails(s)
  <2>1. PICK u : txn' = [txn EXCEPT ![s] = u] /\ u.pc \in {"refused", "admitted"}
    <3> DEFINE back == [pc |-> "admitted", batch |-> txn[s].batch, retried |-> TRUE]
               gone == [pc |-> "refused", code |-> "author_chain_conflict",
                        batch |-> txn[s].batch]
    <3>1. txn' = [txn EXCEPT ![s] = back] \/ txn' = [txn EXCEPT ![s] = gone]
      BY <1>2 DEF Insert, Refused
    <3>2. back.pc = "admitted" /\ gone.pc = "refused"
      OBVIOUS
    <3> HIDE DEF back, gone
    <3> QED BY <3>1, <3>2
  <2>2. txn'[s] = u /\ \A o \in Slot : o # s => txn'[o] = txn[o]
    BY <1>1, <2>1
  <2> QED BY <1>1, <2>1, <2>2, QuietOrderStep DEF OnTop, HasRows
<1>3. CASE ~InsertFails(s)
  <2>1. /\ nextSeq \in Nat /\ DOMAIN log \subseteq 1 .. (nextSeq - 1)
        /\ \A i \in txn'[s].fresh : txn'[s].seqs[i] \in Nat /\ nextSeq <= txn'[s].seqs[i]
        /\ \A o \in Slot : o # s => txn'[o] = txn[o]
    BY <1>1, <1>3, RowsGoOnTop
  <2>2. \A q \in DOMAIN log : q \in Nat /\ q < nextSeq
    BY <2>1
  <2>3. \A i \in txn'[s].fresh, q \in DOMAIN log : q < txn'[s].seqs[i]
    BY <2>1, <2>2
  <2> QED BY <1>1, <2>1, <2>3, QuietOrderStep DEF OnTop
<1> QED BY <1>2, <1>3

LEMMA MaterialiseKeepsOrder ==
  ASSUME ChainInv, OrderInv, NEW s \in Slot, Materialise(s)
  PROVE  OrderInv'
<1> DEFINE t == txn[s]
<1>1. DOMAIN txn = Slot /\ log' = log /\ HasRows(t)
  BY DEF Materialise, tables, ChainInv, HasRows
<1>2. PICK u : /\ txn' = [txn EXCEPT ![s] = u]
               /\ \/ u.pc = "refused"
                  \/ u.batch = t.batch /\ u.fresh = t.fresh /\ u.seqs = t.seqs
  BY DEF Materialise, Refused
<1>3. txn'[s] = u /\ \A o \in Slot : o # s => txn'[o] = txn[o]
  BY <1>1, <1>2
<1>4. OnTop(log, t)
  BY DEF OrderInv
<1>5. OnTop(log, u)
  BY <1>1, <1>2, <1>4 DEF OnTop, HasRows
<1> QED BY <1>1, <1>3, <1>5, QuietOrderStep

\* Two requests never hold rows of one author: each would continue its chain at the
\* same place.
LEMMA RowsOfOneAuthor ==
  ASSUME ChainInv, NEW s \in Slot, NEW o \in Slot, o # s, HasRows(txn[s]), HasRows(txn[o]),
         NEW i \in txn[s].fresh, NEW j \in txn[o].fresh
  PROVE  txn[s].batch[i].author_member_id # txn[o].batch[j].author_member_id
<1> DEFINE t == txn[s]
           u == txn[o]
           m == t.batch[i].author_member_id
<1> SUFFICES ASSUME u.batch[j].author_member_id = m PROVE FALSE
  OBVIOUS
<1>1. /\ SoundLog(log, nextSeq) /\ RequestInv(log, nextSeq, t) /\ RequestInv(log, nextSeq, u)
      /\ Apart(t, u)
  BY DEF ChainInv
<1>2. PICK k \in Nat : GoesOnAt(log, t, m, k)
  BY <1>1, FreshContinues
<1>3. PICK k2 \in Nat : GoesOnAt(log, u, m, k2)
  BY <1>1, FreshContinues
<1>4. k = k2
  <2>1. 1 .. k = 1 .. k2
    BY <1>2, <1>3 DEF GoesOnAt
  <2> QED BY <2>1
<1>5. PICK x \in t.fresh, y \in u.fresh : t.batch[x].author_seq = u.batch[y].author_seq
  BY <1>2, <1>3, <1>4 DEF GoesOnAt
<1>6. Collides(t.batch[x], u.batch[y])
  BY <1>2, <1>3, <1>5 DEF Collides, GoesOnAt
<1> QED BY <1>1, <1>6 DEF Apart

LEMMA CommitKeepsOrder ==
  ASSUME ChainInv, OrderInv, NEW s \in Slot, Commit(s)
  PROVE  OrderInv'
<1> DEFINE t == txn[s]
<1>1. /\ HasRows(t) /\ RequestInv(log, nextSeq, t) /\ SoundLog(log, nextSeq)
      /\ DOMAIN log' = DOMAIN log \cup {t.seqs[i] : i \in t.fresh}
      /\ \A q \in DOMAIN log : log'[q] = log[q]
      /\ \A i \in t.fresh : log'[t.seqs[i]] = t.batch[i]
  BY CommitGrowsLog DEF Grows, ChainInv
<1>2. OnTop(log, t) /\ InOrder(log)
  BY DEF OrderInv
<1>3. ASSUME NEW q \in DOMAIN log, NEW i \in t.fresh,
             log[q].author_member_id = t.batch[i].author_member_id
      PROVE  log[q].author_seq < t.batch[i].author_seq
  <2>0. PICK k \in Nat : GoesOnAt(log, t, t.batch[i].author_member_id, k)
    BY <1>1, FreshContinues
  <2>1. /\ PlacesIn(log, t.batch[i].author_member_id) = 1 .. k
        /\ t.batch[i].author_seq = k + Rank(t.fresh, i)
    BY <2>0 DEF GoesOnAt
  <2>2. Rank(t.fresh, i) \in Nat /\ Rank(t.fresh, i) >= 1
    <3>1. t.batch \in Batch /\ t.fresh \subseteq DOMAIN t.batch
      BY <1>1 DEF RequestInv, RequestShape, Selected, HasRows, HasFresh
    <3>2. Len(t.batch) \in Nat /\ t.fresh \in SUBSET (1 .. Len(t.batch))
      BY <3>1, BatchIndices
    <3>3. Cardinality(t.fresh) \in Nat /\ Rank(t.fresh, i) \in 1 .. Cardinality(t.fresh)
      BY <3>2, RankOrder
    <3> QED BY <3>3
  <2>3. log[q].author_seq \in 1 .. k
    BY <1>3, <2>1 DEF PlacesIn
  <2> QED BY <2>1, <2>2, <2>3
<1>4. \A i, j \in t.fresh :
        /\ t.batch[i].author_seq < t.batch[j].author_seq => t.seqs[i] < t.seqs[j]
  <2> SUFFICES ASSUME NEW i \in t.fresh, NEW j \in t.fresh,
                      t.batch[i].author_seq < t.batch[j].author_seq
               PROVE  t.seqs[i] < t.seqs[j]
    OBVIOUS
  <2>1. /\ t.batch \in Batch /\ t.fresh \subseteq DOMAIN t.batch
        /\ \A x, y \in t.fresh : x < y => t.seqs[x] < t.seqs[y]
    BY <1>1 DEF RequestInv, RequestShape, Selected, Inserted, HasRows, HasFresh
  <2>2. Len(t.batch) \in Nat /\ t.fresh \in SUBSET (1 .. Len(t.batch))
    BY <2>1, BatchIndices
  <2>3. /\ \A x \in t.fresh : Rank(t.fresh, x) \in 1 .. Cardinality(t.fresh)
        /\ Cardinality(t.fresh) \in Nat
        /\ \A x, y \in t.fresh : x < y => Rank(t.fresh, x) < Rank(t.fresh, y)
    BY <2>2, RankOrder
  <2>4. PICK k \in Nat : GoesOnAt(log, t, t.batch[i].author_member_id, k)
    BY <1>1, FreshContinues
  <2>5. Rank(t.fresh, i) < Rank(t.fresh, j)
    BY <2>3, <2>4 DEF GoesOnAt
  <2>6. i < j
    <3>1. i \in Nat /\ j \in Nat
      BY <2>2
    <3>2. ~(j < i) /\ i # j
      BY <2>3, <2>5
    <3> QED BY <3>1, <3>2
  <2> QED BY <2>1, <2>6
<1>5. InOrder(log')
  <2> SUFFICES ASSUME NEW q \in DOMAIN log', NEW r \in DOMAIN log',
                      log'[q].author_member_id = log'[r].author_member_id,
                      log'[q].author_seq < log'[r].author_seq
               PROVE  q < r
    BY DEF InOrder
  <2>1. CASE q \in DOMAIN log /\ r \in DOMAIN log
    BY <1>1, <1>2, <2>1 DEF InOrder
  <2>2. CASE q \in DOMAIN log /\ r \notin DOMAIN log
    <3>1. PICK i \in t.fresh : r = t.seqs[i]
      BY <1>1, <2>2
    <3> QED BY <1>1, <1>2, <2>2, <3>1 DEF OnTop
  <2>3. CASE q \notin DOMAIN log /\ r \in DOMAIN log
    <3>1. PICK i \in t.fresh : q = t.seqs[i]
      BY <1>1, <2>3
    <3>2. log[r].author_seq < t.batch[i].author_seq /\ t.batch[i].author_seq < log[r].author_seq
      BY <1>1, <1>3, <2>3, <3>1
    <3>3. log[r].author_seq \in Nat /\ t.batch[i].author_seq \in Nat
      <4>1. log[r] \in Posted
        BY <1>1, <2>3 DEF SoundLog
      <4>2. t.batch \in Batch /\ i \in DOMAIN t.batch
        BY <1>1 DEF RequestInv, RequestShape, Selected, HasRows, HasFresh
      <4>3. t.batch[i] \in Posted
        BY <4>2, BatchIndices
      <4> QED BY <4>1, <4>3, PostedAssumption
    <3> QED BY <3>2, <3>3
  <2>4. CASE q \notin DOMAIN log /\ r \notin DOMAIN log
    <3>1. PICK i \in t.fresh, j \in t.fresh : q = t.seqs[i] /\ r = t.seqs[j]
      BY <1>1, <2>4
    <3> QED BY <1>1, <1>4, <3>1
  <2> QED BY <2>1, <2>2, <2>3, <2>4
<1>6. DOMAIN txn = Slot /\ txn'[s].pc = "closing" /\ \A o \in Slot : o # s => txn'[o] = txn[o]
  BY DEF Commit, ChainInv
<1>7. ASSUME NEW o \in Slot PROVE OnTop(log', txn'[o])
  <2>1. CASE o = s
    BY <1>6, <2>1 DEF OnTop, HasRows
  <2>2. CASE o # s
    <3> SUFFICES ASSUME HasRows(txn[o]), NEW j \in txn[o].fresh, NEW q \in DOMAIN log',
                        log'[q].author_member_id = txn[o].batch[j].author_member_id
                 PROVE  q < txn[o].seqs[j]
      BY <1>6, <2>2 DEF OnTop
    <3>1. CASE q \in DOMAIN log
      BY <1>1, <3>1 DEF OrderInv, OnTop
    <3>2. CASE q \notin DOMAIN log
      <4>1. PICK i \in t.fresh : q = t.seqs[i]
        BY <1>1, <3>2
      <4> QED BY <1>1, <2>2, <4>1, RowsOfOneAuthor
    <3> QED BY <3>1, <3>2
  <2> QED BY <2>1, <2>2
<1> QED BY <1>5, <1>7 DEF OrderInv

LEMMA OrderInductive == ChainInv /\ ChainInv' /\ OrderInv /\ [Next]_vars => OrderInv'
<1> SUFFICES ASSUME ChainInv, ChainInv', OrderInv, [Next]_vars PROVE OrderInv'
  OBVIOUS
<1>1. DOMAIN txn = Slot
  BY DEF ChainInv
<1>2. ASSUME NEW s \in Slot, NEW u, txn' = [txn EXCEPT ![s] = u], ~HasRows(u), log' = log
      PROVE  OrderInv'
  <2>1. txn'[s] = u /\ \A o \in Slot : o # s => txn'[o] = txn[o]
    BY <1>1, <1>2
  <2> QED BY <1>2, <2>1, QuietOrderStep DEF OnTop
<1>3. ASSUME NEW s \in Slot, NEW m \in Member, NEW b \in authored, Admit(s, m, b)
      PROVE  OrderInv'
  BY <1>2, <1>3 DEF Admit, HasRows, tables
<1>4. ASSUME NEW s \in Slot, ReadStored(s) PROVE OrderInv'
  BY <1>2, <1>4 DEF ReadStored, HasRows, tables
<1>5. ASSUME NEW s \in Slot, ReadHeads(s) PROVE OrderInv'
  <2>1. PICK u : txn' = [txn EXCEPT ![s] = u] /\ ~HasRows(u)
    <3>1. CASE ChainContinues(txn[s].batch, txn[s].fresh)
      <4>1. txn' = [txn EXCEPT ![s] = [txn[s] EXCEPT !.pc = "planned"]]
        BY <1>5, <3>1 DEF ReadHeads
      <4>2. ~HasRows([txn[s] EXCEPT !.pc = "planned"])
        <5>1. DOMAIN txn[s] = {"pc", "batch", "retried", "fresh"}
          BY <1>5 DEF ReadHeads, ChainInv, RequestInv, RequestShape
        <5> QED BY <5>1 DEF HasRows
      <4> QED BY <4>1, <4>2
    <3>2. CASE ~ChainContinues(txn[s].batch, txn[s].fresh)
      BY <1>5, <3>2 DEF ReadHeads, Refused, HasRows
    <3> QED BY <3>1, <3>2
  <2> QED BY <1>2, <1>5, <2>1 DEF ReadHeads, tables
<1>6. ASSUME NEW s \in Slot, NEW m \in Member, CloseTransport(s, m) PROVE OrderInv'
  <2>1. DOMAIN txn[s] = {"pc", "batch", "closing"} /\ txn[s].pc = "closing"
    BY <1>6 DEF CloseTransport, ChainInv, RequestInv, RequestShape
  <2>2. txn' = [txn EXCEPT ![s] = [txn[s] EXCEPT !.closing = @ \ {m}]]
    BY <1>6 DEF CloseTransport
  <2>3. ~HasRows([txn[s] EXCEPT !.closing = @ \ {m}])
    BY <2>1 DEF HasRows
  <2> QED BY <1>2, <1>6, <2>2, <2>3 DEF CloseTransport, tables
<1>7. ASSUME NEW s \in Slot, Answer(s) \/ AnswerRefusal(s) PROVE OrderInv'
  BY <1>2, <1>7 DEF Answer, AnswerRefusal, Idle, HasRows, tables
<1>8. CASE Crash
  <2>1. log' = log /\ \A s \in Slot : ~HasRows(txn'[s])
    BY <1>8 DEF Crash, Idle, HasRows, tables
  <2> QED BY <2>1 DEF OrderInv, OnTop
<1>9. CASE UNCHANGED vars
  <2>1. log' = log /\ txn' = txn
    BY <1>9 DEF vars, tables
  <2> QED BY <2>1 DEF OrderInv
<1> QED BY <1>3, <1>4, <1>5, <1>6, <1>7, <1>8, <1>9, InsertKeepsOrder,
           MaterialiseKeepsOrder, CommitKeepsOrder DEF Next, Step

LEMMA ChainsFollow == ChainInv /\ OrderInv => ChainsInOrder
<1> SUFFICES ASSUME ChainInv, OrderInv, NEW q \in DOMAIN log
             PROVE  {log[r].author_seq : r \in
                       {p \in DOMAIN log :
                          p <= q /\ log[p].author_member_id = log[q].author_member_id}}
                      = 1 .. log[q].author_seq
  BY DEF ChainsInOrder
<1> DEFINE m == log[q].author_member_id
           below == {p \in DOMAIN log : p <= q /\ log[p].author_member_id = m}
<1>1. /\ SoundLog(log, nextSeq) /\ DOMAIN log \subseteq Nat
      /\ \A p \in DOMAIN log : log[p].author_seq \in Nat
  BY PostedAssumption DEF ChainInv, SoundLog
<1>2. PICK k \in Nat : PlacesIn(log, m) = 1 .. k
  BY <1>1 DEF SoundLog
<1>3. \A p \in DOMAIN log : log[p].author_member_id = m => log[p].author_seq \in 1 .. k
  BY <1>2 DEF PlacesIn
<1>4. ASSUME NEW r \in below PROVE log[r].author_seq \in 1 .. log[q].author_seq
  <2>1. ~(log[q].author_seq < log[r].author_seq)
    <3>1. log[q].author_seq < log[r].author_seq => q < r
      BY DEF OrderInv, InOrder
    <3> QED BY <1>1, <3>1
  <2>2. log[r].author_seq \in 1 .. k
    BY <1>3
  <2> QED BY <1>1, <2>1, <2>2
<1>5. ASSUME NEW x \in 1 .. log[q].author_seq
      PROVE  \E r \in below : log[r].author_seq = x
  <2>1. log[q].author_seq \in 1 .. k
    BY <1>3
  <2>2. x \in 1 .. k
    BY <2>1
  <2>3. x \in PlacesIn(log, m)
    BY <1>2, <2>2
  <2>4. PICK r \in DOMAIN log : log[r].author_member_id = m /\ log[r].author_seq = x
    BY <2>3 DEF PlacesIn
  <2>5. CASE x = log[q].author_seq
    <3>1. q \in below
      BY <1>1
    <3> QED BY <2>5, <3>1
  <2>6. CASE x # log[q].author_seq
    <3>1. log[r].author_seq < log[q].author_seq
      BY <1>1, <2>4, <2>6
    <3>2. r < q
      BY <2>4, <3>1 DEF OrderInv, InOrder
    <3>3. r \in below
      BY <1>1, <2>4, <3>2
    <3> QED BY <2>4, <3>3
  <2> QED BY <2>5, <2>6
<1> QED BY <1>4, <1>5

LEMMA OrderInvariant == Spec => []OrderInv
<1>1. Init => OrderInv
  BY DEF Init, OrderInv, InOrder, OnTop, HasRows, Idle
<1> QED BY <1>1, ChainInvariant, OrderInductive, PTL DEF Spec

\* Seqs are drawn before rows commit and requests race, and still whoever reads the
\* log upwards meets every author's ops from author_seq 1 on without a gap
\* (_append_batch, pull_ops).
THEOREM ServerKeepsChainsInOrder == Spec => []ChainsInOrder
BY ChainInvariant, OrderInvariant, ChainsFollow, PTL

-----------------------------------------------------------------------------
(* The order in which the log asserts.                                     *)

LEMMA EpochsBelow ==
  ASSUME NEW d, EpochsSound(d), DOMAIN d.log \subseteq Nat,
         NEW c \in DOMAIN d.epochs, NEW k \in Nat, 1 <= k, k <= c
  PROVE  k \in DOMAIN d.epochs /\ d.epochs[k] \in Nat /\ d.epochs[k] <= d.epochs[c]
<1> DEFINE Good == {x \in 0 .. c - 1 : /\ c - x \in DOMAIN d.epochs
                                      /\ d.epochs[c - x] <= d.epochs[c]}
<1>1. \A e \in DOMAIN d.epochs : e \in Nat /\ e >= 1 /\ d.epochs[e] \in Nat
  BY MaxKeyEpochAssumption DEF EpochsSound
<1>2. c - 1 \in Nat /\ 0 \in Good
  BY <1>1
<1>3. ASSUME NEW x \in 0 .. (c - 1) - 1, x \in Good PROVE x + 1 \in Good
  <2>1. c - x \in DOMAIN d.epochs /\ c - x # 1 /\ d.epochs[c - x] <= d.epochs[c]
    BY <1>1, <1>3
  <2>2. (c - x) - 1 \in DOMAIN d.epochs /\ d.epochs[(c - x) - 1] < d.epochs[c - x]
    BY <2>1 DEF EpochsSound
  <2>3. (c - x) - 1 = c - (x + 1) /\ x + 1 \in 0 .. c - 1
    BY <1>1, <1>2, <1>3
  <2>4. d.epochs[(c - x) - 1] <= d.epochs[c]
    BY <1>1, <2>1, <2>2
  <2> QED BY <2>2, <2>3, <2>4
<1>4. \A x \in 0 .. c - 1 : x \in Good
  <2> HIDE DEF Good
  <2> QED BY <1>2, <1>3, UpTo
<1>5. c - k \in 0 .. c - 1 /\ c - (c - k) = k
  BY <1>1
<1> QED BY <1>1, <1>4, <1>5

LEMMA GenesisFollows == IndexInv => GenesisFirst
<1> SUFFICES ASSUME IndexInv PROVE GenesisFirst
  OBVIOUS
<1>1. db.log = log /\ db.genesis = genesis /\ GenesisSound(db)
  BY DEF db, IndexInv, TablesSound
<1>2. Asserts("workspace_genesis") = {} \/ Asserts("workspace_genesis") = {genesis}
  BY <1>1, AssertsAre DEF GenesisSound
<1>3. Cardinality(Asserts("workspace_genesis")) <= 1
  <2>1. Cardinality({}) = 0
    BY FS_EmptySet
  <2>2. Cardinality({genesis}) = 1
    BY FS_Singleton
  <2> QED BY <1>2, <2>1, <2>2
<1> QED BY <1>1, <1>3 DEF GenesisFirst, GenesisSound

LEMMA EpochsMinted ==
  ASSUME ChainInv, IndexInv
  PROVE  /\ DOMAIN epochs = 1 .. Cardinality(DOMAIN epochs)
         /\ \A e \in DOMAIN epochs : e > 1 => epochs[e - 1] < epochs[e]
<1>1. db.epochs = epochs /\ EpochsSound(db)
  BY DEF db, IndexInv, TablesSound
<1>2. DOMAIN epochs \in SUBSET (1 .. MaxKeyEpoch)
      /\ \A e \in DOMAIN epochs : e = 1 \/ e - 1 \in DOMAIN epochs
  BY <1>1 DEF EpochsSound
<1>3. PICK n \in 0 .. MaxKeyEpoch : DOMAIN epochs = 1 .. n
  <2> HIDE DEF db
  <2> QED BY <1>2, MaxKeyEpochAssumption, DownwardClosed
<1>4. n \in Nat /\ Cardinality(1 .. n) = n
  <2>1. n \in Int /\ n >= 0 /\ n - 1 + 1 = n
    BY <1>3, MaxKeyEpochAssumption
  <2>2. Cardinality(1 .. n) = IF 1 > n THEN 0 ELSE n - 1 + 1
    BY <2>1, FS_Interval
  <2> QED BY <2>1, <2>2
<1>5. \A e \in DOMAIN epochs : e > 1 => epochs[e - 1] < epochs[e]
  BY <1>1 DEF EpochsSound
<1> QED BY <1>3, <1>4, <1>5

\* One genesis, before everything else, whoever raced to found.
THEOREM ServerFoundsFirst == Spec => []GenesisFirst
BY IndexInvariant, GenesisFollows, PTL

\* The sealed ops.  The server cannot open them: while no epoch has been minted
\* it takes any key_epoch, and what it promises afterwards rests on devices that
\* do not seal under a key nobody has minted.

IsSealed(op) == op.op_class # OP_CLASS_CONTROL /\ op.key_epoch > 0

SealsWhatIsMinted ==
  \A s \in Slot, m \in Member, b \in authored : Admit(s, m, b) =>
    \A i \in DOMAIN b : IsSealed(b[i]) =>
      DOMAIN epochs # {} \/ \E j \in 1 .. i - 1 : IsControl(b[j], "rotate")

SealReaches(d, b, i) ==
  IsSealed(b[i]) => \E c \in 1 .. MaxKeyEpoch : b[i].key_epoch <= c /\ EpochReached(d, b, i, c)

SealPlaced(d, t, i) ==
  IsSealed(t.batch[i]) =>
    \E c \in 1 .. MaxKeyEpoch :
      /\ t.batch[i].key_epoch <= c
      /\ \/ c \in DOMAIN d.epochs /\ d.epochs[c] < t.seqs[i]
         \/ \E k \in t.fresh : k < i /\ MintsEpoch(t.batch[k], c)

SealsSound(d) ==
  \A q \in DOMAIN d.log : IsSealed(d.log[q]) =>
    \E c \in DOMAIN d.epochs : d.log[q].key_epoch <= c /\ d.epochs[c] < q

RequestSeals(d, t) ==
  /\ InFlight(t) => \A i \in DOMAIN t.batch : SealReaches(d, t.batch, i)
  /\ HasRows(t) => \A i \in t.fresh : SealPlaced(d, t, i)

SealInv == SealsSound(db) /\ \A s \in Slot : RequestSeals(db, txn[s])

LEMMA AdmitSeals ==
  ASSUME ChainInv, IndexInv, SealsWhatIsMinted,
         NEW s \in Slot, NEW m \in Member, NEW b \in authored, Admit(s, m, b)
  PROVE  \A i \in DOMAIN b : SealReaches(db, b, i)
<1>1. b \in Batch /\ b # <<>> /\ Verdict(db, m, b) = Ok
  BY DEF Admit, ChainInv
<1>2. /\ b \in Seq(Posted) /\ DOMAIN b = 1 .. Len(b) /\ Len(b) \in Nat
      /\ \A i \in DOMAIN b : b[i] \in Posted
  BY <1>1, BatchIndices
<1>3. Len(b) > 0
  BY <1>1, <1>2
<1>4. DOMAIN db.epochs \subseteq 1 .. MaxKeyEpoch /\ db.epochs = epochs
  BY DEF IndexInv, TablesSound, EpochsSound, db
<1>5. \A i \in 1 .. Len(b) : IsPrune(b[i]) =>
        b[i].payload.targets \in Seq(Targets(b[i].payload))
  BY <1>2, PostedAssumption DEF IsPrune
<1>6. \A i \in 1 .. Len(b) : Vouched(db, b, i)
  BY <1>1, <1>2, <1>3, <1>4, <1>5, AdmittedIsVouched
<1> SUFFICES ASSUME NEW i \in DOMAIN b, IsSealed(b[i])
             PROVE  \E c \in 1 .. MaxKeyEpoch : b[i].key_epoch <= c /\ EpochReached(db, b, i, c)
  BY DEF SealReaches
<1>7. SealVouched(db, b, i) /\ b[i].op_class # OP_CLASS_CONTROL
  BY <1>2, <1>6 DEF Vouched, IsSealed
<1>8. DOMAIN epochs # {} \/ \E j \in 1 .. i - 1 : IsControl(b[j], "rotate")
  BY DEF SealsWhatIsMinted
<1>9. PICK c \in 1 .. MaxKeyEpoch : EpochReached(db, b, i, c) /\ ~(b[i].key_epoch > c)
  BY <1>4, <1>7, <1>8 DEF SealVouched
<1>10. b[i].key_epoch \in Nat
  BY <1>2, PostedAssumption
<1> QED BY <1>9, <1>10

LEMMA InsertSeals ==
  ASSUME ChainInv, ChainInv', IndexInv, SealInv, NEW s \in Slot, Insert(s), ~InsertFails(s)
  PROVE  RequestSeals(db, txn'[s])
<1> DEFINE t == txn[s]
           u == txn'[s]
<1>1. /\ u.pc = "inserted" /\ u.batch = t.batch /\ u.fresh = t.fresh
      /\ u.batch \in Batch /\ u.batch # <<>>
      /\ Selected(db.log, u) /\ u.fresh \subseteq DOMAIN u.batch
      /\ nextSeq \in Nat /\ DOMAIN db.log \subseteq 1 .. (nextSeq - 1)
      /\ \A i \in u.fresh : u.seqs[i] \in Nat /\ nextSeq <= u.seqs[i]
  BY RowsGoOnTop
<1>2. EpochsSound(db) /\ InFlight(t)
  BY DEF IndexInv, TablesSound, Insert, InFlight
<1>3. \A i \in DOMAIN u.batch : SealReaches(db, u.batch, i)
  BY <1>1, <1>2 DEF SealInv, RequestSeals
<1> HIDE DEF u
<1>4. /\ DOMAIN u.batch = 1 .. Len(u.batch) /\ Len(u.batch) \in Nat
      /\ \A i \in DOMAIN u.batch :
           HeldIn(db.log, u.batch[i]) \/ \E k \in u.fresh : k <= i /\ u.batch[k] = u.batch[i]
  BY <1>1, BatchIndices DEF Selected, HasFresh
<1>5. ASSUME NEW i \in u.fresh PROVE SealPlaced(db, u, i)
  <2> SUFFICES ASSUME IsSealed(u.batch[i]) PROVE SealPlaced(db, u, i)
    BY DEF SealPlaced
  <2>1. PICK c \in 1 .. MaxKeyEpoch :
          u.batch[i].key_epoch <= c /\ EpochReached(db, u.batch, i, c)
    BY <1>1, <1>3 DEF SealReaches
  <2>2. CASE c \in DOMAIN db.epochs
    <3>1. db.epochs[c] \in DOMAIN db.log
      BY <1>2, <2>2 DEF EpochsSound
    <3>2. db.epochs[c] \in 1 .. (nextSeq - 1) /\ u.seqs[i] \in Nat /\ nextSeq <= u.seqs[i]
      BY <1>1, <3>1
    <3>3. db.epochs[c] < u.seqs[i]
      BY <1>1, <3>2
    <3> QED BY <2>1, <2>2, <3>3 DEF SealPlaced
  <2>3. ASSUME NEW j \in 1 .. i - 1, MintsEpoch(u.batch[j], c) PROVE SealPlaced(db, u, i)
    <3>1. i \in Nat /\ j \in DOMAIN u.batch /\ j < i /\ \A k \in u.fresh : k \in Nat
      BY <1>1, <1>4
    <3>2. CASE HeldIn(db.log, u.batch[j])
      <4>1. c \in DOMAIN db.epochs
        BY <1>2, <2>3, <3>2 DEF HeldIn, EpochsSound, MintsEpoch
      <4> QED BY <2>2, <4>1
    <3>3. CASE \E k \in u.fresh : k <= j /\ u.batch[k] = u.batch[j]
      <4>1. PICK k \in u.fresh : k < i /\ MintsEpoch(u.batch[k], c)
        BY <2>3, <3>1, <3>3
      <4> QED BY <2>1, <4>1 DEF SealPlaced
    <3> QED BY <1>4, <3>1, <3>2, <3>3
  <2> QED BY <2>1, <2>2, <2>3 DEF EpochReached
<1>6. RequestSeals(db, u)
  BY <1>3, <1>5 DEF RequestSeals
<1> QED BY <1>6 DEF u

LEMMA SealsKept ==
  ASSUME NEW d, NEW e, TablesGrow(d, e), NEW t, RequestSeals(d, t)
  PROVE  RequestSeals(e, t)
<1>1. \A c \in DOMAIN d.epochs : c \in DOMAIN e.epochs /\ e.epochs[c] = d.epochs[c]
  BY DEF TablesGrow, Grows
<1>2. ASSUME NEW i, SealReaches(d, t.batch, i) PROVE SealReaches(e, t.batch, i)
  BY <1>1, <1>2 DEF SealReaches, EpochReached
<1>3. ASSUME NEW i, SealPlaced(d, t, i) PROVE SealPlaced(e, t, i)
  BY <1>1, <1>3 DEF SealPlaced
<1> QED BY <1>2, <1>3 DEF RequestSeals

LEMMA SealsCommit ==
  ASSUME NEW d, NEW e, NEW t, Commits(d, e, t), SealsSound(d), RequestSeals(d, t)
  PROVE  SealsSound(e)
<1>1. /\ TablesSound(e) /\ TablesGrow(d, e) /\ LogCommits(d, e, t) /\ HasRows(t)
  BY CommitGrowsTables DEF Commits, LogCommits, HasRows
<1>2. \A c \in DOMAIN d.epochs : c \in DOMAIN e.epochs /\ e.epochs[c] = d.epochs[c]
  BY <1>1 DEF TablesGrow, Grows
<1> SUFFICES ASSUME NEW q \in DOMAIN e.log, IsSealed(e.log[q])
             PROVE  \E c \in DOMAIN e.epochs : e.log[q].key_epoch <= c /\ e.epochs[c] < q
  BY DEF SealsSound
<1>3. CASE q \in DOMAIN d.log /\ e.log[q] = d.log[q]
  BY <1>2, <1>3 DEF SealsSound
<1>4. ASSUME NEW i \in t.fresh, q = t.seqs[i], e.log[q] = t.batch[i]
      PROVE  \E c \in DOMAIN e.epochs : e.log[q].key_epoch <= c /\ e.epochs[c] < q
  <2>1. PICK c \in 1 .. MaxKeyEpoch :
          /\ t.batch[i].key_epoch <= c
          /\ \/ c \in DOMAIN d.epochs /\ d.epochs[c] < t.seqs[i]
             \/ \E k \in t.fresh : k < i /\ MintsEpoch(t.batch[k], c)
    BY <1>1, <1>4 DEF RequestSeals, SealPlaced
  <2>2. ASSUME NEW k \in t.fresh, k < i, MintsEpoch(t.batch[k], c)
        PROVE  c \in DOMAIN e.epochs /\ e.epochs[c] < t.seqs[i]
    <3>1. /\ t.seqs[k] \in DOMAIN e.log /\ e.log[t.seqs[k]] = t.batch[k]
          /\ t.seqs[k] < t.seqs[i]
      BY <1>1, <2>2 DEF LogCommits
    <3>2. c \in DOMAIN e.epochs /\ e.epochs[c] = t.seqs[k]
      BY <1>1, <2>2, <3>1 DEF TablesSound, EpochsSound, MintsEpoch
    <3> QED BY <3>1, <3>2
  <2>3. c \in DOMAIN e.epochs /\ e.epochs[c] < t.seqs[i]
    BY <1>2, <2>1, <2>2
  <2> QED BY <1>4, <2>1, <2>3
<1> QED BY <1>1, <1>3, <1>4, NewRow

\* A step of a request that neither draws rows nor commits carries its batch
\* and its rows along, or drops them.
LEMMA StepFollows ==
  ASSUME ChainInv, NEW s \in Slot, Step(s), ~Commit(s), ~(Insert(s) /\ ~InsertFails(s))
  PROVE  /\ db' = db
         /\ InFlight(txn'[s]) => InFlight(txn[s]) /\ txn'[s].batch = txn[s].batch
         /\ HasRows(txn'[s]) => /\ HasRows(txn[s]) /\ txn'[s].fresh = txn[s].fresh
                                /\ txn'[s].seqs = txn[s].seqs
<1> DEFINE t == txn[s]
           Follows(u) == /\ InFlight(u) => InFlight(t) /\ u.batch = t.batch
                         /\ HasRows(u) => /\ HasRows(t) /\ u.fresh = t.fresh
                                          /\ u.seqs = t.seqs
<1>1. DOMAIN txn = Slot /\ RequestShape(t)
  BY DEF ChainInv, RequestInv
<1>2. ASSUME NEW code, Refused(s, code) PROVE Follows(txn'[s])
  <2>1. txn'[s].pc = "refused"
    BY <1>1, <1>2 DEF Refused
  <2> QED BY <2>1 DEF InFlight, HasRows
<1>3. CASE ReadStored(s)
  <2>1. txn'[s].pc = "resolved" /\ txn'[s].batch = t.batch /\ t.pc = "admitted" /\ db' = db
    BY <1>1, <1>3, TablesUnchanged DEF ReadStored
  <2> QED BY <2>1 DEF InFlight, HasRows
<1>4. CASE ReadHeads(s)
  <2>1. db' = db /\ t.pc = "resolved" /\ DOMAIN t = {"pc", "batch", "retried", "fresh"}
    BY <1>1, <1>4, TablesUnchanged DEF ReadHeads, RequestShape
  <2>2. CASE ChainContinues(t.batch, t.fresh)
    <3>1. txn' = [txn EXCEPT ![s].pc = "planned"]
      BY <1>4, <2>2 DEF ReadHeads
    <3>2. txn'[s].pc = "planned" /\ txn'[s].batch = t.batch
      BY <1>1, <2>1, <3>1
    <3> QED BY <2>1, <3>2 DEF InFlight, HasRows
  <2>3. CASE ~ChainContinues(t.batch, t.fresh)
    <3>1. Follows(txn'[s])
      BY <1>2, <1>4, <2>3 DEF ReadHeads
    <3> QED BY <2>1, <3>1
  <2> QED BY <2>2, <2>3
<1>5. CASE Insert(s)
  <2>1. db' = db /\ t.pc = "planned" /\ InsertFails(s)
    BY <1>5, TablesUnchanged DEF Insert
  <2>2. CASE t.retried
    <3>1. Refused(s, "author_chain_conflict")
      BY <1>5, <2>1, <2>2 DEF Insert
    <3> QED BY <1>2, <2>1, <3>1
  <2>3. CASE ~t.retried
    <3>1. txn' = [txn EXCEPT ![s] = [pc |-> "admitted", batch |-> t.batch, retried |-> TRUE]]
      BY <1>5, <2>1, <2>3 DEF Insert
    <3>2. txn'[s].pc = "admitted" /\ txn'[s].batch = t.batch
      BY <1>1, <3>1
    <3> QED BY <2>1, <3>2 DEF InFlight, HasRows
  <2> QED BY <2>2, <2>3
<1>6. CASE Materialise(s)
  <2>1. db' = db /\ t.pc = "inserted"
    BY <1>6, TablesUnchanged DEF Materialise
  <2>2. CASE \E code : Refused(s, code)
    <3>1. Follows(txn'[s])
      BY <1>2, <2>2
    <3> QED BY <2>1, <3>1
  <2>3. CASE ~\E code : Refused(s, code)
    <3>1. txn' = [txn EXCEPT ![s] =
            [pc |-> "staged", batch |-> t.batch, fresh |-> t.fresh, seqs |-> t.seqs,
             unstamped |-> t.unstamped, closing |-> Stripped(t)]]
      BY <1>6, <2>3 DEF Materialise
    <3>2. /\ txn'[s].pc = "staged" /\ txn'[s].batch = t.batch /\ txn'[s].fresh = t.fresh
          /\ txn'[s].seqs = t.seqs
      BY <1>1, <3>1
    <3> QED BY <2>1, <3>2 DEF InFlight, HasRows
  <2> QED BY <2>2, <2>3
<1>7. CASE Answer(s) \/ AnswerRefusal(s)
  <2>1. txn'[s].pc = "idle" /\ db' = db
    BY <1>1, <1>7, TablesUnchanged DEF Answer, AnswerRefusal, Idle
  <2> QED BY <2>1 DEF InFlight, HasRows
<1>8. CASE \E m \in Member : CloseTransport(s, m)
  <2>1. db' = db /\ t.pc = "closing" /\ DOMAIN t = {"pc", "batch", "closing"}
    BY <1>1, <1>8, TablesUnchanged DEF CloseTransport, RequestShape
  <2>2. txn'[s].pc = "closing"
    BY <1>1, <1>8, <2>1 DEF CloseTransport
  <2> QED BY <2>1, <2>2 DEF InFlight, HasRows
<1> QED BY <1>3, <1>4, <1>5, <1>6, <1>7, <1>8 DEF Step

LEMMA SealInductive ==
  ChainInv /\ ChainInv' /\ IndexInv /\ SealInv /\ [Next]_vars /\ [SealsWhatIsMinted]_vars
    => SealInv'
<1> SUFFICES ASSUME ChainInv, ChainInv', IndexInv, SealInv, [Next]_vars,
                    [SealsWhatIsMinted]_vars
             PROVE  SealInv'
  OBVIOUS
<1>1. CASE UNCHANGED vars
  <2>1. db' = db /\ txn' = txn
    BY <1>1, TablesUnchanged DEF vars
  <2> QED BY <2>1 DEF SealInv
<1>2. ASSUME NEW s \in Slot, ServesOnly(s), db' = db, RequestSeals(db, txn'[s])
      PROVE  SealInv'
  <2>1. \A o \in Slot : RequestSeals(db', txn'[o])
    BY <1>2 DEF SealInv, ServesOnly
  <2>2. SealsSound(db')
    BY <1>2 DEF SealInv
  <2> QED BY <2>1, <2>2 DEF SealInv
<1>3. ASSUME SealsWhatIsMinted,
             NEW s \in Slot, NEW m \in Member, NEW b \in authored, Admit(s, m, b)
      PROVE  SealInv'
  <2>1. txn'[s].pc = "admitted" /\ txn'[s].batch = b /\ db' = db
    BY <1>3, TablesUnchanged DEF Admit, ChainInv
  <2>2. RequestSeals(db, txn'[s])
    BY <1>3, <2>1, AdmitSeals DEF RequestSeals, HasRows
  <2>3. ServesOnly(s)
    BY <1>3, StepServes
  <2> QED BY <1>2, <2>1, <2>2, <2>3
<1>4. ASSUME NEW s \in Slot, Step(s), ~Commit(s) PROVE SealInv'
  <2>1. ServesOnly(s)
    BY <1>4, StepServes
  <2>2. CASE Insert(s) /\ ~InsertFails(s)
    <3>1. db' = db
      BY <2>2, TablesUnchanged DEF Insert
    <3> QED BY <1>2, <2>1, <2>2, <3>1, InsertSeals
  <2>3. CASE ~(Insert(s) /\ ~InsertFails(s))
    <3>1. /\ db' = db
          /\ InFlight(txn'[s]) => InFlight(txn[s]) /\ txn'[s].batch = txn[s].batch
          /\ HasRows(txn'[s]) => /\ HasRows(txn[s]) /\ txn'[s].fresh = txn[s].fresh
                                 /\ txn'[s].seqs = txn[s].seqs
      BY <1>4, <2>3, StepFollows
    <3>2. HasRows(txn'[s]) => InFlight(txn'[s])
      BY DEF HasRows, InFlight
    <3>3. RequestSeals(db, txn[s])
      BY DEF SealInv
    <3>4. RequestSeals(db, txn'[s])
      BY <3>1, <3>2, <3>3 DEF RequestSeals, SealPlaced
    <3> QED BY <1>2, <2>1, <3>1, <3>4
  <2> QED BY <2>2, <2>3
<1>5. ASSUME NEW s \in Slot, Commit(s) PROVE SealInv'
  <2>1. Commits(db, db', txn[s])
    BY <1>5, CommitsTables
  <2>2. TablesGrow(db, db')
    BY <2>1, CommitGrowsTables
  <2>3. SealsSound(db')
    BY <2>1, SealsCommit DEF SealInv
  <2>4. ServesOnly(s) /\ txn'[s].pc = "closing"
    <3>1. Step(s)
      BY <1>5 DEF Step
    <3> QED BY <1>5, <3>1, StepServes DEF Commit, ChainInv
  <2>5. ASSUME NEW o \in Slot, o # s PROVE RequestSeals(db', txn'[o])
    <3>1. RequestSeals(db', txn[o])
      BY <2>2, SealsKept DEF SealInv
    <3> QED BY <2>4, <2>5, <3>1 DEF ServesOnly
  <2>6. RequestSeals(db', txn'[s])
    BY <2>4 DEF RequestSeals, InFlight, HasRows
  <2> QED BY <2>3, <2>5, <2>6 DEF SealInv
<1>6. CASE Crash
  <2>1. db' = db /\ \A s \in Slot : txn'[s].pc = "idle"
    BY <1>6, TablesUnchanged DEF Crash, Idle
  <2>2. \A s \in Slot : RequestSeals(db', txn'[s])
    BY <2>1 DEF RequestSeals, InFlight, HasRows
  <2>3. SealsSound(db')
    BY <2>1 DEF SealInv
  <2> QED BY <2>2, <2>3 DEF SealInv
<1>7. ASSUME NEW s \in Slot, Step(s) PROVE SealInv'
  BY <1>4, <1>5, <1>7
<1> QED BY <1>1, <1>3, <1>6, <1>7 DEF Next

LEMMA OrderFollows == ChainInv /\ IndexInv /\ OrderInv /\ SealInv => LogInOrder
<1> SUFFICES ASSUME ChainInv, IndexInv, OrderInv, SealInv PROVE LogInOrder
  OBVIOUS
<1>1. GenesisFirst
  BY GenesisFollows
<1>2. /\ DOMAIN epochs = 1 .. Cardinality(DOMAIN epochs)
      /\ \A e \in DOMAIN epochs : e > 1 => epochs[e - 1] < epochs[e]
  BY EpochsMinted
<1>3. ASSUME NEW q \in DOMAIN log, log[q].op_class # OP_CLASS_CONTROL, log[q].key_epoch > 0
      PROVE  log[q].key_epoch \in DOMAIN epochs /\ epochs[log[q].key_epoch] < q
  <2> DEFINE k == log[q].key_epoch
  <2>1. /\ db.log = log /\ db.epochs = epochs /\ EpochsSound(db)
        /\ DOMAIN db.log \subseteq Nat /\ q \in Nat
    BY DEF db, IndexInv, TablesSound, ChainInv, SoundLog
  <2>2. PICK c \in DOMAIN db.epochs : k <= c /\ db.epochs[c] < q
    BY <1>3, <2>1 DEF SealInv, SealsSound, IsSealed
  <2>3. k \in Nat /\ 1 <= k
    <3>1. k \in Nat
      BY PostedAssumption DEF ChainInv, SoundLog
    <3> QED BY <1>3, <3>1
  <2>4. c \in Nat /\ db.epochs[c] \in Nat
    BY <2>1, MaxKeyEpochAssumption DEF EpochsSound
  <2>5. k \in DOMAIN db.epochs /\ db.epochs[k] \in Nat /\ db.epochs[k] <= db.epochs[c]
    <3> HIDE DEF k, db
    <3> QED BY <2>1, <2>2, <2>3, EpochsBelow
  <2>6. db.epochs[k] < q
    BY <2>1, <2>2, <2>4, <2>5
  <2> QED BY <2>1, <2>5, <2>6
<1>4. ChainsInOrder
  BY ChainsFollow
<1> QED BY <1>1, <1>2, <1>3, <1>4 DEF LogInOrder, EpochsInOrder

\* The log asserts in order, and an op sealed under an epoch lies above the
\* rotate that minted it, although the walk that admitted it and the rotate may
\* have run side by side: as long as devices seal under what has been minted.
THEOREM ServerKeepsOrder == Spec /\ [][SealsWhatIsMinted]_vars => []LogInOrder
<1>1. Init => SealInv
  BY DEF Init, SealInv, SealsSound, RequestSeals, InFlight, HasRows, Idle, db
<1>2. ChainInv /\ IndexInv /\ ChainInv' /\ SealInv /\ [Next]_vars /\ [SealsWhatIsMinted]_vars
        => SealInv'
  BY SealInductive
<1>3. Spec /\ [][SealsWhatIsMinted]_vars => []SealInv
  BY <1>1, <1>2, IndexInvariant, PTL DEF Spec
<1> QED BY <1>3, IndexInvariant, OrderInvariant, OrderFollows, PTL

-----------------------------------------------------------------------------
(* Who was entitled to what the log holds.  The same path, door to row, of *)
(* the grant an op stands on, with what the history says of it: not        *)
(* revoked when the request was let in (gone), nor by an op before it.     *)

LivePlaced(d, gone, t, i) ==
  \/ RootSigned(t.batch[i])
  \/ \E g : LET m == t.batch[i].author_member_id
                roles == ROLE_OP_CLASS_MATRIX[t.batch[i].op_class]
            IN /\ ~Barred(gone, t.batch, i - 1, g)
               /\ \E role \in roles :
                    \/ GrantStored(d, g, m, role) /\ d.grants[g].granted_seq < t.seqs[i]
                    \/ \E k \in t.fresh : k < i /\ GrantAsserted(t.batch[k], g, m, role)

LiveRow(d, bar, q) ==
  \/ RootSigned(d.log[q])
  \/ \E g \in DOMAIN d.grants :
       /\ d.grants[g].member_id = d.log[q].author_member_id
       /\ d.grants[g].role \in ROLE_OP_CLASS_MATRIX[d.log[q].op_class]
       /\ d.grants[g].granted_seq < q
       /\ g \notin bar

LiveSound(d, bars) ==
  DOMAIN bars = DOMAIN d.log /\ \A q \in DOMAIN d.log : LiveRow(d, bars[q], q)

RequestLives(d, gone, t) ==
  /\ InFlight(t) => \A i \in DOMAIN t.batch : LiveVouched(d, gone, t.batch, i)
  /\ HasRows(t) => \A i \in t.fresh : LivePlaced(d, gone, t, i)

LiveInv == /\ LiveSound(db, barred)
           /\ DOMAIN lapsed = Slot
           /\ \A s \in Slot : RequestLives(db, lapsed[s], txn[s])

LEMMA AdmitLives ==
  ASSUME ChainInv, IndexInv, NEW s \in Slot, NEW m \in Member, NEW b \in authored,
         Admit(s, m, b)
  PROVE  \A i \in DOMAIN b : LiveVouched(db, RevokedGrants(db), b, i)
<1>1. b \in Batch /\ b # <<>> /\ Verdict(db, m, b) = Ok
  BY DEF Admit, ChainInv
<1>2. /\ b \in Seq(Posted) /\ DOMAIN b = 1 .. Len(b) /\ Len(b) \in Nat
      /\ \A i \in DOMAIN b : b[i] \in Posted
  BY <1>1, BatchIndices
<1>3. Len(b) > 0
  BY <1>1, <1>2
<1>4. DOMAIN db.epochs \subseteq 1 .. MaxKeyEpoch
  BY DEF IndexInv, TablesSound, EpochsSound
<1>5. \A i \in 1 .. Len(b) : IsPrune(b[i]) =>
        b[i].payload.targets \in Seq(Targets(b[i].payload))
  BY <1>2, PostedAssumption DEF IsPrune
<1>6. \A i \in 1 .. Len(b) : Vouched(db, b, i)
  BY <1>1, <1>2, <1>3, <1>4, <1>5, AdmittedIsVouched
<1> QED BY <1>2, <1>6 DEF Vouched

LEMMA InsertLives ==
  ASSUME ChainInv, ChainInv', IndexInv, NEW s \in Slot, Insert(s), ~InsertFails(s),
         NEW gone, RequestLives(db, gone, txn[s])
  PROVE  RequestLives(db, gone, txn'[s])
<1> DEFINE t == txn[s]
           u == txn'[s]
<1>1. /\ u.pc = "inserted" /\ u.batch = t.batch /\ u.fresh = t.fresh
      /\ u.batch \in Batch /\ u.batch # <<>>
      /\ Selected(db.log, u) /\ u.fresh \subseteq DOMAIN u.batch
      /\ nextSeq \in Nat /\ DOMAIN db.log \subseteq 1 .. (nextSeq - 1)
      /\ \A i \in u.fresh : u.seqs[i] \in Nat /\ nextSeq <= u.seqs[i]
  BY RowsGoOnTop
<1>2. GrantsSound(db) /\ InFlight(t)
  BY DEF IndexInv, TablesSound, Insert, InFlight
<1>3. \A i \in DOMAIN u.batch : LiveVouched(db, gone, u.batch, i)
  BY <1>1, <1>2 DEF RequestLives
<1> HIDE DEF u
<1>4. /\ DOMAIN u.batch = 1 .. Len(u.batch) /\ Len(u.batch) \in Nat
      /\ \A i \in DOMAIN u.batch :
           HeldIn(db.log, u.batch[i]) \/ \E k \in u.fresh : k <= i /\ u.batch[k] = u.batch[i]
  BY <1>1, BatchIndices DEF Selected, HasFresh
<1>5. ASSUME NEW i \in u.fresh PROVE LivePlaced(db, gone, u, i)
  <2> DEFINE m == u.batch[i].author_member_id
             roles == ROLE_OP_CLASS_MATRIX[u.batch[i].op_class]
  <2>1. CASE RootSigned(u.batch[i])
    BY <2>1 DEF LivePlaced
  <2>2. CASE ~RootSigned(u.batch[i])
    <3>1. LiveVouched(db, gone, u.batch, i)
      BY <1>1, <1>3
    <3>2. PICK g : /\ ~Barred(gone, u.batch, i - 1, g)
                   /\ \E role \in roles : \/ GrantStored(db, g, m, role)
                                          \/ \E j \in 1 .. i - 1 :
                                               GrantAsserted(u.batch[j], g, m, role)
      BY <2>2, <3>1 DEF LiveVouched
    <3>3. PICK role \in roles : \/ GrantStored(db, g, m, role)
                                \/ \E j \in 1 .. i - 1 : GrantAsserted(u.batch[j], g, m, role)
      BY <3>2
    <3>4. ASSUME GrantStored(db, g, m, role) PROVE LivePlaced(db, gone, u, i)
      <4>1. PICK q \in DOMAIN db.log : /\ IsControl(db.log[q], "grant")
                                       /\ db.log[q].payload.cert.grant_id = g
        BY <1>2, <3>4 DEF GrantStored, GrantsSound
      <4>2. db.grants[g].granted_seq \in DOMAIN db.log
        BY <1>2, <4>1 DEF GrantsSound
      <4>3. db.grants[g].granted_seq < u.seqs[i]
        <5> DEFINE z == db.grants[g].granted_seq
        <5>1. z \in 1 .. (nextSeq - 1) /\ u.seqs[i] \in Nat /\ nextSeq <= u.seqs[i]
          BY <1>1, <4>2
        <5> HIDE DEF z
        <5>2. z < u.seqs[i]
          BY <1>1, <5>1
        <5> QED BY <5>2 DEF z
      <4> QED BY <3>2, <3>4, <4>3 DEF LivePlaced
    <3>5. ASSUME NEW j \in 1 .. i - 1, GrantAsserted(u.batch[j], g, m, role)
          PROVE  LivePlaced(db, gone, u, i)
      <4>1. i \in Nat /\ j \in DOMAIN u.batch /\ j < i /\ \A k \in u.fresh : k \in Nat
        BY <1>1, <1>4
      <4>2. CASE HeldIn(db.log, u.batch[j])
        <5>1. GrantStored(db, g, m, role)
          BY <1>2, <3>5, <4>2 DEF HeldIn, GrantsSound, GrantAsserted, GrantStored
        <5> QED BY <3>4, <5>1
      <4>3. CASE \E k \in u.fresh : k <= j /\ u.batch[k] = u.batch[j]
        <5>1. PICK k \in u.fresh : k < i /\ GrantAsserted(u.batch[k], g, m, role)
          BY <3>5, <4>1, <4>3
        <5> QED BY <3>2, <5>1 DEF LivePlaced
      <4> QED BY <1>4, <4>1, <4>2, <4>3
    <3> QED BY <3>3, <3>4, <3>5
  <2> QED BY <2>1, <2>2
<1>6. RequestLives(db, gone, u)
  BY <1>3, <1>5 DEF RequestLives
<1> QED BY <1>6 DEF u

LEMMA LivesKept ==
  ASSUME NEW d, NEW e, TablesGrow(d, e), NEW gone, NEW t, RequestLives(d, gone, t)
  PROVE  RequestLives(e, gone, t)
<1>1. ASSUME NEW g, NEW m, NEW role, GrantStored(d, g, m, role)
      PROVE  GrantStored(e, g, m, role) /\ e.grants[g].granted_seq = d.grants[g].granted_seq
  BY <1>1 DEF TablesGrow, GrantStored
<1>2. ASSUME NEW i, LiveVouched(d, gone, t.batch, i) PROVE LiveVouched(e, gone, t.batch, i)
  BY <1>1, <1>2 DEF LiveVouched
<1>3. ASSUME NEW i, LivePlaced(d, gone, t, i) PROVE LivePlaced(e, gone, t, i)
  BY <1>1, <1>3 DEF LivePlaced
<1> QED BY <1>2, <1>3 DEF RequestLives

\* A commit's rows stand on what was placed below them.
LEMMA LivesCommit ==
  ASSUME NEW d, NEW e, NEW t, Commits(d, e, t), NEW gone, RequestLives(d, gone, t),
         NEW i \in t.fresh, NEW bar, \A g \in bar : Barred(gone, t.batch, i - 1, g)
  PROVE  LiveRow(e, bar, t.seqs[i])
<1> DEFINE q == t.seqs[i]
           m == t.batch[i].author_member_id
           roles == ROLE_OP_CLASS_MATRIX[t.batch[i].op_class]
<1>1. TablesSound(e) /\ TablesGrow(d, e) /\ LogCommits(d, e, t) /\ HasRows(t)
  BY CommitGrowsTables DEF Commits, LogCommits, HasRows
<1>2. e.log[q] = t.batch[i] /\ LivePlaced(d, gone, t, i)
  BY <1>1 DEF LogCommits, RequestLives
<1>3. CASE RootSigned(t.batch[i])
  BY <1>2, <1>3 DEF LiveRow
<1>4. CASE ~RootSigned(t.batch[i])
  <2>1. PICK g : /\ ~Barred(gone, t.batch, i - 1, g)
                 /\ \E role \in roles :
                      \/ GrantStored(d, g, m, role) /\ d.grants[g].granted_seq < q
                      \/ \E k \in t.fresh : k < i /\ GrantAsserted(t.batch[k], g, m, role)
    BY <1>2, <1>4 DEF LivePlaced
  <2>2. PICK role \in roles :
          \/ GrantStored(d, g, m, role) /\ d.grants[g].granted_seq < q
          \/ \E k \in t.fresh : k < i /\ GrantAsserted(t.batch[k], g, m, role)
    BY <2>1
  <2>3. g \notin bar
    BY <2>1
  <2>4. GrantStored(e, g, m, role) /\ e.grants[g].granted_seq < q
    <3>1. CASE GrantStored(d, g, m, role) /\ d.grants[g].granted_seq < q
      BY <1>1, <3>1 DEF GrantStored, TablesGrow
    <3>2. ASSUME NEW k \in t.fresh, k < i, GrantAsserted(t.batch[k], g, m, role)
          PROVE  GrantStored(e, g, m, role) /\ e.grants[g].granted_seq < q
      <4>1. /\ t.seqs[k] \in DOMAIN e.log /\ e.log[t.seqs[k]] = t.batch[k]
            /\ t.seqs[k] < t.seqs[i]
        BY <1>1, <3>2 DEF LogCommits
      <4>2. /\ IsControl(e.log[t.seqs[k]], "grant")
            /\ e.log[t.seqs[k]].payload.cert.grant_id = g
            /\ e.log[t.seqs[k]].payload.cert.member_id = m
            /\ e.log[t.seqs[k]].payload.cert.role = role
        BY <3>2, <4>1 DEF GrantAsserted
      <4>3. GrantsSound(e)
        BY <1>1 DEF TablesSound
      <4>4. /\ g \in DOMAIN e.grants /\ e.grants[g].granted_seq = t.seqs[k]
            /\ e.grants[g].member_id = m /\ e.grants[g].role = role
        <5> HIDE DEF m
        <5> QED BY <4>1, <4>2, <4>3 DEF GrantsSound
      <4> QED BY <4>1, <4>4 DEF GrantStored
    <3> QED BY <2>2, <3>1, <3>2
  <2> QED BY <1>2, <2>2, <2>3, <2>4 DEF LiveRow, GrantStored
<1> QED BY <1>3, <1>4

LEMMA RowsLiveOn ==
  ASSUME NEW d, NEW e, TablesGrow(d, e), NEW bar, NEW q \in DOMAIN d.log, LiveRow(d, bar, q)
  PROVE  LiveRow(e, bar, q)
BY DEF LiveRow, TablesGrow, Grows

\* What a step of a request does to the history.
LEMMA ProceedRemembers ==
  ASSUME NEW s \in Slot, Proceed(s), DOMAIN lapsed = Slot
  PROVE  /\ Step(s) /\ DOMAIN lapsed' = Slot /\ DOMAIN barred' = DOMAIN log'
         /\ \A o \in Slot : o # s => lapsed'[o] = lapsed[o]
         /\ InFlight(txn'[s]) => lapsed'[s] = lapsed[s]
         /\ \A q \in DOMAIN log' : q \in DOMAIN log => barred'[q] = barred[q]
BY DEF Proceed

LEMMA LiveInductive ==
  ChainInv /\ ChainInv' /\ IndexInv /\ LiveInv /\ [HistNext]_histVars => LiveInv'
<1> SUFFICES ASSUME ChainInv, ChainInv', IndexInv, LiveInv, [HistNext]_histVars
             PROVE  LiveInv'
  OBVIOUS
<1>0. /\ DOMAIN lapsed = Slot /\ LiveSound(db, barred) /\ db.log = log /\ db'.log = log'
      /\ \A s \in Slot : RequestLives(db, lapsed[s], txn[s])
  BY DEF LiveInv, db
<1>1. CASE UNCHANGED histVars
  <2>1. db' = db /\ txn' = txn /\ lapsed' = lapsed /\ barred' = barred
    BY <1>1, TablesUnchanged DEF histVars, vars
  <2> QED BY <2>1 DEF LiveInv
<1>2. ASSUME NEW s \in Slot, ServesOnly(s), db' = db, DOMAIN lapsed' = Slot,
             \A o \in Slot : o # s => lapsed'[o] = lapsed[o],
             DOMAIN barred' = DOMAIN log',
             \A q \in DOMAIN log' : q \in DOMAIN log => barred'[q] = barred[q],
             RequestLives(db, lapsed'[s], txn'[s])
      PROVE  LiveInv'
  <2>1. \A o \in Slot : RequestLives(db', lapsed'[o], txn'[o])
    BY <1>0, <1>2 DEF ServesOnly
  <2>2. LiveSound(db', barred')
    BY <1>0, <1>2 DEF LiveSound
  <2> QED BY <1>2, <2>1, <2>2 DEF LiveInv
<1>3. ASSUME NEW s \in Slot, NEW m \in Member, NEW b \in authored, LetIn(s, m, b)
      PROVE  LiveInv'
  <2>1. Admit(s, m, b) /\ lapsed' = [lapsed EXCEPT ![s] = RevokedGrants(db)] /\ barred' = barred
    BY <1>3 DEF LetIn
  <2>2. txn'[s].pc = "admitted" /\ txn'[s].batch = b /\ db' = db
    BY <2>1, TablesUnchanged DEF Admit, ChainInv
  <2>3. /\ lapsed'[s] = RevokedGrants(db) /\ DOMAIN lapsed' = Slot
        /\ \A o \in Slot : o # s => lapsed'[o] = lapsed[o]
    BY <1>0, <2>1
  <2>4. RequestLives(db, lapsed'[s], txn'[s])
    BY <2>1, <2>2, <2>3, AdmitLives DEF RequestLives, HasRows
  <2>5. ServesOnly(s)
    BY <2>1, StepServes
  <2>6. DOMAIN barred' = DOMAIN log' /\ \A q \in DOMAIN log' : barred'[q] = barred[q]
    BY <1>0, <2>1, <2>2 DEF LiveSound
  <2> QED BY <1>2, <2>2, <2>3, <2>4, <2>5, <2>6
<1>4. ASSUME NEW s \in Slot, Proceed(s), ~Commit(s) PROVE LiveInv'
  <2>1. /\ Step(s) /\ DOMAIN lapsed' = Slot /\ DOMAIN barred' = DOMAIN log'
        /\ \A o \in Slot : o # s => lapsed'[o] = lapsed[o]
        /\ InFlight(txn'[s]) => lapsed'[s] = lapsed[s]
        /\ \A q \in DOMAIN log' : q \in DOMAIN log => barred'[q] = barred[q]
    BY <1>0, <1>4, ProceedRemembers
  <2>2. ServesOnly(s)
    BY <2>1, StepServes
  <2>3. db' = db /\ RequestLives(db, lapsed[s], txn'[s])
    <3>1. CASE Insert(s) /\ ~InsertFails(s)
      <4>1. db' = db
        BY <3>1, TablesUnchanged DEF Insert
      <4> QED BY <1>0, <3>1, <4>1, InsertLives
    <3>2. CASE ~(Insert(s) /\ ~InsertFails(s))
      <4>1. /\ db' = db
            /\ InFlight(txn'[s]) => InFlight(txn[s]) /\ txn'[s].batch = txn[s].batch
            /\ HasRows(txn'[s]) => /\ HasRows(txn[s]) /\ txn'[s].fresh = txn[s].fresh
                                   /\ txn'[s].seqs = txn[s].seqs
        BY <1>4, <2>1, <3>2, StepFollows
      <4>2. HasRows(txn'[s]) => InFlight(txn'[s])
        BY DEF HasRows, InFlight
      <4> QED BY <1>0, <4>1, <4>2 DEF RequestLives, LivePlaced
    <3> QED BY <3>1, <3>2
  <2>4. RequestLives(db, lapsed'[s], txn'[s])
    <3>1. CASE InFlight(txn'[s])
      BY <2>1, <2>3, <3>1
    <3>2. CASE ~InFlight(txn'[s])
      BY <3>2 DEF RequestLives, InFlight, HasRows
    <3> QED BY <3>1, <3>2
  <2> QED BY <1>2, <2>1, <2>2, <2>3, <2>4
<1>5. ASSUME NEW s \in Slot, Proceed(s), Commit(s) PROVE LiveInv'
  <2> DEFINE t == txn[s]
             bar(q) == LET i == CHOOSE k \in t.fresh : t.seqs[k] = q
                       IN {g \in DOMAIN grants' : Barred(lapsed[s], t.batch, i - 1, g)}
  <2>1. /\ Step(s) /\ DOMAIN lapsed' = Slot /\ DOMAIN barred' = DOMAIN log'
        /\ \A o \in Slot : o # s => lapsed'[o] = lapsed[o]
        /\ \A q \in DOMAIN log' : q \in DOMAIN log => barred'[q] = barred[q]
    BY <1>0, <1>5, ProceedRemembers
  <2>2. \A q \in DOMAIN log' : q \notin DOMAIN log => barred'[q] = bar(q)
    BY <1>5 DEF Proceed
  <2>3. Commits(db, db', t) /\ RequestLives(db, lapsed[s], t)
    BY <1>0, <1>5, CommitsTables
  <2>4. TablesGrow(db, db') /\ LogCommits(db, db', t)
    BY <2>3, CommitGrowsTables DEF Commits
  <2>5. ServesOnly(s) /\ txn'[s].pc = "closing"
    BY <1>5, <2>1, StepServes DEF Commit, ChainInv
  <2>6. ASSUME NEW o \in Slot, o # s PROVE RequestLives(db', lapsed'[o], txn'[o])
    <3>1. RequestLives(db', lapsed[o], txn[o])
      BY <1>0, <2>4, LivesKept
    <3> QED BY <2>1, <2>5, <2>6, <3>1 DEF ServesOnly
  <2>7. RequestLives(db', lapsed'[s], txn'[s])
    BY <2>5 DEF RequestLives, InFlight, HasRows
  <2>8. ASSUME NEW q \in DOMAIN db'.log PROVE LiveRow(db', barred'[q], q)
    <3>1. CASE q \in DOMAIN log
      <4>1. q \in DOMAIN db.log /\ LiveRow(db, barred[q], q) /\ barred'[q] = barred[q]
        BY <1>0, <2>1, <3>1 DEF LiveSound
      <4> QED BY <2>4, <4>1, RowsLiveOn
    <3>2. CASE q \notin DOMAIN log
      <4> DEFINE i == CHOOSE k \in t.fresh : t.seqs[k] = q
      <4>1. \E k \in t.fresh : t.seqs[k] = q
        BY <1>0, <2>4, <3>2 DEF LogCommits
      <4>2. i \in t.fresh /\ t.seqs[i] = q
        BY <4>1
      <4>3. barred'[q] = {g \in DOMAIN grants' : Barred(lapsed[s], t.batch, i - 1, g)}
        BY <1>0, <2>2, <3>2
      <4> HIDE DEF i, t
      <4>4. \A g \in barred'[q] : Barred(lapsed[s], t.batch, i - 1, g)
        BY <4>3
      <4>5. LiveRow(db', barred'[q], t.seqs[i])
        BY <2>3, <4>2, <4>4, LivesCommit
      <4> QED BY <4>2, <4>5
    <3> QED BY <3>1, <3>2
  <2>9. LiveSound(db', barred')
    BY <1>0, <2>1, <2>8 DEF LiveSound
  <2> QED BY <2>1, <2>6, <2>7, <2>9 DEF LiveInv
<1>6. CASE Die
  <2>1. /\ db' = db /\ barred' = barred /\ DOMAIN lapsed' = Slot
        /\ \A s \in Slot : txn'[s].pc = "idle"
    BY <1>6, TablesUnchanged DEF Die, Crash, Idle
  <2>2. \A s \in Slot : RequestLives(db', lapsed'[s], txn'[s])
    BY <2>1 DEF RequestLives, InFlight, HasRows
  <2> QED BY <1>0, <2>1, <2>2 DEF LiveInv
<1>7. ASSUME NEW s \in Slot, Proceed(s) PROVE LiveInv'
  BY <1>4, <1>5, <1>7
<1> QED BY <1>1, <1>3, <1>6, <1>7 DEF HistNext

\* The history restricts nothing.
LEMMA HistIsSpec == HistSpec => Spec
<1>1. HistInit => Init
  BY DEF HistInit
<1>2. [HistNext]_histVars => [Next]_vars
  <2>1. ASSUME HistNext PROVE Next
    BY <2>1 DEF HistNext, Next, LetIn, Proceed, Die
  <2> QED BY <2>1 DEF histVars
<1> QED BY <1>1, <1>2, PTL DEF HistSpec, Spec

LEMMA AuthorizedFollows == IndexInv /\ LiveInv => AuthorizedAtPosition
<1> SUFFICES ASSUME IndexInv, LiveInv PROVE AuthorizedAtPosition
  OBVIOUS
<1>1. /\ db.log = log /\ db.grants = grants /\ db.chained = chained
      /\ RolesSound(db) /\ LiveSound(db, barred)
  BY DEF db, IndexInv, TablesSound, LiveInv
<1>2. ASSUME NEW q \in DOMAIN log
      PROVE  \/ log[q].op_class = OP_CLASS_CONTROL /\ IsRootSigned(log[q].payload)
             \/ \E g \in DOMAIN grants :
                  /\ grants[g].member_id = log[q].author_member_id
                  /\ grants[g].role \in ROLE_OP_CLASS_MATRIX[log[q].op_class]
                  /\ grants[g].granted_seq < q
                  /\ g \notin barred[q]
  BY <1>1 DEF LiveSound, LiveRow, RootSigned
<1>3. ASSUME NEW q \in Asserts("grant")
      PROVE  /\ Cert(q).role = ROLE_OWNER => Cert(q).signer = RootPk
             /\ IsPreferences => chained[Cert(q).member_id] = MEMBER_KIND_DEVICE
  <2>1. q \in DOMAIN log /\ IsControl(log[q], "grant")
    BY AssertsAre
  <2>2. WellFormed(log[q])
    BY <1>1, <2>1 DEF RolesSound
  <2>3. Cert(q).role = ROLE_OWNER => Cert(q).signer = RootPk
    BY <2>1, <2>2 DEF WellFormed, Cert
  <2>4. IsPreferences => chained[Cert(q).member_id] = MEMBER_KIND_DEVICE
    BY <1>1, <2>1 DEF RolesSound, Cert
  <2> QED BY <2>3, <2>4
<1> QED BY <1>2, <1>3 DEF AuthorizedAtPosition

\* Every stored op carries the signature of Root or has, below its own position,
\* the grant that entitled its author to it: one that was not revoked when its
\* request was let in, nor by an op before it in the batch.
THEOREM ServerAuthorizes == HistSpec => []AuthorizedAtPosition
<1>1. HistInit => LiveInv
  BY DEF HistInit, Init, LiveInv, LiveSound, RequestLives, InFlight, HasRows, Idle, db
<1>2. ChainInv /\ IndexInv /\ ChainInv' /\ LiveInv /\ [HistNext]_histVars => LiveInv'
  BY LiveInductive
<1>3. HistSpec => []LiveInv
  BY <1>1, <1>2, HistIsSpec, IndexInvariant, PTL DEF HistSpec
<1> QED BY <1>3, HistIsSpec, IndexInvariant, AuthorizedFollows, PTL

==============================================================================

---------------------------- MODULE OutboxProofs ----------------------------
(***************************************************************************)
(* What a device that writes to a workspace may rely on, for any number of *)
(* ops, any size of a batch and any number of faults.                      *)
(***************************************************************************)
EXTENDS Outbox, FiniteSetTheorems, WellFoundedInduction, TLAPS

-----------------------------------------------------------------------------
(* Bounded sets of naturals, and the positions a batch of fresh ops takes. *)

LEMMA Greatest ==
  ASSUME NEW b \in Nat, NEW S \in SUBSET (0 .. b), S # {}
  PROVE  \E n \in S : \A m \in S : m <= n
<1> DEFINE R == {ss \in Nat \X Nat : ss[1] < ss[2]}
           T == {b - n : n \in S}
<1>1. IsWellFoundedOn(R, Nat)
  BY NatLessThanWellFounded DEF OpToRel
<1>2. T \subseteq Nat /\ T # {}
  <2>1. \A n \in S : b - n \in T /\ b - n \in Nat
    OBVIOUS
  <2> QED BY <2>1
<1>3. PICK t \in T : \A u \in T : <<u, t>> \notin R
  <2> HIDE DEF R, T
  <2> QED BY <1>1, <1>2, WFMin
<1>4. PICK n \in S : t = b - n
  BY <1>3
<1>5. ASSUME NEW m \in S PROVE m <= n
  <2>1. b - m \in T /\ b - m \in Nat /\ t \in Nat
    BY <1>2
  <2>2. ~(b - m < t)
    BY <2>1, <1>3
  <2> QED BY <2>1, <2>2, <1>4
<1> QED BY <1>5

LEMMA Least ==
  ASSUME NEW b \in Nat, NEW S \in SUBSET (0 .. b), S # {}
  PROVE  \E n \in S : \A m \in S : n <= m
<1> DEFINE T == {b - n : n \in S}
<1>1. T \in SUBSET (0 .. b) /\ T # {}
  <2>1. \A n \in S : b - n \in T /\ b - n \in 0 .. b
    OBVIOUS
  <2> QED BY <2>1
<1>2. PICK t \in T : \A u \in T : u <= t
  <2> HIDE DEF T
  <2> QED BY <1>1, Greatest
<1>3. PICK n \in S : t = b - n
  BY <1>2
<1>4. ASSUME NEW m \in S PROVE n <= m
  <2>1. b - m \in T
    OBVIOUS
  <2> QED BY <2>1, <1>2, <1>3
<1> QED BY <1>4

\* Positions of which each is the next one, or follows another, go on where a
\* chain of l ops ends.
LEMMA Contiguous ==
  ASSUME NEW l \in Nat, NEW b \in Nat, NEW F \in SUBSET (1 .. b),
         \A s \in F : s = l + 1 \/ s - 1 \in F
  PROVE  /\ \A s \in F : s > l
         /\ \E m \in Nat : l <= m /\ 1 .. l \cup F = 1 .. m
<1>1. CASE F = {}
  BY <1>1
<1>2. CASE F # {}
  <2>1. PICK low \in F : \A s \in F : low <= s
    BY <1>2, Least, F \in SUBSET (0 .. b)
  <2>2. low = l + 1
    BY <2>1
  <2>3. PICK m \in F : \A s \in F : s <= m
    BY <1>2, Greatest, F \in SUBSET (0 .. b)
  <2>4. ASSUME NEW n \in (l + 1) .. m, n \notin F PROVE FALSE
    <3> DEFINE Out == {k \in (l + 1) .. m : k \notin F}
    <3>1. Out \in SUBSET (0 .. m) /\ m \in Nat /\ Out # {}
      BY <2>4
    <3>2. PICK k \in Out : \A j \in Out : j <= k
      <4> HIDE DEF Out
      <4> QED BY <3>1, Greatest
    <3>3. k # m /\ k + 1 \in (l + 1) .. m /\ k + 1 \notin Out
      BY <3>2, <2>3
    <3>4. k + 1 \in F /\ k + 1 # l + 1 /\ (k + 1) - 1 = k
      BY <3>2, <3>3
    <3> QED BY <3>2, <3>4
  <2>5. m \in Nat /\ l < m
    BY <2>2, <2>3
  <2>6. ASSUME NEW n \in 1 .. m PROVE n \in 1 .. l \cup F
    BY <2>4, <2>5
  <2>7. ASSUME NEW n \in 1 .. l \cup F PROVE n \in 1 .. m
    BY <2>3, <2>5
  <2>8. l <= m
    BY <2>5
  <2>9. 1 .. l \cup F = 1 .. m
    BY <2>6, <2>7
  <2> QED BY <2>1, <2>2, <2>5, <2>8, <2>9
<1> QED BY <1>1, <1>2

-----------------------------------------------------------------------------
(* Types.                                                                  *)

\* No op stands at a higher position than its id, so that whoever numbers an op
\* next has a position left for it.
RowsWithin(rows) == \A row \in rows : row.seq <= row.id /\ row.id <= drawn

DeviceWithin(d) == RowsWithin(d.outbox) /\ d.authored <= drawn /\ d.logged <= drawn

Within ==
  /\ DeviceWithin(device) /\ DeviceWithin(backup)
  /\ \A n \in DOMAIN mine : n <= mine[n].id /\ mine[n].id <= drawn
  /\ post.at # "rest" => RowsWithin(post.chunk \cup post.rest)
  /\ \A chunk \in delayed : RowsWithin(chunk)

TypeInv == OutboxTypeOK /\ Within

Tables == [outbox : SUBSET OutboxRow, authored : 0 .. MaxOps, logged : 0 .. MaxOps,
           founded : BOOLEAN]

\* Ops past the door continue the chain: the positions of the fresh ones are those
\* right above its end, and the server keeps what it had.
LEMMA TakenContinues ==
  ASSUME mine \in Seq(OutboxOp), NEW chunk \in SUBSET OutboxRow, ServerTakes(chunk)
  PROVE  /\ mine' \in Seq(OutboxOp) /\ Len(mine) <= Len(mine')
         /\ \A n \in DOMAIN mine : n \in DOMAIN mine' /\ mine'[n] = mine[n]
         /\ \A n \in DOMAIN mine' :
              \/ n \in DOMAIN mine
              \/ \E row \in FreshOf(chunk) : row.seq = n /\ mine'[n] = OpOf(row)
         /\ PostAnswer(chunk).code = "stored" =>
              \A row \in FreshOf(chunk) : row.seq \in DOMAIN mine' /\ row.seq > Len(mine)
<1>0. Len(mine) \in Nat /\ DOMAIN mine = 1 .. Len(mine) /\ \A n \in DOMAIN mine : mine[n] \in OutboxOp
  OBVIOUS
<1>1. CASE PostAnswer(chunk).code # "stored"
  BY <1>0, <1>1 DEF ServerTakes
<1>2. CASE PostAnswer(chunk).code = "stored"
  <2> DEFINE fresh == FreshOf(chunk)
             F == {row.seq : row \in fresh}
             take(n) == OpOf(CHOOSE row \in fresh : row.seq = n)
  <2>1. mine' = [n \in DOMAIN mine \cup F |-> IF n \in DOMAIN mine THEN mine[n] ELSE take(n)]
    BY <1>2 DEF ServerTakes
  <2>2. fresh \subseteq OutboxRow /\ \A row \in fresh : row.seq \in 1 .. MaxOps /\ OpOf(row) \in OutboxOp
    BY DEF FreshOf, OutboxRow, OpOf, OutboxOp
  <2>3. F \in SUBSET (1 .. MaxOps)
    BY <2>2
  <2>4. ~ChainConflicts(chunk)
    BY <1>2 DEF PostAnswer
  <2>5. \A s \in F : s = Len(mine) + 1 \/ s - 1 \in F
    BY <2>4 DEF ChainConflicts
  <2>6. PICK m \in Nat : Len(mine) <= m /\ 1 .. Len(mine) \cup F = 1 .. m
    <3> HIDE DEF F, fresh
    <3> QED BY <1>0, <2>3, <2>5, Contiguous, OutboxAssumption DEF OutboxAssumption
  <2>7. \A s \in F : s > Len(mine)
    <3> HIDE DEF F, fresh
    <3> QED BY <1>0, <2>3, <2>5, Contiguous, OutboxAssumption DEF OutboxAssumption
  <2>8. ASSUME NEW n \in F
        PROVE  \E row \in fresh : row.seq = n /\ take(n) = OpOf(row)
    <3>1. \E row \in fresh : row.seq = n
      OBVIOUS
    <3>2. PICK row \in fresh : row = CHOOSE r \in fresh : r.seq = n
      <4> HIDE DEF fresh
      <4> QED BY <3>1
    <3>3. row.seq = n
      <4> HIDE DEF fresh
      <4> QED BY <3>1, <3>2
    <3> QED BY <3>2, <3>3
  <2>9. \A n \in F : take(n) \in OutboxOp
    BY <2>2, <2>8
  <2> HIDE DEF fresh, F, take
  <2>10. DOMAIN mine' = 1 .. m /\ \A n \in DOMAIN mine' : mine'[n] \in OutboxOp
    BY <1>0, <2>1, <2>6, <2>9
  <2>11. mine' \in Seq(OutboxOp) /\ Len(mine') = m
    <3>1. mine' \in [1 .. m -> OutboxOp]
      BY <2>1, <2>10
    <3> QED BY <3>1
  <2>12. \A n \in DOMAIN mine : n \in DOMAIN mine' /\ mine'[n] = mine[n]
    BY <2>1
  <2>13. \A n \in DOMAIN mine' :
           \/ n \in DOMAIN mine
           \/ \E row \in fresh : row.seq = n /\ mine'[n] = OpOf(row)
    <3> SUFFICES ASSUME NEW n \in DOMAIN mine', n \notin DOMAIN mine
                 PROVE  \E row \in fresh : row.seq = n /\ mine'[n] = OpOf(row)
      OBVIOUS
    <3>1. n \in F /\ mine'[n] = take(n)
      BY <2>1
    <3> QED BY <3>1, <2>8
  <2>14. \A row \in fresh : row.seq \in DOMAIN mine' /\ row.seq > Len(mine)
    <3>1. \A row \in fresh : row.seq \in F
      BY DEF F
    <3> QED BY <3>1, <2>1, <2>7
  <2> QED BY <2>6, <2>11, <2>12, <2>13, <2>14 DEF fresh
<1> QED BY <1>1, <1>2

LEMMA AuthoredTypes ==
  ASSUME TypeInv, drawn < MaxOps, NEW kind \in Kinds
  PROVE  LET d == Authored(device, drawn + 1, kind)
             row == [id |-> drawn + 1, kind |-> kind, seq |-> device.authored + 1, sent |-> FALSE]
         IN /\ row \in OutboxRow
            /\ d \in Tables
            /\ d.outbox = device.outbox \cup {row} /\ d.authored = device.authored + 1
            /\ d.logged = device.logged /\ d.founded = device.founded
            /\ \A r \in d.outbox : r.seq <= r.id /\ r.id <= drawn + 1
            /\ d.authored <= drawn + 1 /\ d.logged <= drawn + 1
<1> DEFINE row == [id |-> drawn + 1, kind |-> kind, seq |-> device.authored + 1, sent |-> FALSE]
           d == Authored(device, drawn + 1, kind)
<1>1. /\ device \in Tables /\ drawn \in 0 .. MaxOps
      /\ device.authored <= drawn /\ device.logged <= drawn
      /\ \A r \in device.outbox : r.seq <= r.id /\ r.id <= drawn
  BY DEF TypeInv, OutboxTypeOK, Within, DeviceWithin, RowsWithin, Tables
<1>2. MaxOps \in Nat
  BY OutboxAssumption DEF OutboxAssumption
<1>3. /\ device.authored \in 0 .. MaxOps /\ device.logged \in 0 .. MaxOps
      /\ device.outbox \in SUBSET OutboxRow /\ device.founded \in BOOLEAN
  BY <1>1 DEF Tables
<1>4. row \in OutboxRow
  BY <1>1, <1>2, <1>3 DEF OutboxRow
<1>5. d = [device EXCEPT !.outbox = device.outbox \cup {row},
                         !.authored = device.authored + 1]
  BY DEF Authored
<1> HIDE DEF row, d
<1>6. d.outbox = device.outbox \cup {row} /\ d.authored = device.authored + 1
      /\ d.logged = device.logged /\ d.founded = device.founded
  BY <1>1, <1>5 DEF Tables
<1>7. d \in Tables
  <2>1. /\ device.outbox \cup {row} \in SUBSET OutboxRow
        /\ device.authored + 1 \in 0 .. MaxOps
    BY <1>1, <1>2, <1>3, <1>4
  <2> HIDE DEF OutboxRow
  <2> QED BY <1>1, <1>5, <2>1 DEF Tables
<1>8. \A r \in d.outbox : r.seq <= r.id /\ r.id <= drawn + 1
  <2>1. \A r \in device.outbox : r.id \in Nat /\ r.seq \in Nat
    BY <1>2, <1>3 DEF OutboxRow
  <2>2. row.seq <= row.id /\ row.id <= drawn + 1
    BY <1>1, <1>2, <1>3 DEF row
  <2> QED BY <1>1, <1>2, <1>6, <2>1, <2>2
<1>9. d.authored <= drawn + 1 /\ d.logged <= drawn + 1
  BY <1>1, <1>2, <1>3, <1>6
<1> QED BY <1>4, <1>6, <1>7, <1>8, <1>9 DEF row, d

LEMMA PulledTypes ==
  ASSUME TypeInv
  PROVE  LET d == Pulled(device)
         IN /\ d \in Tables /\ DeviceWithin(d)
            /\ d.outbox = device.outbox /\ d.authored = device.authored
            /\ d.founded = (founder # Nobody)
            /\ mine = <<>> => d.logged = device.logged
<1> DEFINE U == Undisputed(device)
           top == IF U = {} THEN device.logged ELSE CHOOSE n \in U : \A o \in U : o <= n
           d == Pulled(device)
<1>1. /\ device \in Tables /\ drawn \in 0 .. MaxOps /\ mine \in Seq(OutboxOp)
      /\ DeviceWithin(device)
      /\ \A n \in DOMAIN mine : n <= mine[n].id /\ mine[n].id <= drawn
  BY DEF TypeInv, OutboxTypeOK, Within, Tables
<1>2. MaxOps \in Nat
  BY OutboxAssumption DEF OutboxAssumption
<1>3. \A n \in DOMAIN mine : n \in Nat /\ n <= drawn
  <2>1. DOMAIN mine = 1 .. Len(mine) /\ Len(mine) \in Nat
        /\ \A n \in 1 .. Len(mine) : mine[n] \in OutboxOp
    BY <1>1
  <2>2. \A n \in DOMAIN mine : n \in Nat /\ mine[n].id \in 1 .. MaxOps
    BY <2>1 DEF OutboxOp
  <2> QED BY <1>1, <1>2, <2>2
<1>4. U \in SUBSET (0 .. drawn)
  BY <1>1, <1>3 DEF Undisputed
<1>5. top \in 0 .. drawn
  <2>1. CASE U = {}
    BY <1>1, <1>2, <2>1 DEF DeviceWithin, Tables
  <2>2. CASE U # {}
    <3>1. \E n \in U : \A o \in U : o <= n
      <4>1. drawn \in Nat
        BY <1>1, <1>2
      <4> HIDE DEF U
      <4> QED BY <1>4, <2>2, <4>1, Greatest
    <3>2. top \in U
      <4> HIDE DEF U
      <4> QED BY <2>2, <3>1
    <3> QED BY <1>4, <3>2
  <2> QED BY <2>1, <2>2
<1>6. d = [device EXCEPT !.logged = top, !.founded = (founder # Nobody)]
  BY <1>1 DEF Pulled, Tables
<1>7. mine = <<>> => top = device.logged
  BY DEF Undisputed
<1> HIDE DEF top, d
<1>8. /\ d.outbox = device.outbox /\ d.authored = device.authored
      /\ d.founded = (founder # Nobody) /\ d.logged = top
  BY <1>1, <1>6 DEF Tables
<1>9. d \in Tables
  <2>1. top \in 0 .. MaxOps /\ (founder # Nobody) \in BOOLEAN
    BY <1>1, <1>2, <1>5
  <2> QED BY <1>1, <1>6, <2>1 DEF Tables
<1>10. DeviceWithin(d)
  BY <1>1, <1>2, <1>5, <1>8 DEF DeviceWithin
<1> QED BY <1>7, <1>8, <1>9, <1>10 DEF d

\* What goes out is of the rows it was taken from.
LEMMA AskingRows ==
  ASSUME NEW rows
  PROVE  /\ Asking(rows).at \in {"rest", "asked"}
         /\ Asking(rows).at # "rest" =>
              /\ rows # {}
              /\ Asking(rows).chunk = ChunkOf(rows) /\ Asking(rows).rest = rows \ ChunkOf(rows)
         /\ ChunkOf(rows) \subseteq rows
<1>1. ChunkOf(rows) \subseteq rows
  BY DEF ChunkOf
<1>2. CASE rows = {}
  BY <1>1, <1>2 DEF Asking, Resting
<1>3. CASE rows # {}
  BY <1>1, <1>3 DEF Asking
<1> QED BY <1>2, <1>3

LEMMA TakenTypes ==
  ASSUME TypeInv, NEW chunk \in SUBSET OutboxRow, RowsWithin(chunk), ServerTakes(chunk)
  PROVE  /\ mine' \in Seq(OutboxOp) /\ founder' \in {Nobody, "rival", "me"}
         /\ \A n \in DOMAIN mine' : n <= mine'[n].id /\ mine'[n].id <= drawn
<1>1. mine \in Seq(OutboxOp) /\ founder \in {Nobody, "rival", "me"}
      /\ \A n \in DOMAIN mine : n <= mine[n].id /\ mine[n].id <= drawn
  BY DEF TypeInv, OutboxTypeOK, Within
<1>2. founder' \in {Nobody, "rival", "me"}
  BY <1>1 DEF ServerTakes
<1>3. ASSUME NEW n \in DOMAIN mine' PROVE n <= mine'[n].id /\ mine'[n].id <= drawn
  <2>1. CASE n \in DOMAIN mine
    BY <1>1, <2>1, TakenContinues
  <2>2. CASE \E row \in FreshOf(chunk) : row.seq = n /\ mine'[n] = OpOf(row)
    BY <2>2 DEF FreshOf, OpOf, RowsWithin
  <2> QED BY <1>1, <1>3, <2>1, <2>2, TakenContinues
<1> QED BY <1>1, <1>2, <1>3, TakenContinues

LEMMA TypesKept ==
  ASSUME TypeInv, drawn' = drawn, UNCHANGED faults,
         device' \in Tables, DeviceWithin(device'), UNCHANGED backup,
         claim' \in {"none", "genesis", "register", "grant", "flush", "pull", "again"},
         post'.at \in {"rest", "asked", "answered"},
         post'.at # "rest" =>
           /\ post'.chunk \in SUBSET OutboxRow /\ post'.rest \in SUBSET OutboxRow
           /\ RowsWithin(post'.chunk \cup post'.rest),
         delayed' \subseteq SUBSET OutboxRow,
         \A chunk \in delayed' : RowsWithin(chunk),
         UNCHANGED <<mine, founder, door>>, accused' \in BOOLEAN, restored' \in BOOLEAN
  PROVE  TypeInv'
<1>1. OutboxTypeOK'
  BY DEF TypeInv, OutboxTypeOK, Tables
<1>2. Within'
  BY DEF TypeInv, Within, DeviceWithin, RowsWithin
<1> QED BY <1>1, <1>2 DEF TypeInv

LEMMA TypeParts ==
  ASSUME TypeInv
  PROVE  /\ device \in Tables /\ backup \in Tables
         /\ DeviceWithin(device) /\ DeviceWithin(backup)
         /\ claim \in {"none", "genesis", "register", "grant", "flush", "pull", "again"}
         /\ post.at \in {"rest", "asked", "answered"}
         /\ post.at # "rest" =>
              /\ post.chunk \in SUBSET OutboxRow /\ post.rest \in SUBSET OutboxRow
              /\ RowsWithin(post.chunk \cup post.rest)
         /\ delayed \subseteq SUBSET OutboxRow
         /\ \A chunk \in delayed : RowsWithin(chunk)
         /\ accused \in BOOLEAN /\ restored \in BOOLEAN
         /\ drawn \in 0 .. MaxOps /\ faults \in 0 .. MaxFaults
BY DEF TypeInv, OutboxTypeOK, Within, Tables

LEMMA PulledKeepsTypes ==
  ASSUME TypeInv, device' = Pulled(device), accused' = (accused \/ CheckOwnWrites(device)),
         claim' \in {"none", "genesis", "register", "grant", "flush", "pull", "again"},
         UNCHANGED <<post, delayed, mine, founder, door, backup, restored, drawn, faults>>
  PROVE  TypeInv'
<1>1. device' \in Tables /\ DeviceWithin(device')
  BY PulledTypes
<1>2. accused' \in BOOLEAN
  BY TypeParts
<1> QED BY <1>1, <1>2, TypesKept, TypeParts

LEMMA AuthoredKeepsTypes ==
  ASSUME TypeInv, drawn < MaxOps, NEW kind \in Kinds,
         device' = Authored(device, drawn + 1, kind), drawn' = drawn + 1,
         claim' \in {"none", "genesis", "register", "grant", "flush", "pull", "again"},
         UNCHANGED <<post, delayed, mine, founder, door, accused, backup, restored, faults>>
  PROVE  TypeInv'
<1>1. device' \in Tables /\ DeviceWithin(device)'
  BY AuthoredTypes DEF DeviceWithin, RowsWithin
<1>2. drawn \in Nat /\ drawn' \in 0 .. MaxOps /\ MaxOps \in Nat
  BY TypeParts, OutboxAssumption DEF OutboxAssumption
<1>3. \A k \in Int : k <= drawn => k <= drawn'
  BY <1>2
<1>4. \A rows \in SUBSET OutboxRow : RowsWithin(rows) => RowsWithin(rows)'
  BY <1>3, <1>2 DEF RowsWithin, OutboxRow
<1>5. DeviceWithin(backup)'
  <2>1. /\ backup.outbox \in SUBSET OutboxRow /\ backup.authored \in Int
        /\ backup.logged \in Int /\ DeviceWithin(backup)
    BY TypeParts, <1>2 DEF Tables
  <2> QED BY <1>3, <1>4, <2>1 DEF DeviceWithin
<1>6. \A n \in DOMAIN mine' : n <= mine'[n].id /\ mine'[n].id <= drawn'
  <2>1. /\ DOMAIN mine = 1 .. Len(mine) /\ Len(mine) \in Nat
        /\ \A n \in 1 .. Len(mine) : mine[n] \in OutboxOp
    BY DEF TypeInv, OutboxTypeOK
  <2>2. \A n \in DOMAIN mine : mine[n].id \in Int
    BY <2>1, <1>2 DEF OutboxOp
  <2> QED BY <1>3, <2>2 DEF TypeInv, Within
<1>7. post'.at # "rest" => RowsWithin(post.chunk \cup post.rest)'
  <2>1. ASSUME post.at # "rest" PROVE RowsWithin(post.chunk \cup post.rest)'
    <3>1. post.chunk \cup post.rest \in SUBSET OutboxRow /\ RowsWithin(post.chunk \cup post.rest)
      BY <2>1, TypeParts
    <3>2. \A row \in post.chunk \cup post.rest : row.seq <= row.id /\ row.id <= drawn'
      BY <3>1, <1>3, <1>2 DEF RowsWithin, OutboxRow
    <3> QED BY <3>2 DEF RowsWithin
  <2> QED BY <2>1
<1>8. \A chunk \in delayed' : RowsWithin(chunk)'
  BY <1>4, TypeParts
<1>9. Within'
  BY <1>1, <1>5, <1>6, <1>7, <1>8 DEF Within
<1>10. OutboxTypeOK'
  BY <1>1, <1>2, TypeParts DEF TypeInv, OutboxTypeOK, Tables
<1> QED BY <1>9, <1>10 DEF TypeInv

LEMMA TypeInductive == TypeInv /\ [OutboxNext]_outboxVars => TypeInv'
<1> SUFFICES ASSUME TypeInv, [OutboxNext]_outboxVars PROVE TypeInv'
  OBVIOUS
<1> DEFINE Claims == {"none", "genesis", "register", "grant", "flush", "pull", "again"}
<1>0. claim \in Claims /\ drawn \in Nat /\ MaxOps \in Nat /\ MaxFaults \in Nat
  BY TypeParts, OutboxAssumption DEF OutboxAssumption
<1>1. CASE Pull \/ ClaimPull \/ ClaimPullBack
  <2>1. device' = Pulled(device) /\ claim' \in Claims
        /\ accused' = (accused \/ CheckOwnWrites(device))
        /\ UNCHANGED <<post, delayed, mine, founder, door, backup, restored, drawn, faults>>
    BY <1>0, <1>1 DEF Pull, ClaimPull, ClaimPullBack
  <2> QED BY <2>1, PulledKeepsTypes
<1>2. CASE ClaimFirst \/ ClaimGrant \/ Capture
  <2>1. PICK kind \in Kinds :
          /\ drawn < MaxOps /\ claim' \in Claims
          /\ device' = Authored(device, drawn + 1, kind) /\ drawn' = drawn + 1
          /\ UNCHANGED <<post, delayed, mine, founder, door, accused, backup, restored, faults>>
    BY <1>0, <1>2 DEF ClaimFirst, ClaimGrant, Capture, Kinds
  <2> QED BY <2>1, AuthoredKeepsTypes
<1>3. CASE PostArrives
  <2>1. /\ post.chunk \in SUBSET OutboxRow /\ post.rest \in SUBSET OutboxRow
        /\ RowsWithin(post.chunk \cup post.rest) /\ ServerTakes(post.chunk)
        /\ post' = [at |-> "answered", chunk |-> post.chunk, rest |-> post.rest,
                    answer |-> PostAnswer(post.chunk)]
        /\ UNCHANGED <<device, claim, delayed, door, accused, backup, restored, drawn, faults>>
    BY <1>3, TypeParts DEF PostArrives
  <2>2. RowsWithin(post.chunk)
    BY <2>1 DEF RowsWithin
  <2>3. /\ mine' \in Seq(OutboxOp) /\ founder' \in {Nobody, "rival", "me"}
        /\ \A n \in DOMAIN mine' : n <= mine'[n].id /\ mine'[n].id <= drawn
    BY <2>1, <2>2, TakenTypes
  <2>4. OutboxTypeOK'
    BY <2>1, <2>3, TypeParts DEF TypeInv, OutboxTypeOK, Tables
  <2>5. Within'
    BY <2>1, <2>3 DEF TypeInv, Within, DeviceWithin, RowsWithin
  <2> QED BY <2>4, <2>5 DEF TypeInv
<1>4. CASE \E chunk \in delayed : DelayedArrives(chunk)
  <2>1. PICK chunk \in delayed : DelayedArrives(chunk)
    BY <1>4
  <2>2. /\ chunk \in SUBSET OutboxRow /\ RowsWithin(chunk) /\ ServerTakes(chunk)
        /\ delayed' \subseteq delayed
        /\ UNCHANGED <<device, claim, post, door, accused, backup, restored, drawn, faults>>
    BY <2>1, TypeParts DEF DelayedArrives
  <2>3. /\ mine' \in Seq(OutboxOp) /\ founder' \in {Nobody, "rival", "me"}
        /\ \A n \in DOMAIN mine' : n <= mine'[n].id /\ mine'[n].id <= drawn
    BY <2>2, TakenTypes
  <2>4. OutboxTypeOK'
    BY <2>2, <2>3, TypeParts DEF TypeInv, OutboxTypeOK, Tables
  <2>5. Within'
    BY <2>2, <2>3 DEF TypeInv, Within, DeviceWithin, RowsWithin
  <2> QED BY <2>4, <2>5 DEF TypeInv
<1>5. CASE RivalFounds \/ \E why \in {"revoked", "rotated"} : DoorShuts(why)
  <2>1. OutboxTypeOK'
    <3>1. CASE RivalFounds
      BY <3>1 DEF RivalFounds, TypeInv, OutboxTypeOK
    <3>2. ASSUME NEW why \in {"revoked", "rotated"}, DoorShuts(why) PROVE OutboxTypeOK'
      BY <1>0, <3>2, TypeParts DEF DoorShuts, TypeInv, OutboxTypeOK
    <3> QED BY <1>5, <3>1, <3>2
  <2>2. Within'
    BY <1>5 DEF RivalFounds, DoorShuts, TypeInv, Within, DeviceWithin, RowsWithin
  <2> QED BY <2>1, <2>2 DEF TypeInv
<1>6. CASE Flush
  <2>1. /\ post' = Asking(Unsent(device))
        /\ UNCHANGED <<device, claim, delayed, mine, founder, door, accused, backup, restored, drawn, faults>>
    BY <1>6 DEF Flush
  <2>2. Unsent(device) \in SUBSET OutboxRow /\ RowsWithin(Unsent(device))
    BY TypeParts DEF Unsent, Tables, DeviceWithin, RowsWithin
  <2>3. /\ post'.at \in {"rest", "asked", "answered"}
        /\ post'.at # "rest" => /\ post'.chunk \in SUBSET OutboxRow
                                /\ post'.rest \in SUBSET OutboxRow
                                /\ RowsWithin(post'.chunk \cup post'.rest)
    BY <2>1, <2>2, AskingRows DEF RowsWithin
  <2>4. device' \in Tables /\ DeviceWithin(device')
    BY <2>1, TypeParts
  <2>5. /\ claim' \in Claims /\ delayed' \subseteq SUBSET OutboxRow
        /\ \A chunk \in delayed' : RowsWithin(chunk)
        /\ accused' \in BOOLEAN /\ restored' \in BOOLEAN
    BY <2>1, TypeParts
  <2> QED BY <2>1, <2>3, <2>4, <2>5, TypesKept
<1>7. CASE MarkSent
  <2>1. /\ post.at = "answered"
        /\ device' = [device EXCEPT !.outbox =
             {IF InRows(row, post.chunk) THEN [row EXCEPT !.sent = TRUE] ELSE row : row \in @}]
        /\ post' = Asking(post.rest) /\ claim' \in Claims
        /\ UNCHANGED <<delayed, mine, founder, door, accused, backup, restored, drawn, faults>>
    BY <1>0, <1>7 DEF MarkSent, Answered
  <2>2. post.rest \in SUBSET OutboxRow /\ RowsWithin(post.rest)
    BY <2>1, TypeParts DEF RowsWithin
  <2>3. /\ post'.at \in {"rest", "asked", "answered"}
        /\ post'.at # "rest" => /\ post'.chunk \in SUBSET OutboxRow
                                /\ post'.rest \in SUBSET OutboxRow
                                /\ RowsWithin(post'.chunk \cup post'.rest)
    BY <2>1, <2>2, AskingRows DEF RowsWithin
  <2> DEFINE mark(row) == IF InRows(row, post.chunk) THEN [row EXCEPT !.sent = TRUE] ELSE row
             marked == {mark(row) : row \in device.outbox}
  <2>4. device \in Tables /\ DeviceWithin(device)
    BY TypeParts
  <2>5. \A row \in OutboxRow : /\ mark(row) \in OutboxRow
                               /\ mark(row).seq = row.seq /\ mark(row).id = row.id
    BY DEF OutboxRow
  <2>6. device' = [device EXCEPT !.outbox = marked]
    BY <2>1, <2>4 DEF Tables
  <2>7. marked \in SUBSET OutboxRow /\ RowsWithin(marked)
    <3> HIDE DEF mark
    <3> QED BY <2>4, <2>5 DEF Tables, DeviceWithin, RowsWithin
  <2> HIDE DEF marked
  <2>8. device' \in Tables /\ DeviceWithin(device')
    BY <2>4, <2>6, <2>7 DEF Tables, DeviceWithin
  <2>9. /\ claim' \in Claims /\ delayed' \subseteq SUBSET OutboxRow
        /\ \A chunk \in delayed' : RowsWithin(chunk)
        /\ accused' \in BOOLEAN /\ restored' \in BOOLEAN
    BY <2>1, TypeParts
  <2> QED BY <2>1, <2>3, <2>8, <2>9, TypesKept
<1>8. CASE DropSupersededGenesis
  <2>1. /\ device' = [device EXCEPT
             !.outbox = {row \in @ : ~InRows(row, post.chunk \cup post.rest)},
             !.authored = device.logged]
        /\ post' = Resting /\ claim' \in Claims
        /\ UNCHANGED <<delayed, mine, founder, door, accused, backup, restored, drawn, faults>>
    BY <1>0, <1>8 DEF DropSupersededGenesis
  <2>2. device \in Tables /\ DeviceWithin(device)
    BY TypeParts
  <2> DEFINE kept == {row \in device.outbox : ~InRows(row, post.chunk \cup post.rest)}
  <2>3. device' = [device EXCEPT !.outbox = kept, !.authored = device.logged]
    BY <2>1, <2>2 DEF Tables
  <2>4. kept \in SUBSET OutboxRow /\ RowsWithin(kept)
    BY <2>2 DEF Tables, DeviceWithin, RowsWithin
  <2> HIDE DEF kept
  <2>5. device' \in Tables /\ DeviceWithin(device')
    BY <2>2, <2>3, <2>4 DEF Tables, DeviceWithin
  <2>6. post'.at = "rest"
    BY <2>1 DEF Resting
  <2> QED BY <2>1, <2>5, <2>6, TypeParts, TypesKept
<1>9. CASE RecordOwnWritesVerdict \/ Rethrow
  <2>1. /\ post'.at = "rest" /\ claim' \in Claims /\ accused' \in BOOLEAN
        /\ UNCHANGED <<device, delayed, mine, founder, door, backup, restored, drawn, faults>>
    <3>1. CASE RecordOwnWritesVerdict
      <4>1. /\ post' = Resting /\ claim' \in Claims
            /\ \E b \in BOOLEAN : accused' = (accused \/ b)
            /\ UNCHANGED <<device, delayed, mine, founder, door, backup, restored, drawn, faults>>
        BY <1>0, <3>1 DEF RecordOwnWritesVerdict
      <4> QED BY <4>1, TypeParts DEF Resting
    <3>2. CASE Rethrow
      BY <1>0, <3>2, TypeParts DEF Rethrow, Resting
    <3> QED BY <1>9, <3>1, <3>2
  <2> QED BY <2>1, TypeParts, TypesKept
<1>14. CASE ClaimPullRefused
  <2>1. claim' \in Claims
        /\ UNCHANGED <<device, post, delayed, mine, founder, door, accused, backup, restored,
                       drawn, faults>>
    BY <1>14 DEF ClaimPullRefused
  <2> QED BY <2>1, TypeParts, TypesKept
<1>10. CASE GiveUp
  <2>1. /\ post'.at = "rest" /\ claim' = "none" /\ faults < MaxFaults /\ faults' = faults + 1
        /\ delayed' \subseteq SUBSET OutboxRow
        /\ \A chunk \in delayed' : RowsWithin(chunk)
        /\ UNCHANGED <<device, mine, founder, door, accused, backup, restored, drawn>>
    BY <1>10, TypeParts DEF GiveUp, Resting, RowsWithin
  <2>2. OutboxTypeOK'
    BY <1>0, <2>1, TypeParts DEF TypeInv, OutboxTypeOK
  <2>3. Within'
    BY <2>1 DEF TypeInv, Within, DeviceWithin, RowsWithin
  <2> QED BY <2>2, <2>3 DEF TypeInv
<1>11. CASE SaveBackup
  <2>1. OutboxTypeOK'
    BY <1>11, TypeParts DEF SaveBackup, TypeInv, OutboxTypeOK, Tables
  <2>2. Within'
    BY <1>11 DEF SaveBackup, TypeInv, Within, DeviceWithin, RowsWithin
  <2> QED BY <2>1, <2>2 DEF TypeInv
<1>12. CASE Restore
  <2>1. OutboxTypeOK'
    BY <1>12, TypeParts DEF Restore, TypeInv, OutboxTypeOK, Tables
  <2>2. Within'
    BY <1>12 DEF Restore, TypeInv, Within, DeviceWithin, RowsWithin
  <2> QED BY <2>1, <2>2 DEF TypeInv
<1>13. CASE UNCHANGED outboxVars
  <2>1. OutboxTypeOK'
    BY <1>13 DEF outboxVars, TypeInv, OutboxTypeOK
  <2>2. Within'
    BY <1>13 DEF outboxVars, TypeInv, Within, DeviceWithin, RowsWithin
  <2> QED BY <2>1, <2>2 DEF TypeInv
<1> QED BY <1>1, <1>2, <1>3, <1>4, <1>5, <1>6, <1>7, <1>8, <1>9, <1>10, <1>11, <1>12, <1>13,
        <1>14 DEF OutboxNext, Running

LEMMA InitTypes == OutboxInit => TypeInv
<1> SUFFICES ASSUME OutboxInit PROVE TypeInv
  OBVIOUS
<1>1. MaxOps \in Nat /\ MaxFaults \in Nat
  BY OutboxAssumption DEF OutboxAssumption
<1>2. EmptyDevice \in Tables
  BY <1>1 DEF EmptyDevice, Tables
<1>3. OutboxTypeOK
  <2>1. /\ device \in Tables /\ backup \in Tables
        /\ claim = "none" /\ post.at = "rest" /\ delayed = {}
        /\ accused = FALSE /\ restored = FALSE
        /\ drawn \in 0 .. MaxOps /\ faults \in 0 .. MaxFaults
        /\ founder \in {Nobody, "rival", "me"} /\ door = "open"
    BY <1>1, <1>2 DEF OutboxInit, Resting
  <2>2. mine \in Seq(OutboxOp)
    BY DEF OutboxInit
  <2> QED BY <2>1, <2>2 DEF OutboxTypeOK, Tables
<1>4. Within
  BY DEF OutboxInit, Within, DeviceWithin, RowsWithin, EmptyDevice, Resting
<1> QED BY <1>3, <1>4 DEF TypeInv

\* Whatever is lost, late, raced for or restored, a device's tables, the chunks on
\* their way and what the server holds of it keep their types.
THEOREM OutboxTypeCorrect == OutboxSpec => []OutboxTypeOK
<1>1. TypeInv => OutboxTypeOK
  BY DEF TypeInv
<1> QED BY <1>1, InitTypes, TypeInductive, PTL DEF OutboxSpec

-----------------------------------------------------------------------------
(* The chain and the founding of the workspace.                            *)

Blank == /\ device.outbox = {} /\ device.authored = 0 /\ device.logged = 0
         /\ mine = <<>>
UnsentGenesis == {row \in Unsent(device) : row.kind = "genesis"}

\* Every position spent is held by one row of the outbox.
RowsNumbered ==
  /\ \A r, q \in device.outbox : r.id = q.id \/ r.seq = q.seq => r = q
  /\ \A r \in device.outbox : r.seq <= device.authored
  /\ \A n \in 1 .. device.authored : \E r \in device.outbox : r.seq = n

\* The server holds a first part of the same chain, what is marked sent in it.
ChainStored ==
  /\ Len(mine) <= device.authored
  /\ \A r \in device.outbox : r.seq <= Len(mine) => OpOf(r) = mine[r.seq]
  /\ \A r \in device.outbox : r.sent => r.seq <= Len(mine)

Mirrored(chunk) ==
  \A row \in chunk : \E r \in device.outbox : OpOf(r) = OpOf(row) /\ r.seq = row.seq

\* What is on its way is the queue's, and an answer is still true when it is heard.
InFlight ==
  /\ post.at # "rest" =>
       post.chunk \cup post.rest \subseteq Unsent(device) /\ post.chunk \cap post.rest = {}
  /\ \A chunk \in delayed : Mirrored(chunk)
  /\ Answered("stored") => \A row \in post.chunk : row.seq <= Len(mine)
  /\ Answered("author_chain_conflict") =>
       /\ post.answer.expected \in 1 .. device.authored + 1
       /\ \A r \in device.outbox : r.sent => r.seq < post.answer.expected
  /\ Answered("genesis_not_first") => Founding(post.chunk)

\* Nothing is late where the device itself may found the workspace.
World ==
  \/ faults = MaxFaults /\ delayed = {}
  \/ /\ founder # Nobody /\ claim # "genesis"
     /\ \A r \in device.outbox : r.kind # "genesis"

\* From its genesis on until that is acknowledged a device has the genesis and
\* the grant behind it, and nothing else.
FoundingPhase ==
  UnsentGenesis # {} =>
    /\ claim \in {"grant", "flush"}
    /\ device.logged = 0 /\ device.authored <= (IF claim = "grant" THEN 1 ELSE 2)
    /\ \A r \in device.outbox :
         ~r.sent /\ r.kind \in {"genesis", "grant"} /\ (r.kind = "genesis" <=> r.seq = 1)
    /\ claim = "grant" => post.at = "rest"
    /\ post.at # "rest" => device.outbox = post.chunk \cup post.rest /\ Founding(post.chunk)
    /\ post.at # "answered" => mine = <<>>
    /\ post.at = "answered" => Answered("stored") \/ (Answered("genesis_not_first") /\ mine = <<>>)

Beginning ==
  /\ claim = "genesis" => Blank /\ post.at = "rest"
  /\ device.founded => founder # Nobody
  /\ founder = Nobody =>
       /\ claim \in {"none", "genesis", "grant", "flush"} /\ post.at # "answered"
       /\ claim = "none" => Blank /\ post.at = "rest"
       /\ claim \in {"grant", "flush"} => UnsentGenesis # {}

Unrestored ==
  RowsNumbered /\ ChainStored /\ InFlight /\ World /\ FoundingPhase /\ Beginning

OutboxInv == TypeInv /\ (restored \/ (Unrestored /\ ~accused))

\* What the types say, once and for all.
LEMMA Basics ==
  ASSUME TypeInv
  PROVE  /\ device \in Tables /\ device.outbox \in SUBSET OutboxRow
         /\ device.authored \in Nat /\ device.logged \in Nat
         /\ MaxOps \in Nat /\ drawn \in Nat
         /\ \A r \in OutboxRow : /\ r.id \in Nat \ {0} /\ r.seq \in Nat \ {0}
                                 /\ r.kind \in Kinds /\ r.sent \in BOOLEAN
         /\ \A r \in device.outbox : r.id <= drawn
         /\ mine \in Seq(OutboxOp) /\ Len(mine) \in Nat /\ DOMAIN mine = 1 .. Len(mine)
<1>1. MaxOps \in Nat
  BY OutboxAssumption DEF OutboxAssumption
<1>2. device \in Tables /\ DeviceWithin(device) /\ drawn \in 0 .. MaxOps
  BY TypeParts
<1>3. /\ device.outbox \in SUBSET OutboxRow
      /\ device.authored \in Nat /\ device.logged \in Nat
  BY <1>1, <1>2 DEF Tables
<1>4. \A r \in OutboxRow : /\ r.id \in Nat \ {0} /\ r.seq \in Nat \ {0}
                           /\ r.kind \in Kinds /\ r.sent \in BOOLEAN
  BY <1>1 DEF OutboxRow
<1>5. \A r \in device.outbox : r.id <= drawn
  BY <1>2 DEF DeviceWithin, RowsWithin
<1>6. mine \in Seq(OutboxOp) /\ Len(mine) \in Nat /\ DOMAIN mine = 1 .. Len(mine)
  BY DEF TypeInv, OutboxTypeOK
<1> QED BY <1>1, <1>2, <1>3, <1>4, <1>5, <1>6

\* Ids are as good as rows: the outbox is what a chunk was taken from.
LEMMA InRowsIsMember ==
  ASSUME RowsNumbered, NEW rows \in SUBSET device.outbox, NEW row \in device.outbox
  PROVE  InRows(row, rows) <=> row \in rows
BY DEF RowsNumbered, InRows

LEMMA PulledUnrestored ==
  ASSUME TypeInv, Unrestored, ~accused, Pull \/ ClaimPull \/ ClaimPullBack
  PROVE  (Unrestored /\ ~accused)'
<1>1. /\ device' = Pulled(device) /\ accused' = (accused \/ CheckOwnWrites(device))
      /\ UNCHANGED <<post, delayed, mine, founder, faults>>
  BY DEF Pull, ClaimPull, ClaimPullBack
<1>2. /\ device'.outbox = device.outbox /\ device'.authored = device.authored
      /\ device'.founded = (founder # Nobody)
      /\ mine = <<>> => device'.logged = device.logged
  BY <1>1, PulledTypes
<1>3. ~accused'
  <2>1. ~CheckOwnWrites(device)
    BY Basics DEF CheckOwnWrites, Unrestored, ChainStored
  <2> QED BY <1>1, <2>1
<1>4. claim \in {"none", "again", "pull"}
  BY DEF Pull, ClaimPull, ClaimPullBack, Enrolled
<1>5. UnsentGenesis = {} /\ UnsentGenesis' = {} /\ Unsent(device') = Unsent(device)
  <2>1. UnsentGenesis = {}
    BY <1>4 DEF Unrestored, FoundingPhase
  <2>2. Unsent(device') = Unsent(device)
    BY <1>2 DEF Unsent
  <2> QED BY <2>1, <2>2 DEF UnsentGenesis
<1>6. RowsNumbered' /\ ChainStored'
  BY <1>1, <1>2 DEF Unrestored, RowsNumbered, ChainStored
<1>7. InFlight'
  BY <1>1, <1>2, <1>5 DEF Unrestored, InFlight, Mirrored, Answered, Founding
<1>8. claim' = "genesis" => founder = Nobody /\ claim = "none"
  <2>1. ASSUME ClaimPull, claim' = "genesis" PROVE founder = Nobody /\ claim = "none"
    <3>1. founder = Nobody
      BY <1>2, <2>1 DEF ClaimPull
    <3>2. claim # "again"
      BY <3>1 DEF Unrestored, Beginning
    <3> QED BY <3>1, <3>2, <2>1 DEF ClaimPull
  <2> QED BY <2>1 DEF Pull, ClaimPullBack, Enrolled
<1>9. World'
  BY <1>1, <1>2, <1>8 DEF Unrestored, World
<1>10. FoundingPhase'
  BY <1>5 DEF FoundingPhase
<1>11. ASSUME founder = Nobody PROVE claim' = "genesis"
  <2>1. claim = "none" /\ ~device.founded
    BY <1>4, <1>11 DEF Unrestored, Beginning
  <2>2. ClaimPull
    BY <2>1 DEF Pull, ClaimPullBack, Enrolled
  <2> QED BY <1>2, <1>11, <2>2 DEF ClaimPull
<1>12. Beginning'
  <2>1. ASSUME claim' = "genesis" PROVE Blank' /\ post'.at = "rest"
    BY <1>1, <1>2, <1>8, <2>1 DEF Unrestored, Beginning, Blank
  <2> QED BY <1>1, <1>2, <1>11, <2>1 DEF Beginning, Unrestored
<1> QED BY <1>3, <1>6, <1>7, <1>9, <1>10, <1>12 DEF Unrestored

LEMMA AuthoredUnrestored ==
  ASSUME TypeInv, Unrestored, ~accused, ClaimFirst \/ ClaimGrant \/ Capture
  PROVE  (Unrestored /\ ~accused)'
<1>1. PICK kind \in Kinds :
        /\ drawn < MaxOps /\ device' = Authored(device, drawn + 1, kind)
        /\ \/ ClaimFirst /\ kind = claim
           \/ ClaimGrant /\ kind = "grant"
           \/ Capture /\ kind = "content"
  BY Basics DEF ClaimFirst, ClaimGrant, Capture, Kinds
<1>2. UNCHANGED <<post, delayed, mine, founder, accused, faults>>
  BY DEF ClaimFirst, ClaimGrant, Capture
<1> DEFINE new == [id |-> drawn + 1, kind |-> kind, seq |-> device.authored + 1, sent |-> FALSE]
<1>3. /\ device'.outbox = device.outbox \cup {new} /\ device'.authored = device.authored + 1
      /\ device'.logged = device.logged /\ device'.founded = device.founded
  BY <1>1, AuthoredTypes
<1>4. /\ new.id = drawn + 1 /\ new.kind = kind /\ new.seq = device.authored + 1
      /\ new.sent = FALSE
  OBVIOUS
<1> HIDE DEF new
<1>5. Unsent(device') = Unsent(device) \cup {new}
  BY <1>3, <1>4 DEF Unsent
<1>6. RowsNumbered'
  <2>1. \A r \in device.outbox : r.id # new.id /\ r.seq # new.seq /\ r.seq <= device'.authored
    BY <1>3, <1>4, Basics DEF Unrestored, RowsNumbered
  <2>2. \A n \in 1 .. device'.authored : n \in 1 .. device.authored \/ n = new.seq
    BY <1>3, <1>4, Basics
  <2>3. new.seq <= device'.authored
    BY <1>3, <1>4, Basics
  <2> QED BY <1>3, <2>1, <2>2, <2>3 DEF Unrestored, RowsNumbered
<1>7. ChainStored'
  <2>1. ~(new.seq <= Len(mine)) /\ Len(mine) <= device'.authored
    BY <1>3, <1>4, Basics DEF Unrestored, ChainStored
  <2> QED BY <1>2, <1>3, <1>4, <2>1 DEF Unrestored, ChainStored
<1>8. InFlight'
  <2>1. \A n \in 1 .. device.authored + 1 : n \in 1 .. device'.authored + 1
    BY <1>3, Basics
  <2>2. \A chunk : Mirrored(chunk) => Mirrored(chunk)'
    BY <1>3 DEF Mirrored
  <2>3. InFlight
    BY DEF Unrestored
  <2>4. Answered("author_chain_conflict")' =>
          /\ post'.answer.expected \in 1 .. device'.authored + 1
          /\ \A r \in device'.outbox : r.sent => r.seq < post'.answer.expected
    BY <1>2, <1>3, <1>4, <2>1, <2>3 DEF InFlight, Answered
  <2>5. /\ post'.at # "rest" =>
             post'.chunk \cup post'.rest \subseteq Unsent(device') /\ post'.chunk \cap post'.rest = {}
        /\ \A chunk \in delayed' : Mirrored(chunk)'
    BY <1>2, <1>5, <2>2, <2>3 DEF InFlight
  <2> QED BY <1>2, <2>3, <2>4, <2>5 DEF InFlight, Answered, Founding
<1>9. claim' \in {"none", "grant", "flush"} /\ (claim' # "none" => claim' = "grant" \/ claim = "grant")
  BY DEF ClaimFirst, ClaimGrant, Capture, Enrolled
<1>10. World'
  <2>1. ASSUME founder # Nobody, claim # "genesis" PROVE new.kind # "genesis"
    BY <1>1, <1>4, <2>1
  <2> QED BY <1>2, <1>3, <1>9, <2>1 DEF Unrestored, World
<1>11. ClaimFirst => claim' = "grant"
  BY DEF ClaimFirst
<1>12. CASE ClaimFirst /\ claim = "genesis"
  <2>1. /\ device.outbox = {} /\ device.authored = 0 /\ device.logged = 0
        /\ mine = <<>> /\ post.at = "rest"
    BY <1>12 DEF Unrestored, Beginning, Blank
  <2>2. kind = "genesis"
    BY <1>1, <1>12 DEF ClaimGrant, Capture, Enrolled
  <2>3. FoundingPhase'
    BY <1>2, <1>3, <1>4, <1>11, <1>12, <2>1, <2>2 DEF FoundingPhase
  <2>4. UnsentGenesis' # {}
    BY <1>4, <1>5, <2>2 DEF UnsentGenesis
  <2>5. Beginning'
    BY <1>2, <1>3, <1>11, <1>12, <2>1, <2>4 DEF Unrestored, Beginning
  <2> QED BY <1>2, <1>6, <1>7, <1>8, <1>10, <2>3, <2>5 DEF Unrestored
<1>13. CASE ~(ClaimFirst /\ claim = "genesis")
  <2>1. new.kind # "genesis"
    BY <1>1, <1>4, <1>13
  <2>2. UnsentGenesis' = UnsentGenesis
    BY <1>5, <2>1 DEF UnsentGenesis
  <2>3. ASSUME UnsentGenesis # {} PROVE ClaimGrant
    BY <2>3 DEF Unrestored, FoundingPhase, ClaimFirst, Capture, Enrolled
  <2>4. FoundingPhase'
    <3> SUFFICES ASSUME UnsentGenesis' # {} PROVE FoundingPhase'
      BY DEF FoundingPhase
    <3>1. UnsentGenesis # {} /\ claim = "grant" /\ claim' = "flush" /\ kind = "grant"
      BY <1>1, <2>2, <2>3 DEF ClaimGrant, ClaimFirst, Capture, Enrolled
    <3>2. PICK g \in UnsentGenesis : g \in device.outbox /\ g.kind = "genesis"
      BY <3>1 DEF UnsentGenesis, Unsent
    <3>3. /\ device.logged = 0 /\ device.authored <= 1 /\ post.at = "rest" /\ mine = <<>>
          /\ \A r \in device.outbox :
               ~r.sent /\ r.kind \in {"genesis", "grant"} /\ (r.kind = "genesis" <=> r.seq = 1)
      BY <3>1 DEF Unrestored, FoundingPhase
    <3>4. device.authored = 1
      <4>1. g.seq = 1 /\ g.seq <= device.authored
        BY <3>2, <3>3 DEF Unrestored, RowsNumbered
      <4> QED BY <4>1, <3>3, Basics
    <3>5. new.seq # 1 /\ device'.authored <= 2
      BY <1>3, <1>4, <3>4
    <3> QED BY <1>2, <1>3, <1>4, <3>1, <3>3, <3>5 DEF FoundingPhase
  <2>5. ASSUME founder = Nobody PROVE claim' \in {"grant", "flush"} /\ UnsentGenesis # {}
    <3>1. claim # "register" /\ ~device.founded
      BY <2>5 DEF Unrestored, Beginning
    <3>2. ClaimGrant
      BY <1>13, <3>1 DEF ClaimFirst, Capture, Enrolled
    <3> QED BY <2>5, <3>2 DEF ClaimGrant, Unrestored, Beginning
  <2>6. Beginning'
    BY <1>2, <1>3, <1>9, <2>2, <2>5 DEF Unrestored, Beginning
  <2> QED BY <1>2, <1>6, <1>7, <1>8, <1>10, <2>4, <2>6 DEF Unrestored
<1> QED BY <1>12, <1>13

\* What the server takes of a chunk of the device's rows continues the chain the
\* device numbered.
LEMMA TakenChain ==
  ASSUME TypeInv, RowsNumbered, ChainStored, NEW chunk \in SUBSET OutboxRow, Mirrored(chunk),
         ServerTakes(chunk), UNCHANGED device
  PROVE  /\ ChainStored' /\ Len(mine) <= Len(mine') /\ Len(mine') \in Nat
         /\ PostAnswer(chunk).code = "stored" => \A row \in chunk : row.seq <= Len(mine')
<1>1. /\ mine' \in Seq(OutboxOp) /\ Len(mine) <= Len(mine')
      /\ \A n \in DOMAIN mine : n \in DOMAIN mine' /\ mine'[n] = mine[n]
      /\ \A n \in DOMAIN mine' :
           \/ n \in DOMAIN mine
           \/ \E row \in FreshOf(chunk) : row.seq = n /\ mine'[n] = OpOf(row)
      /\ PostAnswer(chunk).code = "stored" =>
           \A row \in FreshOf(chunk) : row.seq \in DOMAIN mine' /\ row.seq > Len(mine)
  BY Basics, TakenContinues
<1>2. Len(mine') \in Nat /\ DOMAIN mine' = 1 .. Len(mine')
  BY <1>1
<1>3. \A row \in FreshOf(chunk) :
        \E r \in device.outbox : OpOf(r) = OpOf(row) /\ r.seq = row.seq
  BY DEF FreshOf, Mirrored
<1>4. \A n \in DOMAIN mine' :
        /\ \E r \in device.outbox : r.seq = n
        /\ \A r \in device.outbox : r.seq = n => OpOf(r) = mine'[n]
  <2> SUFFICES ASSUME NEW n \in DOMAIN mine'
               PROVE  /\ \E r \in device.outbox : r.seq = n
                      /\ \A r \in device.outbox : r.seq = n => OpOf(r) = mine'[n]
    OBVIOUS
  <2>1. CASE n \in DOMAIN mine
    <3>1. n \in 1 .. device.authored /\ n <= Len(mine)
      BY <2>1, Basics DEF ChainStored
    <3> QED BY <3>1, <2>1, <1>1 DEF RowsNumbered, ChainStored
  <2>2. CASE \E row \in FreshOf(chunk) : row.seq = n /\ mine'[n] = OpOf(row)
    <3>1. PICK r \in device.outbox : r.seq = n /\ mine'[n] = OpOf(r)
      BY <2>2, <1>3
    <3> QED BY <3>1 DEF RowsNumbered
  <2> QED BY <1>1, <2>1, <2>2
<1>5. Len(mine') <= device.authored
  <2>1. CASE Len(mine') = 0
    BY <2>1, Basics
  <2>2. CASE Len(mine') # 0
    <3>1. Len(mine') \in DOMAIN mine'
      BY <1>2, <2>2
    <3>2. PICK r \in device.outbox : r.seq = Len(mine')
      BY <1>4, <3>1
    <3> QED BY <3>2 DEF RowsNumbered
  <2> QED BY <2>1, <2>2
<1>6. ChainStored'
  <2>1. \A r \in device.outbox : r.seq <= Len(mine') => OpOf(r) = mine'[r.seq]
    BY <1>2, <1>4, Basics
  <2>2. \A r \in device.outbox : r.sent => r.seq <= Len(mine')
    BY <1>1, <1>2, Basics DEF ChainStored
  <2> QED BY <1>5, <2>1, <2>2 DEF ChainStored
<1>7. ASSUME PostAnswer(chunk).code = "stored", NEW row \in chunk PROVE row.seq <= Len(mine')
  <2>1. CASE row \in FreshOf(chunk)
    BY <1>1, <1>2, <1>7, <2>1
  <2>2. CASE row \notin FreshOf(chunk)
    <3>1. PICK n \in DOMAIN mine : OpOf(row) = mine[n]
      BY <2>2 DEF FreshOf, StoredOps
    <3>2. PICK r \in device.outbox : OpOf(r) = OpOf(row) /\ r.seq = row.seq
      BY DEF Mirrored
    <3>3. PICK q \in device.outbox : q.seq = n /\ OpOf(q) = mine[n]
      <4>1. n \in 1 .. device.authored /\ n <= Len(mine)
        BY <3>1, Basics DEF ChainStored
      <4> QED BY <4>1 DEF RowsNumbered, ChainStored
    <3>4. r.id = q.id
      BY <3>1, <3>2, <3>3 DEF OpOf
    <3>5. row.seq = n
      BY <3>2, <3>3, <3>4 DEF RowsNumbered
    <3> QED BY <3>5, <3>1, <1>1, <1>2
  <2> QED BY <2>1, <2>2
<1> QED BY <1>1, <1>2, <1>6, <1>7

LEMMA AnswerMeans ==
  ASSUME NEW chunk
  PROVE  /\ Founding(chunk) /\ founder # Nobody => PostAnswer(chunk).code = "genesis_not_first"
         /\ PostAnswer(chunk).code = "genesis_not_first" => Founding(chunk) /\ founder # Nobody
         /\ PostAnswer(chunk).code = "author_chain_conflict" =>
              PostAnswer(chunk).expected = Len(mine) + 1
         /\ ~(Founding(chunk) /\ founder # Nobody) /\ ~DoorRefuses(chunk) /\ ~ChainConflicts(chunk)
              => PostAnswer(chunk).code = "stored"
<1>1. CASE Founding(chunk) /\ founder # Nobody
  <2>1. PostAnswer(chunk) = [code |-> "genesis_not_first"]
    BY <1>1 DEF PostAnswer
  <2> QED BY <1>1, <2>1
<1>2. CASE ~(Founding(chunk) /\ founder # Nobody) /\ DoorRefuses(chunk)
  <2>1. PostAnswer(chunk) = [code |-> "refused"]
    BY <1>2 DEF PostAnswer
  <2> QED BY <1>2, <2>1
<1>3. CASE ~(Founding(chunk) /\ founder # Nobody) /\ ~DoorRefuses(chunk) /\ ChainConflicts(chunk)
  <2>1. PostAnswer(chunk) = [code |-> "author_chain_conflict", expected |-> Len(mine) + 1]
    BY <1>3 DEF PostAnswer
  <2> QED BY <1>3, <2>1
<1>4. CASE ~(Founding(chunk) /\ founder # Nobody) /\ ~DoorRefuses(chunk) /\ ~ChainConflicts(chunk)
  <2>1. PostAnswer(chunk) = [code |-> "stored"]
    BY <1>4 DEF PostAnswer
  <2> QED BY <1>4, <2>1
<1> QED BY <1>1, <1>2, <1>3, <1>4

\* The founding batch is stored where nobody has founded, and told so where somebody
\* has: nothing in it is refused.
LEMMA FoundingAnswer ==
  ASSUME TypeInv, Unrestored, UnsentGenesis # {}, post.at = "asked"
  PROVE  PostAnswer(post.chunk).code = IF founder = Nobody THEN "stored" ELSE "genesis_not_first"
<1>1. /\ mine = <<>> /\ device.outbox = post.chunk \cup post.rest /\ Founding(post.chunk)
      /\ device.authored <= 2 /\ claim = "flush"
      /\ \A r \in device.outbox :
           ~r.sent /\ r.kind \in {"genesis", "grant"} /\ (r.kind = "genesis" <=> r.seq = 1)
  BY DEF Unrestored, FoundingPhase
<1>2. CASE founder # Nobody
  BY <1>1, <1>2, AnswerMeans
<1>3. CASE founder = Nobody
  <2>1. ~DoorRefuses(post.chunk)
    BY <1>1 DEF DoorRefuses
  <2>2. FreshOf(post.chunk) = post.chunk
    BY <1>1 DEF FreshOf, StoredOps
  <2>3. PICK g \in post.chunk : g.seq = 1
    BY <1>1 DEF Founding
  <2>4. \A row \in post.chunk : row.seq = 1 \/ row.seq = 2
    BY <1>1, Basics DEF Unrestored, RowsNumbered
  <2>5. Len(mine) = 0
    BY <1>1
  <2>6. \A row \in post.chunk : row.seq # Len(mine) + 1 => g.seq = row.seq - 1
    BY <2>3, <2>4, <2>5
  <2>7. \A row, r \in post.chunk : r.seq = row.seq => r = row
    BY <1>1 DEF Unrestored, RowsNumbered
  <2>8. ~ChainConflicts(post.chunk)
    BY <2>2, <2>3, <2>6, <2>7 DEF ChainConflicts
  <2> QED BY <1>3, <2>1, <2>8, AnswerMeans
<1> QED BY <1>2, <1>3

LEMMA PostArrivesUnrestored ==
  ASSUME TypeInv, Unrestored, ~accused, PostArrives
  PROVE  (Unrestored /\ ~accused)'
<1>1. /\ post.at = "asked" /\ ServerTakes(post.chunk)
      /\ post' = [at |-> "answered", chunk |-> post.chunk, rest |-> post.rest,
                  answer |-> PostAnswer(post.chunk)]
      /\ UNCHANGED <<device, claim, delayed, accused, faults>>
  BY DEF PostArrives
<1>2. /\ post.chunk \in SUBSET OutboxRow
      /\ post.chunk \cup post.rest \subseteq Unsent(device) /\ post.chunk \cap post.rest = {}
  BY <1>1, TypeParts DEF Unrestored, InFlight
<1>3. Mirrored(post.chunk)
  BY <1>2 DEF Mirrored, Unsent
<1>4. /\ ChainStored' /\ Len(mine) <= Len(mine') /\ Len(mine') \in Nat
      /\ PostAnswer(post.chunk).code = "stored" => \A row \in post.chunk : row.seq <= Len(mine')
  BY <1>1, <1>2, <1>3, TakenChain DEF Unrestored
<1>5. UnsentGenesis' = UnsentGenesis
  BY <1>1 DEF UnsentGenesis
<1>6. RowsNumbered'
  BY <1>1 DEF Unrestored, RowsNumbered
<1>7. InFlight'
  <2>1. Answered("author_chain_conflict")' =>
          /\ post'.answer.expected \in 1 .. device'.authored + 1
          /\ \A r \in device'.outbox : r.sent => r.seq < post'.answer.expected
    <3> SUFFICES ASSUME Answered("author_chain_conflict")'
                 PROVE  /\ Len(mine) + 1 \in 1 .. device.authored + 1
                        /\ \A r \in device.outbox : r.sent => r.seq < Len(mine) + 1
                        /\ post'.answer.expected = Len(mine) + 1
      BY <1>1
    <3>1. post'.answer.expected = Len(mine) + 1
      BY <1>1, AnswerMeans DEF Answered
    <3> QED BY <3>1, Basics DEF Unrestored, ChainStored
  <2>2. Answered("genesis_not_first")' => Founding(post'.chunk)
    BY <1>1, AnswerMeans DEF Answered
  <2>3. Answered("stored")' => \A row \in post'.chunk : row.seq <= Len(mine')
    BY <1>1, <1>4 DEF Answered
  <2>4. /\ post'.chunk \cup post'.rest \subseteq Unsent(device') /\ post'.chunk \cap post'.rest = {}
        /\ \A chunk \in delayed' : Mirrored(chunk)'
    BY <1>1, <1>2 DEF Unrestored, InFlight, Mirrored
  <2>5. Len(mine)' = Len(mine')
    OBVIOUS
  <2> QED BY <2>1, <2>2, <2>3, <2>4 DEF InFlight
<1>8. founder' # founder => founder' = "me"
  BY <1>1 DEF ServerTakes
<1>9. World'
  BY <1>1, <1>8 DEF Unrestored, World, Nobody
<1>10. FoundingPhase'
  <2> SUFFICES ASSUME UnsentGenesis # {} PROVE FoundingPhase'
    BY <1>5 DEF FoundingPhase
  <2>1. PostAnswer(post.chunk).code \in {"stored", "genesis_not_first"} /\ claim # "grant"
    BY <1>1, FoundingAnswer DEF Unrestored, FoundingPhase
  <2>2. PostAnswer(post.chunk).code = "genesis_not_first" => mine' = <<>>
    BY <1>1 DEF ServerTakes, Unrestored, FoundingPhase
  <2>3. /\ post'.at = "answered" /\ post'.chunk = post.chunk /\ post'.rest = post.rest
        /\ Answered("stored")' \/ (Answered("genesis_not_first")' /\ mine' = <<>>)
    BY <1>1, <2>1, <2>2 DEF Answered
  <2> QED BY <1>1, <2>1, <2>3 DEF Unrestored, FoundingPhase, Founding
<1>11. founder' # Nobody
  <2>1. CASE founder # Nobody
    BY <1>8, <2>1 DEF Nobody
  <2>2. CASE founder = Nobody
    <3>1. UnsentGenesis # {}
      BY <1>1, <2>2 DEF Unrestored, Beginning
    <3>2. PostAnswer(post.chunk).code = "stored" /\ Founding(post.chunk)
      BY <1>1, <2>2, <3>1, FoundingAnswer DEF Unrestored, FoundingPhase
    <3> QED BY <1>1, <3>2 DEF ServerTakes, Nobody
  <2> QED BY <2>1, <2>2
<1>12. Beginning'
  BY <1>1, <1>11 DEF Unrestored, Beginning
<1> QED BY <1>1, <1>4, <1>6, <1>7, <1>9, <1>10, <1>12 DEF Unrestored

LEMMA DelayedUnrestored ==
  ASSUME TypeInv, Unrestored, ~accused, NEW chunk \in delayed, DelayedArrives(chunk)
  PROVE  (Unrestored /\ ~accused)'
<1>1. /\ ServerTakes(chunk) /\ delayed' \subseteq delayed
      /\ UNCHANGED <<device, claim, post, accused, faults>>
  BY DEF DelayedArrives
<1>2. chunk \in SUBSET OutboxRow /\ Mirrored(chunk)
  BY TypeParts DEF Unrestored, InFlight
<1>3. ChainStored' /\ Len(mine) <= Len(mine') /\ Len(mine') \in Nat
  BY <1>1, <1>2, TakenChain DEF Unrestored
<1>4. founder # Nobody /\ claim # "genesis" /\ \A r \in device.outbox : r.kind # "genesis"
  BY DEF Unrestored, World
<1>5. founder' # Nobody
  BY <1>1, <1>4 DEF ServerTakes, Nobody
<1>6. UnsentGenesis' = {}
  BY <1>1, <1>4 DEF UnsentGenesis, Unsent
<1>7. RowsNumbered' /\ World' /\ FoundingPhase' /\ Beginning'
  BY <1>1, <1>4, <1>5, <1>6 DEF Unrestored, RowsNumbered, World, FoundingPhase, Beginning
<1>8. InFlight'
  <2>1. Answered("stored")' => \A row \in post'.chunk : row.seq <= Len(mine')
    <3>1. ASSUME Answered("stored")' PROVE \A row \in post'.chunk : row.seq <= Len(mine')
      <4>1. post'.chunk = post.chunk /\ post.chunk \in SUBSET OutboxRow
            /\ \A row \in post.chunk : row.seq <= Len(mine)
        BY <1>1, <3>1, TypeParts DEF Answered, Unrestored, InFlight
      <4>2. \A row \in post.chunk : row.seq \in Nat
        BY <4>1, Basics
      <4> QED BY <4>1, <4>2, <1>3, Basics
    <3> QED BY <3>1
  <2> QED BY <1>1, <2>1 DEF Unrestored, InFlight, Answered, Mirrored, Founding
<1> QED BY <1>1, <1>3, <1>7, <1>8 DEF Unrestored

LEMMA FlushUnrestored ==
  ASSUME TypeInv, Unrestored, ~accused, Flush
  PROVE  (Unrestored /\ ~accused)'
<1> DEFINE rows == Unsent(device)
<1>1. /\ post.at = "rest" /\ (Enrolled \/ claim = "flush") /\ rows # {}
      /\ post' = Asking(rows)
      /\ UNCHANGED <<device, claim, delayed, mine, founder, accused, faults>>
  BY DEF Flush
<1>2. /\ post'.at = "asked" /\ post'.chunk = ChunkOf(rows) /\ post'.rest = rows \ ChunkOf(rows)
      /\ ChunkOf(rows) \subseteq rows
  <2> HIDE DEF rows
  <2> QED BY <1>1, AskingRows DEF Asking
<1>3. UnsentGenesis' = UnsentGenesis
  BY <1>1 DEF UnsentGenesis
<1>4. RowsNumbered' /\ ChainStored' /\ World'
  BY <1>1 DEF Unrestored, RowsNumbered, ChainStored, World
<1>5. InFlight'
  <2>1. post'.chunk \cup post'.rest \subseteq Unsent(device') /\ post'.chunk \cap post'.rest = {}
    BY <1>1, <1>2
  <2>2. \A c : ~Answered(c)'
    BY <1>2 DEF Answered
  <2> QED BY <1>1, <2>1, <2>2 DEF Unrestored, InFlight, Mirrored
<1>6. FoundingPhase'
  <2> SUFFICES ASSUME UnsentGenesis # {} PROVE FoundingPhase'
    BY <1>3 DEF FoundingPhase
  <2>1. /\ claim = "flush" /\ mine = <<>> /\ device.logged = 0 /\ device.authored <= 2
        /\ \A r \in device.outbox :
             ~r.sent /\ r.kind \in {"genesis", "grant"} /\ (r.kind = "genesis" <=> r.seq = 1)
    BY <1>1 DEF Unrestored, FoundingPhase, Enrolled
  <2>2. device.outbox = rows
    BY <2>1 DEF Unsent
  <2>3. PICK g \in rows : g.kind = "genesis" /\ g.seq = 1
    BY <2>1, <2>2 DEF UnsentGenesis
  <2>4. {r \in rows : Precedes(r, g)} = {}
    <3> SUFFICES ASSUME NEW r \in rows, Precedes(r, g) PROVE FALSE
      OBVIOUS
    <3>1. r \in device.outbox /\ g \in device.outbox /\ r.seq \in Nat \ {0}
          /\ r.id \in Nat /\ g.id \in Nat
      BY <2>2, Basics
    <3>2. r.seq = g.seq /\ r.id < g.id
      BY <2>3, <3>1 DEF Precedes
    <3>3. r = g
      BY <3>1, <3>2 DEF Unrestored, RowsNumbered
    <3> QED BY <3>1, <3>2, <3>3
  <2>5. g \in ChunkOf(rows)
    <3>1. Cardinality({r \in rows : Precedes(r, g)}) = 0
      BY <2>4, FS_EmptySet
    <3>2. 0 < BatchLimit
      BY OutboxAssumption DEF OutboxAssumption
    <3> HIDE DEF rows
    <3> QED BY <3>1, <3>2 DEF ChunkOf
  <2>6. Founding(post'.chunk)
    BY <1>2, <2>3, <2>5 DEF Founding
  <2>7. device'.outbox = post'.chunk \cup post'.rest
    BY <1>1, <1>2, <2>2
  <2> QED BY <1>1, <1>2, <2>1, <2>6, <2>7 DEF FoundingPhase
<1>7. Beginning'
  <2>1. founder = Nobody => claim = "flush" /\ UnsentGenesis # {}
    BY <1>1 DEF Unrestored, Beginning, Enrolled
  <2>2. claim # "genesis"
    BY <1>1 DEF Enrolled
  <2> QED BY <1>1, <1>2, <1>3, <2>1, <2>2 DEF Unrestored, Beginning
<1> QED BY <1>1, <1>4, <1>5, <1>6, <1>7 DEF Unrestored

LEMMA MarkSentUnrestored ==
  ASSUME TypeInv, Unrestored, ~accused, MarkSent
  PROVE  (Unrestored /\ ~accused)'
<1> DEFINE mark(row) == IF row \in post.chunk THEN [row EXCEPT !.sent = TRUE] ELSE row
           marked == {mark(row) : row \in device.outbox}
<1>1. /\ Answered("stored") /\ post' = Asking(post.rest)
      /\ claim' = (IF post.rest = {} /\ claim = "flush" THEN "pull" ELSE claim)
      /\ UNCHANGED <<delayed, mine, founder, accused, faults>>
  BY DEF MarkSent
<1>2. /\ post.chunk \cup post.rest \subseteq Unsent(device) /\ post.chunk \cap post.rest = {}
      /\ \A row \in post.chunk : row.seq <= Len(mine)
  BY <1>1 DEF Unrestored, InFlight, Answered
<1>3. post.chunk \in SUBSET device.outbox /\ post.rest \in SUBSET device.outbox
      /\ \A row \in post.chunk \cup post.rest : row.sent = FALSE
  <2>1. \A row \in Unsent(device) : row \in device.outbox /\ ~row.sent
    BY DEF Unsent
  <2> QED BY <1>2, <2>1, Basics
<1>4. device' = [device EXCEPT !.outbox = marked]
  <2>1. device' = [device EXCEPT !.outbox =
          {IF InRows(row, post.chunk) THEN [row EXCEPT !.sent = TRUE] ELSE row : row \in device.outbox}]
    BY Basics DEF MarkSent, Tables
  <2>2. \A row \in device.outbox : InRows(row, post.chunk) <=> row \in post.chunk
    BY <1>3, InRowsIsMember DEF Unrestored
  <2>3. {IF InRows(row, post.chunk) THEN [row EXCEPT !.sent = TRUE] ELSE row : row \in device.outbox}
          = marked
    BY <2>2
  <2> QED BY <2>1, <2>3
<1>5. \A row \in OutboxRow :
        /\ mark(row).id = row.id /\ mark(row).seq = row.seq /\ mark(row).kind = row.kind
        /\ OpOf(mark(row)) = OpOf(row)
        /\ mark(row).sent = (row.sent \/ row \in post.chunk)
  BY DEF OutboxRow, OpOf
<1>6. /\ \A q \in marked : \E row \in device.outbox : q = mark(row)
      /\ \A row \in device.outbox : mark(row) \in marked
  OBVIOUS
<1>7. \A row \in device.outbox \ post.chunk : mark(row) = row
  OBVIOUS
<1> HIDE DEF mark, marked
<1>8. /\ device'.outbox = marked /\ device'.authored = device.authored
      /\ device'.logged = device.logged /\ device'.founded = device.founded
  BY <1>4, Basics DEF Tables
<1>9. \A q \in marked : \E row \in device.outbox :
        /\ q = mark(row) /\ row \in OutboxRow
        /\ q.id = row.id /\ q.seq = row.seq /\ q.kind = row.kind /\ OpOf(q) = OpOf(row)
        /\ q.sent = (row.sent \/ row \in post.chunk)
  BY <1>5, <1>6, Basics
<1>10. RowsNumbered'
  <2>1. \A r, q \in marked : r.id = q.id \/ r.seq = q.seq => r = q
    <3> SUFFICES ASSUME NEW r \in marked, NEW q \in marked, r.id = q.id \/ r.seq = q.seq
                 PROVE  r = q
      OBVIOUS
    <3>1. PICK a \in device.outbox : r = mark(a) /\ r.id = a.id /\ r.seq = a.seq
      BY <1>9
    <3>2. PICK b \in device.outbox : q = mark(b) /\ q.id = b.id /\ q.seq = b.seq
      BY <1>9
    <3>3. a = b
      BY <3>1, <3>2 DEF Unrestored, RowsNumbered
    <3> QED BY <3>1, <3>2, <3>3
  <2>2. \A r \in marked : r.seq <= device.authored
    BY <1>9 DEF Unrestored, RowsNumbered
  <2>3. \A n \in 1 .. device.authored : \E r \in marked : r.seq = n
    BY <1>5, <1>6, Basics DEF Unrestored, RowsNumbered
  <2> QED BY <1>8, <2>1, <2>2, <2>3 DEF RowsNumbered
<1>11. ChainStored'
  <2>1. \A r \in marked : r.seq <= Len(mine) => OpOf(r) = mine[r.seq]
    BY <1>9 DEF Unrestored, ChainStored
  <2>2. \A r \in marked : r.sent => r.seq <= Len(mine)
    BY <1>2, <1>9 DEF Unrestored, ChainStored
  <2> QED BY <1>1, <1>8, <2>1, <2>2 DEF Unrestored, ChainStored
<1>12. Unsent(device') = Unsent(device) \ post.chunk
  <2>1. ASSUME NEW q \in Unsent(device') PROVE q \in Unsent(device) \ post.chunk
    <3>1. q \in marked /\ ~q.sent
      BY <1>8 DEF Unsent
    <3>2. PICK row \in device.outbox : q = mark(row) /\ q.sent = (row.sent \/ row \in post.chunk)
      BY <1>9, <3>1
    <3>3. row \notin post.chunk /\ ~row.sent
      BY <3>1, <3>2
    <3>4. q = row
      BY <1>7, <3>2, <3>3
    <3> QED BY <3>3, <3>4 DEF Unsent
  <2>2. ASSUME NEW row \in Unsent(device) \ post.chunk PROVE row \in Unsent(device')
    <3>1. row \in device.outbox /\ ~row.sent
      BY DEF Unsent
    <3> QED BY <1>6, <1>7, <1>8, <3>1 DEF Unsent
  <2> QED BY <2>1, <2>2
<1>13. /\ post'.at # "answered"
       /\ post'.at # "rest" =>
            post'.chunk \cup post'.rest \subseteq post.rest /\ post'.chunk \cap post'.rest = {}
  BY <1>1, AskingRows
<1>14. InFlight'
  <2>1. post'.at # "rest" =>
          post'.chunk \cup post'.rest \subseteq Unsent(device') /\ post'.chunk \cap post'.rest = {}
    BY <1>2, <1>12, <1>13
  <2>2. \A c : ~Answered(c)'
    BY <1>13 DEF Answered
  <2>3. \A chunk \in delayed' : Mirrored(chunk)'
    <3> SUFFICES ASSUME NEW chunk \in delayed, NEW row \in chunk
                 PROVE  \E r \in marked : OpOf(r) = OpOf(row) /\ r.seq = row.seq
      BY <1>1, <1>8 DEF Mirrored
    <3>1. PICK r \in device.outbox : OpOf(r) = OpOf(row) /\ r.seq = row.seq
      BY DEF Unrestored, InFlight, Mirrored
    <3>2. mark(r) \in marked /\ OpOf(mark(r)) = OpOf(r) /\ mark(r).seq = r.seq
      BY <1>5, <1>6, Basics
    <3> QED BY <3>1, <3>2
  <2> QED BY <1>1, <2>1, <2>2, <2>3 DEF InFlight
<1>15. UnsentGenesis' = {}
  <2>1. ASSUME NEW g \in UnsentGenesis PROVE g \in post.chunk
    <3>1. /\ device.outbox = post.chunk \cup post.rest /\ Founding(post.chunk)
          /\ \A r \in device.outbox : r.kind = "genesis" <=> r.seq = 1
      BY <1>1, <2>1 DEF Unrestored, FoundingPhase, Answered
    <3>2. PICK h \in post.chunk : h.kind = "genesis"
      BY <3>1 DEF Founding
    <3>3. g \in device.outbox /\ g.kind = "genesis" /\ h \in device.outbox
      BY <1>3 DEF UnsentGenesis, Unsent
    <3>4. g = h
      BY <3>1, <3>2, <3>3 DEF Unrestored, RowsNumbered
    <3> QED BY <3>4
  <2> QED BY <1>12, <2>1 DEF UnsentGenesis
<1>16. founder # Nobody
  BY <1>1 DEF Unrestored, Beginning, Answered
<1>17. claim # "genesis" /\ claim' # "genesis"
  BY <1>1 DEF Unrestored, Beginning, Answered
<1>18. World'
  <2>1. (\A r \in device.outbox : r.kind # "genesis") => \A r \in marked : r.kind # "genesis"
    BY <1>9
  <2> QED BY <1>1, <1>8, <1>16, <1>17, <2>1 DEF Unrestored, World
<1>19. FoundingPhase' /\ Beginning'
  BY <1>1, <1>15, <1>16, <1>17 DEF FoundingPhase, Beginning
<1> QED BY <1>1, <1>10, <1>11, <1>14, <1>18, <1>19 DEF Unrestored

LEMMA DropUnrestored ==
  ASSUME TypeInv, Unrestored, ~accused, DropSupersededGenesis
  PROVE  (Unrestored /\ ~accused)'
<1> DEFINE kept == {row \in device.outbox : ~InRows(row, post.chunk \cup post.rest)}
<1>1. /\ Answered("genesis_not_first") /\ post' = Resting
      /\ claim' = (IF claim = "flush" THEN "again" ELSE claim)
      /\ UNCHANGED <<delayed, mine, founder, accused, faults>>
  BY DEF DropSupersededGenesis
<1>2. /\ post.at = "answered" /\ post.chunk \cup post.rest \subseteq Unsent(device)
      /\ Founding(post.chunk)
  BY <1>1 DEF Unrestored, InFlight, Answered
<1>3. UnsentGenesis # {}
  BY <1>2 DEF Founding, UnsentGenesis
<1>4. ~Answered("stored")
  BY <1>1 DEF Answered
<1>5. /\ device.outbox = post.chunk \cup post.rest /\ mine = <<>> /\ device.logged = 0
      /\ claim = "flush"
  BY <1>2, <1>3, <1>4 DEF Unrestored, FoundingPhase
<1>6. kept = {}
  BY <1>5 DEF InRows
<1>7. device' = [device EXCEPT !.outbox = kept, !.authored = device.logged]
  BY Basics DEF DropSupersededGenesis, Tables
<1>8. /\ device'.outbox = {} /\ device'.authored = 0
      /\ device'.logged = 0 /\ device'.founded = device.founded
  <2> HIDE DEF kept
  <2> QED BY <1>5, <1>6, <1>7, Basics DEF Tables
<1>9. claim' = "again" /\ post'.at = "rest"
  BY <1>1, <1>5 DEF Resting
<1>10. founder # Nobody
  BY <1>2 DEF Unrestored, Beginning
<1>11. UnsentGenesis' = {}
  BY <1>8 DEF UnsentGenesis, Unsent
<1>12. delayed = {}
  BY <1>3 DEF Unrestored, World, UnsentGenesis, Unsent
<1>13. RowsNumbered' /\ ChainStored' /\ World' /\ FoundingPhase' /\ Beginning'
  <2>1. Len(mine) = 0
    BY <1>5
  <2>2. RowsNumbered'
    BY <1>8 DEF RowsNumbered
  <2>3. ChainStored'
    BY <1>1, <1>8, <2>1 DEF ChainStored
  <2> QED BY <1>1, <1>8, <1>9, <1>10, <1>11, <2>2, <2>3
          DEF Unrestored, World, FoundingPhase, Beginning
<1>14. InFlight'
  BY <1>1, <1>9, <1>12 DEF InFlight, Answered
<1> QED BY <1>1, <1>13, <1>14 DEF Unrestored

LEMMA RefusedUnrestored ==
  ASSUME TypeInv, Unrestored, ~accused, RecordOwnWritesVerdict \/ Rethrow
  PROVE  (Unrestored /\ ~accused)'
<1>1. /\ post.at = "answered" /\ ~Answered("stored") /\ ~Answered("genesis_not_first")
      /\ post' = Resting /\ claim' \in {claim, "pull", "none"}
      /\ UNCHANGED <<device, delayed, mine, founder, faults>>
  BY DEF RecordOwnWritesVerdict, Rethrow, Answered
<1>2. UnsentGenesis = {} /\ UnsentGenesis' = {}
  BY <1>1 DEF Unrestored, FoundingPhase, UnsentGenesis
<1>3. founder # Nobody /\ claim # "genesis"
  BY <1>1 DEF Unrestored, Beginning
<1>4. ~accused'
  <2>1. CASE Rethrow
    BY <2>1 DEF Rethrow
  <2>2. CASE RecordOwnWritesVerdict
    <3> DEFINE expected == post.answer.expected
               sent == {row.seq : row \in device.outbox \ Unsent(device)}
    <3>1. /\ expected \in 1 .. device.authored + 1
          /\ \A r \in device.outbox : r.sent => r.seq < expected
      BY <2>2 DEF RecordOwnWritesVerdict, Unrestored, InFlight
    <3>2. \A n \in sent : n < expected
      BY <3>1, Basics DEF Unsent
    <3>3. Acknowledged(device) = (IF sent = {} THEN 0 ELSE CHOOSE n \in sent : \A o \in sent : o <= n)
      BY DEF Acknowledged
    <3>4. sent \in SUBSET (0 .. device.authored)
      BY Basics DEF Unrestored, RowsNumbered
    <3>5. Acknowledged(device) < expected /\ Acknowledged(device) \in Nat
      <4> HIDE DEF sent, expected
      <4>1. CASE sent = {}
        BY <3>1, <3>3, <4>1, Basics DEF expected
      <4>2. CASE sent # {}
        <5>1. \E n \in sent : \A o \in sent : o <= n
          BY <3>4, <4>2, Basics, Greatest
        <5>2. Acknowledged(device) \in sent
          BY <3>3, <4>2, <5>1
        <5>3. Acknowledged(device) \in 0 .. device.authored
          BY <3>4, <5>2
        <5>4. Acknowledged(device) < expected
          BY <3>2, <5>2
        <5> QED BY <5>3, <5>4
      <4> QED BY <4>1, <4>2
    <3>6. ~(expected <= Acknowledged(device)) /\ ~(expected > device.authored + 1)
      BY <3>1, <3>5, Basics
    <3> QED BY <2>2, <3>6 DEF RecordOwnWritesVerdict
  <2> QED BY <2>1, <2>2
<1>5. RowsNumbered' /\ ChainStored'
  BY <1>1 DEF Unrestored, RowsNumbered, ChainStored
<1>6. InFlight'
  BY <1>1 DEF Unrestored, InFlight, Answered, Resting, Mirrored
<1>7. World' /\ FoundingPhase' /\ Beginning'
  BY <1>1, <1>2, <1>3 DEF Unrestored, World, FoundingPhase, Beginning
<1> QED BY <1>4, <1>5, <1>6, <1>7 DEF Unrestored

LEMMA GiveUpUnrestored ==
  ASSUME TypeInv, Unrestored, ~accused, GiveUp
  PROVE  (Unrestored /\ ~accused)'
<1>1. /\ faults < MaxFaults /\ post' = Resting /\ claim' = "none"
      /\ delayed' \subseteq delayed \cup {post.chunk}
      /\ delayed' # delayed => post.at # "rest"
      /\ UNCHANGED <<device, mine, founder, accused>>
  BY DEF GiveUp
<1>2. founder # Nobody /\ \A r \in device.outbox : r.kind # "genesis"
  BY <1>1, TypeParts, OutboxAssumption DEF Unrestored, World, OutboxAssumption
<1>3. UnsentGenesis' = {}
  BY <1>1, <1>2 DEF UnsentGenesis, Unsent
<1>4. post.at # "rest" => Mirrored(post.chunk)
  BY DEF Unrestored, InFlight, Mirrored, Unsent
<1>5. RowsNumbered' /\ ChainStored'
  BY <1>1 DEF Unrestored, RowsNumbered, ChainStored
<1>6. InFlight'
  <2>1. \A chunk \in delayed' : Mirrored(chunk)'
    BY <1>1, <1>4 DEF Unrestored, InFlight, Mirrored
  <2> QED BY <1>1, <2>1 DEF InFlight, Answered, Resting
<1>7. World' /\ FoundingPhase' /\ Beginning'
  BY <1>1, <1>2, <1>3 DEF Unrestored, World, FoundingPhase, Beginning
<1> QED BY <1>1, <1>5, <1>6, <1>7 DEF Unrestored

LEMMA RivalUnrestored ==
  ASSUME TypeInv, Unrestored, ~accused, RivalFounds
  PROVE  (Unrestored /\ ~accused)'
<1>1. /\ founder = Nobody /\ founder' # Nobody
      /\ UNCHANGED <<device, claim, post, delayed, mine, accused, faults>>
  BY DEF RivalFounds, Nobody
<1>2. UnsentGenesis' = UnsentGenesis
  BY <1>1 DEF UnsentGenesis
<1>3. RowsNumbered' /\ ChainStored' /\ World'
  BY <1>1 DEF Unrestored, RowsNumbered, ChainStored, World
<1>4. InFlight'
  BY <1>1 DEF Unrestored, InFlight, Answered, Mirrored
<1>5. FoundingPhase' /\ Beginning'
  BY <1>1, <1>2 DEF Unrestored, FoundingPhase, Beginning, Answered, Blank
<1> QED BY <1>1, <1>3, <1>4, <1>5 DEF Unrestored

LEMMA QuietUnrestored ==
  ASSUME TypeInv, Unrestored, ~accused,
         ClaimPullRefused \/ \E why \in {"revoked", "rotated"} : DoorShuts(why)
  PROVE  (Unrestored /\ ~accused)'
<1>1. /\ UNCHANGED <<device, post, delayed, mine, founder, accused>>
      /\ faults' = faults \/ faults # MaxFaults
      /\ claim' = claim \/ (claim \in {"pull", "again"} /\ claim' = "none")
  BY TypeParts, OutboxAssumption DEF ClaimPullRefused, DoorShuts, OutboxAssumption
<1>2. UnsentGenesis' = UnsentGenesis
  BY <1>1 DEF UnsentGenesis
<1>3. RowsNumbered' /\ ChainStored' /\ InFlight' /\ World'
  BY <1>1 DEF Unrestored, RowsNumbered, ChainStored, InFlight, Answered, Mirrored, World
<1>4. FoundingPhase' /\ Beginning'
  BY <1>1, <1>2 DEF Unrestored, FoundingPhase, Beginning, Answered, Blank
<1> QED BY <1>1, <1>3, <1>4 DEF Unrestored

LEMMA OutboxInductive == OutboxInv /\ [OutboxNext]_outboxVars => OutboxInv'
<1> SUFFICES ASSUME OutboxInv, [OutboxNext]_outboxVars PROVE OutboxInv'
  OBVIOUS
<1>1. TypeInv /\ TypeInv'
  BY TypeInductive DEF OutboxInv
<1> SUFFICES ASSUME ~restored' PROVE (Unrestored /\ ~accused)'
  BY <1>1 DEF OutboxInv
<1>2. ~Restore
  BY DEF Restore
<1>3. Unrestored /\ ~accused
  <2>1. restored' = restored
    BY <1>2 DEF OutboxNext, Running, outboxVars, ClaimFirst, ClaimGrant, ClaimPullBack, Flush,
      PostArrives, MarkSent, DropSupersededGenesis, RecordOwnWritesVerdict, Rethrow, ClaimPull,
      Capture, Pull, DelayedArrives, RivalFounds, DoorShuts, ClaimPullRefused, GiveUp, SaveBackup
  <2> QED BY <2>1 DEF OutboxInv
<1>4. CASE Pull \/ ClaimPull \/ ClaimPullBack
  BY <1>1, <1>3, <1>4, PulledUnrestored
<1>5. CASE ClaimFirst \/ ClaimGrant \/ Capture
  BY <1>1, <1>3, <1>5, AuthoredUnrestored
<1>6. CASE PostArrives
  BY <1>1, <1>3, <1>6, PostArrivesUnrestored
<1>7. CASE \E chunk \in delayed : DelayedArrives(chunk)
  BY <1>1, <1>3, <1>7, DelayedUnrestored
<1>8. CASE RivalFounds
  BY <1>1, <1>3, <1>8, RivalUnrestored
<1>9. CASE Flush
  BY <1>1, <1>3, <1>9, FlushUnrestored
<1>10. CASE MarkSent
  BY <1>1, <1>3, <1>10, MarkSentUnrestored
<1>11. CASE DropSupersededGenesis
  BY <1>1, <1>3, <1>11, DropUnrestored
<1>12. CASE RecordOwnWritesVerdict \/ Rethrow
  BY <1>1, <1>3, <1>12, RefusedUnrestored
<1>13. CASE GiveUp
  BY <1>1, <1>3, <1>13, GiveUpUnrestored
<1>15. CASE ClaimPullRefused \/ \E why \in {"revoked", "rotated"} : DoorShuts(why)
  BY <1>1, <1>3, <1>15, QuietUnrestored
<1>14. CASE SaveBackup \/ UNCHANGED outboxVars
  <2>1. UNCHANGED <<device, claim, post, delayed, mine, founder, accused, faults>>
    BY <1>14 DEF SaveBackup, outboxVars
  <2>2. UnsentGenesis' = UnsentGenesis
    BY <2>1 DEF UnsentGenesis
  <2>3. RowsNumbered' /\ ChainStored' /\ World' /\ InFlight'
    BY <1>3, <2>1 DEF Unrestored, RowsNumbered, ChainStored, World, InFlight, Answered, Mirrored
  <2>4. FoundingPhase' /\ Beginning'
    BY <1>3, <2>1, <2>2 DEF Unrestored, FoundingPhase, Beginning, Answered, Blank
  <2> QED BY <1>3, <2>1, <2>3, <2>4 DEF Unrestored
<1> QED BY <1>2, <1>4, <1>5, <1>6, <1>7, <1>8, <1>9, <1>10, <1>11, <1>12, <1>13, <1>14, <1>15
        DEF OutboxNext, Running

LEMMA OutboxInitInv == OutboxInit /\ FoundsWithoutLoss => OutboxInv
<1> SUFFICES ASSUME OutboxInit, FoundsWithoutLoss PROVE OutboxInv
  OBVIOUS
<1>1. TypeInv
  BY InitTypes
<1>2. /\ device.outbox = {} /\ device.authored = 0 /\ device.logged = 0 /\ device.founded = FALSE
      /\ post.at = "rest" /\ claim = "none" /\ delayed = {} /\ mine = <<>> /\ ~accused
      /\ founder = Nobody => faults = MaxFaults
  BY DEF OutboxInit, EmptyDevice, Resting, FoundsWithoutLoss
<1>3. UnsentGenesis = {}
  BY <1>2 DEF UnsentGenesis, Unsent
<1>4. RowsNumbered /\ ChainStored
  <2>1. Len(mine) = 0
    BY <1>2
  <2> QED BY <1>2, <2>1 DEF RowsNumbered, ChainStored
<1>5. InFlight /\ World /\ FoundingPhase /\ Beginning
  BY <1>2, <1>3 DEF InFlight, Answered, World, FoundingPhase, Beginning, Blank
<1> QED BY <1>1, <1>2, <1>4, <1>5 DEF OutboxInv, Unrestored

\* In every run of a device that joins, or founds while nothing is lost: a position
\* it has spent holds one op for good, and what it was told is stored is stored.
THEOREM OutboxPositionsHeld == OutboxSpec /\ FoundsWithoutLoss => []SpentPositionsHeld
<1>1. OutboxInv => SpentPositionsHeld
  <2> SUFFICES ASSUME OutboxInv, ~restored PROVE SpentPositionsHeld
    BY DEF SpentPositionsHeld
  <2>1. RowsNumbered /\ ChainStored
    BY DEF OutboxInv, Unrestored
  <2>2. ASSUME NEW n \in 1 .. device.authored
        PROVE  LET here == {OpOf(row) : row \in {r \in device.outbox : r.seq = n}}
               IN Cardinality(here) = 1 /\ (n <= Len(mine) => here = {mine[n]})
    <3> DEFINE here == {OpOf(row) : row \in {r \in device.outbox : r.seq = n}}
    <3>1. PICK r \in device.outbox : r.seq = n
      BY <2>1 DEF RowsNumbered
    <3>2. here = {OpOf(r)}
      BY <2>1, <3>1 DEF RowsNumbered
    <3>3. Cardinality(here) = 1
      BY <3>2, FS_Singleton
    <3>4. n <= Len(mine) => here = {mine[n]}
      BY <2>1, <3>1, <3>2 DEF ChainStored
    <3> QED BY <3>3, <3>4
  <2> QED BY <2>1, <2>2 DEF SpentPositionsHeld, ChainStored
<1> QED BY <1>1, OutboxInitInv, OutboxInductive, PTL DEF OutboxSpec

\* In the same runs a device is told that its history was rolled back or rewritten
\* only where its own database was put back.
THEOREM OutboxAccusesRestored == OutboxSpec /\ FoundsWithoutLoss => []OnlyRestoredAreAccused
<1>1. OutboxInv => OnlyRestoredAreAccused
  BY DEF OutboxInv, OnlyRestoredAreAccused
<1> QED BY <1>1, OutboxInitInv, OutboxInductive, PTL DEF OutboxSpec

-----------------------------------------------------------------------------
(* The chain the device writes.                                             *)

\* Every step leaves the chain at the server alone, or lengthens it at its end and
\* leaves the outbox alone.
LEMMA ChainStep ==
  ASSUME TypeInv, [OutboxNext]_outboxVars
  PROVE  \/ mine' = mine
         \/ WrittenLog!Extends(mine', mine) /\ device' = device
<1>1. mine \in Seq(OutboxOp) /\ DOMAIN mine = 1 .. Len(mine)
  BY Basics
<1>2. ASSUME NEW chunk \in SUBSET OutboxRow, ServerTakes(chunk)
      PROVE  WrittenLog!Extends(mine', mine)
  BY <1>1, <1>2, TakenContinues DEF WrittenLog!Extends
<1>3. CASE PostArrives
  <2>1. post.chunk \in SUBSET OutboxRow
    BY <1>3 DEF PostArrives, TypeInv, OutboxTypeOK
  <2> QED BY <1>2, <1>3, <2>1 DEF PostArrives
<1>4. CASE \E chunk \in delayed : DelayedArrives(chunk)
  <2>1. PICK chunk \in delayed : DelayedArrives(chunk)
    BY <1>4
  <2>2. chunk \in SUBSET OutboxRow
    BY DEF TypeInv, OutboxTypeOK
  <2> QED BY <1>2, <2>1, <2>2 DEF DelayedArrives
<1>5. CASE ~PostArrives /\ ~(\E chunk \in delayed : DelayedArrives(chunk))
  BY <1>5 DEF OutboxNext, Running, outboxVars, ClaimFirst, ClaimGrant, ClaimPullBack, Flush,
     MarkSent, DropSupersededGenesis, RecordOwnWritesVerdict, Rethrow, ClaimPull,
     Capture, Pull, RivalFounds, DoorShuts, ClaimPullRefused, GiveUp, SaveBackup, Restore
<1> QED BY <1>3, <1>4, <1>5

\* Until the database is put back, nothing the outbox marks as sent loses its mark.
LEMMA ToldStays ==
  ASSUME OutboxInv, ~restored', [OutboxNext]_outboxVars
  PROVE  toldStored \subseteq toldStored'
<1>1. ~Restore
  BY DEF Restore
<1>2. TypeInv /\ Unrestored
  <2>1. restored' = restored
    BY <1>1 DEF OutboxNext, Running, outboxVars, ClaimFirst, ClaimGrant, ClaimPullBack, Flush,
      PostArrives, MarkSent, DropSupersededGenesis, RecordOwnWritesVerdict, Rethrow, ClaimPull,
      Capture, Pull, DelayedArrives, RivalFounds, DoorShuts, ClaimPullRefused, GiveUp, SaveBackup
  <2> QED BY <2>1 DEF OutboxInv
<1>3. device \in Tables /\ device.outbox \in SUBSET OutboxRow
  BY <1>2, Basics
<1>4. ASSUME device.outbox \subseteq device'.outbox PROVE toldStored \subseteq toldStored'
  BY <1>4 DEF toldStored, Unsent
<1>5. CASE Pull \/ ClaimPull \/ ClaimPullBack
  <2>1. device' = Pulled(device)
    BY <1>5 DEF Pull, ClaimPull, ClaimPullBack
  <2>2. device'.outbox = device.outbox
    BY <1>3, <2>1 DEF Pulled, Tables
  <2> QED BY <1>4, <2>2
<1>6. CASE ClaimFirst \/ ClaimGrant \/ Capture
  <2>1. \E id, kind : device' = Authored(device, id, kind)
    BY <1>6 DEF ClaimFirst, ClaimGrant, Capture
  <2>2. device.outbox \subseteq device'.outbox
    BY <1>3, <2>1 DEF Authored, Tables
  <2> QED BY <1>4, <2>2
<1>7. CASE MarkSent
  <2> DEFINE mark(row) == IF InRows(row, post.chunk) THEN [row EXCEPT !.sent = TRUE] ELSE row
  <2>1. device'.outbox = {mark(row) : row \in device.outbox}
    BY <1>3, <1>7 DEF MarkSent, Tables
  <2>2. ASSUME NEW row \in device.outbox, row.sent
        PROVE  mark(row) \in device'.outbox \ Unsent(device') /\ OpOf(mark(row)) = OpOf(row)
    <3>1. row \in OutboxRow
      BY <1>3
    <3>2. mark(row) = row
      BY <2>2, <3>1 DEF OutboxRow
    <3> HIDE DEF mark
    <3>3. mark(row) \in device'.outbox
      BY <2>1
    <3> QED BY <2>2, <3>2, <3>3 DEF Unsent
  <2> HIDE DEF mark
  <2> QED BY <2>2 DEF toldStored, Unsent
<1>8. CASE DropSupersededGenesis
  <2>1. /\ post.at = "answered" /\ post.chunk \cup post.rest \subseteq Unsent(device)
        /\ Founding(post.chunk) /\ ~Answered("stored")
    BY <1>2, <1>8 DEF DropSupersededGenesis, Unrestored, InFlight, Answered
  <2>2. UnsentGenesis # {}
    BY <2>1 DEF Founding, UnsentGenesis
  <2>3. device.outbox = post.chunk \cup post.rest
    BY <1>2, <2>1, <2>2 DEF Unrestored, FoundingPhase
  <2>4. toldStored = {}
    BY <2>1, <2>3 DEF toldStored
  <2> QED BY <2>4
<1>9. CASE ~(\/ Pull \/ ClaimPull \/ ClaimPullBack \/ ClaimFirst \/ ClaimGrant \/ Capture
             \/ MarkSent \/ DropSupersededGenesis)
  <2>1. device' = device
    BY <1>1, <1>9 DEF OutboxNext, Running, outboxVars, Flush, PostArrives,
       RecordOwnWritesVerdict, Rethrow, DelayedArrives, RivalFounds, DoorShuts, ClaimPullRefused,
       GiveUp, SaveBackup
  <2> QED BY <1>4, <2>1
<1> QED BY <1>5, <1>6, <1>7, <1>8, <1>9

\* What the outbox marks as sent is stored.
LEMMA ToldIsStored ==
  ASSUME TypeInv, ChainStored
  PROVE  toldStored \subseteq WrittenLog!Stored
<1> SUFFICES ASSUME NEW row \in device.outbox \ Unsent(device)
             PROVE  OpOf(row) \in WrittenLog!Stored
  BY DEF toldStored
<1>1. row \in device.outbox /\ row.sent
  BY DEF Unsent
<1>2. row.seq \in DOMAIN mine /\ OpOf(row) = mine[row.seq]
  BY <1>1, Basics DEF ChainStored
<1>3. writtenChain["me"] = mine
  BY DEF writtenChain
<1> QED BY <1>2, <1>3 DEF WrittenLog!Stored, writtenChain

LEMMA ToldIsStoredNext ==
  TypeInv' /\ ChainStored' => (toldStored \subseteq WrittenLog!Stored)'
<1>1. TypeInv /\ ChainStored => toldStored \subseteq WrittenLog!Stored
  BY ToldIsStored
<1> QED BY <1>1, PTL

LEMMA WrittenNext ==
  ASSUME OutboxInv, OutboxInv', ~restored', [OutboxNext]_outboxVars
  PROVE  WrittenLog!Next \/ UNCHANGED <<writtenChain, toldStored>>
<1>1. TypeInv /\ TypeInv' /\ ChainStored'
  BY DEF OutboxInv, Unrestored
<1>2. CASE mine' = mine
  <2>1. writtenChain' = writtenChain
    BY <1>2 DEF writtenChain
  <2>2. toldStored' \subseteq WrittenLog!Stored'
    BY <1>1, ToldIsStoredNext
  <2>3. WrittenLog!Stored' = WrittenLog!Stored
    BY <2>1 DEF WrittenLog!Stored
  <2>4. WrittenLog!Acknowledge
    BY <2>1, <2>2, <2>3, ToldStays DEF WrittenLog!Acknowledge
  <2> QED BY <2>4 DEF WrittenLog!Next
<1>3. CASE WrittenLog!Extends(mine', mine) /\ device' = device
  <2>1. toldStored' = toldStored
    BY <1>3 DEF toldStored, Unsent
  <2>2. writtenChain'["me"] = mine' /\ writtenChain["me"] = mine
    BY DEF writtenChain
  <2>3. writtenChain' = [writtenChain EXCEPT !["me"] = writtenChain'["me"]]
    BY <2>2 DEF writtenChain
  <2>4. WrittenLog!Grow("me")
    BY <1>3, <2>1, <2>2, <2>3 DEF WrittenLog!Grow
  <2> QED BY <2>4 DEF WrittenLog!Next
<1> QED BY <1>1, <1>2, <1>3, ChainStep

LEMMA WrittenInit == OutboxInit => WrittenLog!Init
<1> SUFFICES ASSUME OutboxInit PROVE WrittenLog!Init
  OBVIOUS
<1>1. device.outbox = {}
  BY DEF OutboxInit, EmptyDevice
<1>2. toldStored = {}
  BY <1>1 DEF toldStored
<1> QED BY <1>2 DEF WrittenLog!Init, writtenChain

\* In every run of a device that joins, or founds while nothing is lost: what it writes
\* becomes one chain at the server that only grows at its end, through every late,
\* repeated or superseded request, even after its database was put back; and until then
\* what its outbox marks as sent is in that chain and stays marked.
THEOREM OutboxWritesToChainLog == OutboxSpec /\ FoundsWithoutLoss => WritesToChainLog
<1>1. OutboxInv /\ [OutboxNext]_outboxVars => [WrittenLog!Extends(mine', mine)]_mine
  BY ChainStep DEF OutboxInv
<1>2. OutboxInv /\ OutboxInv' /\ [OutboxNext]_outboxVars
        => [~restored' => WrittenLog!Next]_<<writtenChain, toldStored>>
  BY WrittenNext
<1>3. OutboxSpec /\ FoundsWithoutLoss => []OutboxInv
  BY OutboxInitInv, OutboxInductive, PTL DEF OutboxSpec
<1>4. OutboxSpec => WrittenLog!Init
  BY WrittenInit DEF OutboxSpec
<1>5. OutboxSpec /\ FoundsWithoutLoss => [][WrittenLog!Extends(mine', mine)]_mine
  BY <1>1, <1>3, PTL DEF OutboxSpec
<1>6. OutboxSpec /\ FoundsWithoutLoss
        => [][~restored' => WrittenLog!Next]_<<writtenChain, toldStored>>
  BY <1>2, <1>3, PTL DEF OutboxSpec
<1> QED BY <1>4, <1>5, <1>6 DEF WritesToChainLog

==============================================================================

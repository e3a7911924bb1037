------------------------------ MODULE OpServer ------------------------------
(***************************************************************************)
(* POST /w/{workspace}/ops under concurrency.  Each Slot is one request in *)
(* flight with its own READ COMMITTED transaction.  A request passes the   *)
(* door (Admission), reads the author chain, inserts its rows, stages what *)
(* its control and prune ops stand for, commits, closes the transport of   *)
(* members it revoked and answers; any other request may run in between.   *)
(* A row another transaction has inserted or updated and not yet committed *)
(* makes this one wait, as a unique index or a row lock does.  The process *)
(* may die at any point.                                                   *)
(***************************************************************************)
EXTENDS Admission

CONSTANTS Slot,       \* requests in flight at once
          Batch,      \* every batch a device may post
          MaxSeq,     \* bound on transport seqs
          MaxCrashes  \* bound on deaths of the process

\* The ops of those batches: envelopes the codec could have read.
Posted == UNION {{b[i] : i \in DOMAIN b} : b \in Batch}

ASSUME BatchAssumption == Batch \subseteq Seq(Posted)
ASSUME PostedAssumption ==
  \A op \in Posted :
    /\ op.author_seq \in Nat /\ op.key_epoch \in Nat
    /\ op.op_class = OP_CLASS_PRUNE => op.payload.targets \in Seq(Targets(op.payload))
    /\ /\ op.op_class = OP_CLASS_CONTROL
       /\ op.payload.control_type \in {"workspace_genesis", "member_register"}
       => op.payload.cert.keys.member_kind # NotChained

\* A device draws a fresh op_id for every op it authors.
ASSUME OpIdsName ==
  \A b, c \in Batch : \A i \in DOMAIN b, j \in DOMAIN c :
    /\ b[i].op_id = c[j].op_id
    /\ b[i].author_member_id = c[j].author_member_id
    => b[i] = c[j]

VARIABLES log, stamp, genesis, grants, epochs, chained,  \* committed tables
          nextSeq,    \* the sequence behind ops.seq: never rolled back
          txn,        \* the requests in flight
          transport,  \* members whose tokens and sockets were not revoked
          acked,      \* ops a device was told are stored
          authored,   \* the batches the devices hold and post, any number of times
          crashes

tables == <<log, stamp, genesis, grants, epochs, chained>>
vars == <<tables, nextSeq, txn, transport, acked, authored, crashes>>

db == [log |-> log, stamp |-> stamp, genesis |-> genesis, grants |-> grants,
       epochs |-> epochs, chained |-> chained]

Idle == [pc |-> "idle"]

-----------------------------------------------------------------------------
(* The author chain.                                                       *)

SameKey(op, other) == /\ op.author_member_id = other.author_member_id
                      /\ op.op_id = other.op_id

\* Either unique constraint of the ops table.
Collides(op, other) == /\ op.author_member_id = other.author_member_id
                       /\ \/ op.op_id = other.op_id
                          \/ op.author_seq = other.author_seq

AuthorSeqs(m) == {log[q].author_seq : q \in {r \in DOMAIN log :
                                               log[r].author_member_id = m}}
LastAuthorSeq(m) == Max({0} \cup AuthorSeqs(m))

\* mutant: a duplicate is an op whose position is taken
FreshByPosition(batch) ==
  {i \in DOMAIN batch : batch[i].author_seq \notin AuthorSeqs(batch[i].author_member_id)}

\* The batch's ops the log does not hold, each key once.
Fresh(batch) == {i \in DOMAIN batch :
                   /\ ~IsReplay(db, batch[i])
                   /\ \A j \in DOMAIN batch : j < i => ~SameKey(batch[j], batch[i])}

Rank(S, i) == Cardinality({j \in S : j <= i})

ChainContinues(batch, fresh) ==
  \A i \in fresh :
    batch[i].author_seq = LastAuthorSeq(batch[i].author_member_id) + Rank(fresh, i)

-----------------------------------------------------------------------------
(* What a transaction holds and has staged.                                *)

HasRows(t) == t.pc \in {"inserted", "staged"}
Rows(t) == {t.batch[i] : i \in t.fresh}

\* The fresh ops of a control type, as indices.
ControlOps(t, type) ==
  {i \in t.fresh : /\ t.batch[i].op_class = OP_CLASS_CONTROL
                   /\ t.batch[i].payload.control_type = type}
\* mutant: a register leaves no chained_at
FoundingOnly(t) == ControlOps(t, "workspace_genesis")
Registrations(t) ==
  ControlOps(t, "workspace_genesis") \cup ControlOps(t, "member_register")
Prunes(t) == {i \in t.fresh : t.batch[i].op_class = OP_CLASS_PRUNE}
Founds(t) == ControlOps(t, "workspace_genesis") # {}

GrantCert(t, i) == t.batch[i].payload.cert
NewGrantIds(t) == {GrantCert(t, i).grant_id : i \in ControlOps(t, "grant")}
NewEpochs(t) == {t.batch[i].payload.rotate.to_epoch : i \in ControlOps(t, "rotate")}
PruneSeqs(t) == UNION {{g.seq : g \in Targets(t.batch[i].payload)} : i \in Prunes(t)}

\* Revokes that write a stamp: the target row was read with none.
EffectiveRevokes(t) ==
  {i \in ControlOps(t, "revoke") : GrantCert(t, i).grant_id \in t.unstamped}
StampedGrantIds(t) == {GrantCert(t, i).grant_id : i \in EffectiveRevokes(t)}

\* The tables as this transaction leaves them.
LogAfter(t) ==
  [q \in DOMAIN log \cup {t.seqs[i] : i \in t.fresh} |->
     IF q \in DOMAIN log THEN log[q]
     ELSE t.batch[CHOOSE i \in t.fresh : t.seqs[i] = q]]

StampAfter(t) ==
  [q \in DOMAIN LogAfter(t) |->
     IF q \in PruneSeqs(t)
     THEN t.seqs[CHOOSE i \in Prunes(t) :
                   q \in {g.seq : g \in Targets(t.batch[i].payload)}]
     ELSE IF q \in DOMAIN stamp THEN stamp[q] ELSE Null]

GrantsAfter(t) ==
  [g \in DOMAIN grants \cup NewGrantIds(t) |->
     LET base == IF g \in NewGrantIds(t)
                 THEN LET i == CHOOSE j \in ControlOps(t, "grant") :
                                 GrantCert(t, j).grant_id = g
                      IN [member_id |-> GrantCert(t, i).member_id,
                          role |-> GrantCert(t, i).role,
                          granter |-> GrantCert(t, i).granter,
                          granted_seq |-> t.seqs[i], revoked_by_seq |-> Null]
                 ELSE grants[g]
     IN IF g \in StampedGrantIds(t)
        THEN [base EXCEPT !.revoked_by_seq =
                t.seqs[CHOOSE i \in EffectiveRevokes(t) :
                         GrantCert(t, i).grant_id = g]]
        ELSE base]

EpochsAfter(t) ==
  [e \in DOMAIN epochs \cup NewEpochs(t) |->
     IF e \in NewEpochs(t)
     THEN t.seqs[CHOOSE i \in ControlOps(t, "rotate") :
                   t.batch[i].payload.rotate.to_epoch = e]
     ELSE epochs[e]]

ChainedAfter(t) ==
  [m \in Member |->
     LET mine == {i \in Registrations(t) : GrantCert(t, i).keys.member_id = m}
     IN IF mine = {} THEN chained[m]
        ELSE GrantCert(t, Max(mine)).keys.member_kind]

\* The members this transaction takes a grant from and leaves without one, by
\* its own rows and the committed ones: another transaction's are not visible.
Stripped(t) ==
  LET after == GrantsAfter(t)
  IN {m \in {after[g].member_id : g \in StampedGrantIds(t)} :
        \A g \in DOMAIN after : after[g].member_id = m => after[g].revoked_by_seq # Null}

-----------------------------------------------------------------------------
(* The steps of one request.                                               *)

\* Seqs the requests in flight may still draw, two burnt by failed inserts
\* included: the bound MaxSeq refuses a request at the door, never later.
Demand(t) == IF t.pc \in {"admitted", "resolved", "planned"} THEN Len(t.batch) + 2 ELSE 0
Room(batch) ==
  nextSeq + MapThenSumSet(LAMBDA s : Demand(txn[s]), Slot) + Len(batch) + 2
    <= MaxSeq + 1

Admit(s, m, batch) ==
  /\ txn[s].pc = "idle"
  /\ batch # <<>>
  /\ Verdict(db, m, batch) = Ok
  /\ Room(batch)
  /\ txn' = [txn EXCEPT ![s] = [pc |-> "admitted", batch |-> batch, retried |-> FALSE]]
  /\ UNCHANGED <<tables, nextSeq, transport, acked, authored, crashes>>

Refused(s, code) == txn' = [txn EXCEPT ![s] = [pc |-> "refused", code |-> code,
                                               batch |-> txn[s].batch]]

\* The first read of _append_batch: which ops the log already holds.  A retry
\* runs both reads again under the verdict of the first walk.
ReadStored(s) ==
  /\ txn[s].pc = "admitted"
  /\ txn' = [txn EXCEPT ![s] = [pc |-> "resolved", batch |-> txn[s].batch,
                                retried |-> txn[s].retried,
                                fresh |-> Fresh(txn[s].batch)]]
  /\ UNCHANGED <<tables, nextSeq, transport, acked, authored, crashes>>

\* The second: where each author's chain stands.  Under READ COMMITTED a commit
\* may fall between the two.
ReadHeads(s) ==
  /\ txn[s].pc = "resolved"
  /\ IF ChainContinues(txn[s].batch, txn[s].fresh)
     THEN txn' = [txn EXCEPT ![s].pc = "planned"]
     ELSE Refused(s, "author_chain_conflict")
  /\ UNCHANGED <<tables, nextSeq, transport, acked, authored, crashes>>

MayInsert(s) ==
  \A t \in Slot \ {s} : HasRows(txn[t]) =>
    \A op \in Rows(txn[s]), other \in Rows(txn[t]) : ~Collides(op, other)

InsertFails(s) ==
  \E op \in Rows(txn[s]), q \in DOMAIN log : Collides(op, log[q])

\* mutant: seqs counted from the committed log instead of the sequence
DrawnFromLog(fresh) == [i \in fresh |-> Max({0} \cup DOMAIN log) + Rank(fresh, i)]
\* The seqs a flush draws from the sequence.
Drawn(fresh) == [i \in fresh |-> nextSeq + Rank(fresh, i) - 1]

\* The flush.  A constraint that fires burns a seq and sends the request back
\* to its read, once.  After the rows, a revoke's target is read.
Insert(s) ==
  /\ txn[s].pc = "planned"
  /\ MayInsert(s)
  /\ LET t == txn[s]
     IN IF InsertFails(s)
        THEN /\ nextSeq' = nextSeq + 1
             /\ IF t.retried THEN Refused(s, "author_chain_conflict")
                ELSE txn' = [txn EXCEPT ![s] = [pc |-> "admitted", batch |-> t.batch,
                                                retried |-> TRUE]]
        ELSE /\ nextSeq' = nextSeq + Cardinality(t.fresh)
             /\ txn' = [txn EXCEPT ![s] =
                  [pc |-> "inserted", batch |-> t.batch, fresh |-> t.fresh,
                   seqs |-> Drawn(t.fresh),
                   unstamped |-> {GrantCert(t, i).grant_id : i \in
                     {j \in ControlOps(t, "revoke") :
                        \/ GrantCert(t, j).grant_id \in NewGrantIds(t)
                        \/ /\ GrantCert(t, j).grant_id \in DOMAIN grants
                           /\ grants[GrantCert(t, j).grant_id].revoked_by_seq = Null}}]]
  /\ UNCHANGED <<tables, transport, acked, authored, crashes>>

\* mutant: the founding lock is taken with the inserts, each waiting for the other
WaitsForEarly(s) ==
  \E o \in Slot \ {s} : txn[o].pc \in {"inserted", "staged"} /\ Founds(txn[s]) /\ Founds(txn[o])

\* Another transaction holds an index row or a row lock this one needs.
MustWait(s) ==
  \E o \in Slot \ {s} :
    /\ txn[o].pc = "staged"
    /\ \/ Founds(txn[s]) /\ Founds(txn[o])
       \/ NewGrantIds(txn[s]) \cap NewGrantIds(txn[o]) # {}
       \/ NewEpochs(txn[s]) \cap NewEpochs(txn[o]) # {}
       \/ StampedGrantIds(txn[s]) \cap StampedGrantIds(txn[o]) # {}
       \/ PruneSeqs(txn[s]) \cap PruneSeqs(txn[o]) # {}

\* mutant: nothing keeps a second workspaces row out
IndexFailsPastGenesis(t) == \/ NewGrantIds(t) \cap DOMAIN grants # {}
                            \/ NewEpochs(t) \cap DOMAIN epochs # {}

\* A primary key of the index tables is taken.
IndexFails(t) == \/ Founds(t) /\ genesis # Null
                 \/ NewGrantIds(t) \cap DOMAIN grants # {}
                 \/ NewEpochs(t) \cap DOMAIN epochs # {}

\* The index rows are flushed by the commit, unless a revoke's query or a
\* prune's UPDATE flushes them first, where nothing resolves the failure.
FlushedEarly(t) == EffectiveRevokes(t) # {} \/ Prunes(t) # {}

\* mutant: a commit conflict is answered bare
ConflictUnresolved(t) == "failed"

ResolveCommitConflict(t) ==
  IF \E i \in DOMAIN t.batch : /\ t.batch[i].op_class = OP_CLASS_CONTROL
                               /\ t.batch[i].payload.control_type = "workspace_genesis"
  THEN "genesis_not_first" ELSE "failed"

\* mutant: the rows an UPDATE moved are not counted
UnguardedUpdate(t) == FALSE

\* The guarded UPDATE of a prune moves fewer rows than it names.
PruneFails(t) == ~(PruneSeqs(t) \subseteq {q \in DOMAIN stamp : stamp[q] = Null})

Materialise(s) ==
  /\ txn[s].pc = "inserted"
  /\ ~MustWait(s)
  /\ LET t == txn[s]
     IN IF IndexFails(t)
        THEN Refused(s, IF FlushedEarly(t) THEN "failed" ELSE ResolveCommitConflict(t))
        ELSE IF PruneFails(t) THEN Refused(s, "prune_target_already_compacted")
        ELSE txn' = [txn EXCEPT ![s] =
               [pc |-> "staged", batch |-> t.batch, fresh |-> t.fresh, seqs |-> t.seqs,
                unstamped |-> t.unstamped, closing |-> Stripped(t)]]
  /\ UNCHANGED <<tables, nextSeq, transport, acked, authored, crashes>>

Commit(s) ==
  /\ txn[s].pc = "staged"
  /\ LET t == txn[s]
     IN /\ log' = LogAfter(t)
        /\ stamp' = StampAfter(t)
        /\ genesis' = IF Founds(t) THEN t.seqs[Max(ControlOps(t, "workspace_genesis"))]
                      ELSE genesis
        /\ grants' = GrantsAfter(t)
        /\ epochs' = EpochsAfter(t)
        /\ chained' = ChainedAfter(t)
        /\ txn' = [txn EXCEPT ![s] = [pc |-> "closing", batch |-> t.batch,
                                      closing |-> t.closing]]
  /\ UNCHANGED <<nextSeq, transport, acked, authored, crashes>>

\* revoke_member_transport and hub.revoke, member by member.
CloseTransport(s, m) ==
  /\ txn[s].pc = "closing"
  /\ m \in txn[s].closing
  /\ transport' = transport \ {m}
  /\ txn' = [txn EXCEPT ![s].closing = @ \ {m}]
  /\ UNCHANGED <<tables, nextSeq, acked, authored, crashes>>

\* The results go out: every op of the batch is stored, fresh or duplicate.
Answer(s) ==
  /\ txn[s].pc = "closing"
  /\ txn[s].closing = {}
  /\ acked' = acked \cup {txn[s].batch[i] : i \in DOMAIN txn[s].batch}
  /\ txn' = [txn EXCEPT ![s] = Idle]
  /\ UNCHANGED <<tables, nextSeq, transport, authored, crashes>>

AnswerRefusal(s) ==
  /\ txn[s].pc = "refused"
  /\ txn' = [txn EXCEPT ![s] = Idle]
  /\ UNCHANGED <<tables, nextSeq, transport, acked, authored, crashes>>

\* The process dies: open transactions roll back, committed ones stay, and
\* nobody is left to close a transport or to answer.
Crash ==
  /\ crashes < MaxCrashes
  /\ crashes' = crashes + 1
  /\ txn' = [s \in Slot |-> Idle]
  /\ UNCHANGED <<tables, nextSeq, transport, acked, authored>>

Init ==
  /\ log = [q \in {} |-> Null]
  /\ stamp = [q \in {} |-> Null]
  /\ genesis = Null
  /\ grants = [g \in {} |-> Null]
  /\ epochs = [e \in {} |-> Null]
  /\ chained = [m \in Member |-> NotChained]
  /\ nextSeq = 1
  /\ txn = [s \in Slot |-> Idle]
  /\ transport = Member
  /\ acked = {}
  /\ authored = Batch
  /\ crashes = 0

Step(s) == \/ ReadStored(s) \/ ReadHeads(s) \/ Insert(s) \/ Materialise(s) \/ Commit(s)
           \/ \E m \in Member : CloseTransport(s, m)
           \/ Answer(s) \/ AnswerRefusal(s)

Next == \/ \E s \in Slot : \/ \E m \in Member, b \in authored : Admit(s, m, b)
                           \/ Step(s)
        \/ Crash

\* The event loop runs every request it has accepted; nobody is bound to post.
Fairness == \A s \in Slot : WF_vars(Step(s))

Spec == Init /\ [][Next]_vars /\ Fairness

-----------------------------------------------------------------------------
(* Properties.                                                             *)

\* The type invariant: committed rows carry seqs already drawn, and what a
\* request holds fits the step it is at.
TypeOK ==
  /\ nextSeq \in Nat \ {0} /\ DOMAIN log \subseteq 1 .. (nextSeq - 1)
  /\ \A q \in DOMAIN log : log[q].author_member_id \in Member
  /\ stamp \in [DOMAIN log -> {Null} \cup DOMAIN log]
  /\ genesis \in {Null} \cup DOMAIN log
  /\ \A g \in DOMAIN grants : /\ grants[g].member_id \in Member
                              /\ grants[g].granted_seq \in DOMAIN log
                              /\ grants[g].revoked_by_seq \in {Null} \cup DOMAIN log
  /\ \A e \in DOMAIN epochs : epochs[e] \in DOMAIN log
  /\ transport \subseteq Member
  /\ \A s \in Slot :
       /\ txn[s].pc \in {"idle", "admitted", "resolved", "planned", "inserted",
                         "staged", "closing", "refused"}
       /\ HasRows(txn[s]) => \A i \in txn[s].fresh :
            txn[s].seqs[i] \in 1 .. (nextSeq - 1) /\ txn[s].seqs[i] \notin DOMAIN log

\* Committed ops of each author as the chain their author_seqs spell.
ChainOf(m) ==
  [n \in 1 .. Cardinality(AuthorSeqs(m)) |->
     log[CHOOSE q \in DOMAIN log : /\ log[q].author_member_id = m
                                  /\ log[q].author_seq = n]]

\* The server implements the append-only chains: whatever races, retries and
\* deaths a request meets, a step grows one author's chain at its end,
\* acknowledges what is stored, or changes nothing a device can see.
Chains == INSTANCE ChainLog WITH
  Author <- Member, chain <- [m \in Member |-> ChainOf(m)], acked <- acked
ImplementsChainLog == Chains!Spec

\* What an op of the log asserts, by control type.
Asserts(type) == {q \in DOMAIN log : /\ log[q].op_class = OP_CLASS_CONTROL
                                    /\ log[q].payload.control_type = type}
Cert(q) == log[q].payload.cert

\* The index tables are exactly what the log says: one row per genesis, grant
\* and rotate, anchored to the seq of the op that asserted it, a revocation
\* stamp exactly where a revoke is logged, a kind exactly where a
\* registration is.  A replay that re-materialised, a rolled-back request
\* that left a row or a lost update of another column would show here.
IndexMatchesLog ==
  /\ Asserts("workspace_genesis") = {genesis} \ {Null}
  /\ {Cert(q).grant_id : q \in Asserts("grant")} = DOMAIN grants
  /\ \A q \in Asserts("grant") :
       LET row == grants[Cert(q).grant_id]
       IN /\ row.granted_seq = q
          /\ row.member_id = Cert(q).member_id
          /\ row.role = Cert(q).role
  /\ \A g \in DOMAIN grants :
       LET revokes == {q \in Asserts("revoke") : Cert(q).grant_id = g}
       IN IF revokes = {} THEN grants[g].revoked_by_seq = Null
          ELSE grants[g].revoked_by_seq \in revokes
  /\ {<<log[q].payload.rotate.to_epoch, q>> : q \in Asserts("rotate")}
       = {<<e, epochs[e]>> : e \in DOMAIN epochs}
  /\ \A m \in Member :
       chained[m] = NotChained <=>
         \A q \in Asserts("workspace_genesis") \cup Asserts("member_register") :
           Cert(q).keys.member_id # m

\* The order in which the log asserts.  Nothing precedes the founding op, and
\* there is one: two devices that found the workspace at once leave one
\* genesis, at the lowest seq.  Key epochs are minted one by one in log order,
\* and an op sealed under an epoch lies above the rotate that minted it,
\* although the walk that admitted it and the rotate may have run side by side.
GenesisFirst ==
  /\ genesis = Null => DOMAIN log = {}
  /\ genesis # Null => \A q \in DOMAIN log : genesis <= q
  /\ Cardinality(Asserts("workspace_genesis")) <= 1
EpochsInOrder ==
  /\ DOMAIN epochs = 1 .. Cardinality(DOMAIN epochs)
  /\ \A e \in DOMAIN epochs : e > 1 => epochs[e - 1] < epochs[e]
  /\ \A q \in DOMAIN log :
       log[q].op_class # OP_CLASS_CONTROL /\ log[q].key_epoch > 0
         => log[q].key_epoch \in DOMAIN epochs /\ epochs[log[q].key_epoch] < q
\* Who reads upwards meets each author's ops from author_seq 1 on, without a gap,
\* although seqs are drawn before rows commit.
ChainsInOrder ==
  \A q \in DOMAIN log :
    LET below == {r \in DOMAIN log : /\ r <= q
                                     /\ log[r].author_member_id = log[q].author_member_id}
    IN {log[r].author_seq : r \in below} = 1 .. log[q].author_seq
LogInOrder == GenesisFirst /\ EpochsInOrder /\ ChainsInOrder

\* A row is hidden exactly when one prune of the log vouches for it, names it
\* by its author's position, and stands on a compaction of its own author:
\* prunes that raced for a row never both stand.
PrunesVouched ==
  \A q \in DOMAIN log :
    LET prunes == {p \in DOMAIN log : log[p].op_class = OP_CLASS_PRUNE
                                       /\ q \in {t.seq : t \in Targets(log[p].payload)}}
    IN /\ prunes = {stamp[q]} \ {Null}
       /\ \A p \in prunes :
            /\ ~IsCompactionExempt(log[q].op_class)
            /\ \E t \in Targets(log[p].payload) :
                 t.seq = q /\ t.author_seq = log[q].author_seq
            /\ \E c \in DOMAIN log :
                 /\ c < p
                 /\ log[c].op_id = log[p].payload.compaction_op_id
                 /\ log[c].author_member_id = log[p].author_member_id
                 /\ log[c].op_class = OP_CLASS_COMPACTION

\* A device that lost the founding race is told genesis_not_first, whichever of
\* its constraints fired and wherever; it is never left with a bare failure.
FoundersLearnWhy ==
  \A s \in Slot :
    txn[s].pc = "refused" /\ txn[s].code # "author_chain_conflict"
      => \/ txn[s].code = "genesis_not_first" /\ genesis # Null
         \/ \A i \in DOMAIN txn[s].batch :
              txn[s].batch[i].op_class = OP_CLASS_CONTROL
                => txn[s].batch[i].payload.control_type # "workspace_genesis"

\* Requests that wait for one another's rows all get their answer.
EveryRequestAnswered == \A s \in Slot : txn[s].pc # "idle" ~> txn[s].pc = "idle"

\* routes.py, _verify_revoke: "The revocation boundary is immutable once
\* stamped."  (The stamp decides which ops of the revoked member stand.)
BoundaryIsImmutable ==
  [][\A g \in DOMAIN grants :
       grants[g].revoked_by_seq # Null
         => grants'[g].revoked_by_seq = grants[g].revoked_by_seq]_vars
=============================================================================

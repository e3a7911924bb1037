---------------------------- MODULE GrantHistory ----------------------------
(***************************************************************************)
(* OpServer with the memory its authorization verdict is judged by: which  *)
(* grants stood revoked when a request was let in, and so which grants     *)
(* could not vouch for a row of the log.  No action reads the memory: it   *)
(* follows the steps of OpServer and restricts none.                       *)
(***************************************************************************)
EXTENDS OpServer

VARIABLES lapsed,  \* per slot: the grants revoked in the tables its walk read
          barred   \* per row of the log: the grants revoked when the walk met its op

histVars == <<vars, lapsed, barred>>

InFlight(t) == t.pc \in {"admitted", "resolved", "planned", "inserted", "staged"}

LetIn(s, m, batch) == /\ Admit(s, m, batch)
                      /\ lapsed' = [lapsed EXCEPT ![s] = RevokedGrants(db)]
                      /\ UNCHANGED barred

\* A commit adds rows to the log; of the others none does.
Proceed(s) ==
  /\ Step(s)
  /\ lapsed' = [lapsed EXCEPT ![s] = IF InFlight(txn'[s]) THEN @ ELSE {}]
  /\ barred' = [q \in DOMAIN log' |->
       IF q \in DOMAIN log THEN barred[q]
       ELSE LET i == CHOOSE k \in txn[s].fresh : txn[s].seqs[k] = q
            IN {g \in DOMAIN grants' : Barred(lapsed[s], txn[s].batch, i - 1, g)}]

Die == Crash /\ lapsed' = [s \in Slot |-> {}] /\ UNCHANGED barred

HistInit == /\ Init
            /\ lapsed = [s \in Slot |-> {}]
            /\ barred = [q \in {} |-> {}]

HistNext == \/ \E s \in Slot : \/ \E m \in Member, b \in authored : LetIn(s, m, b)
                               \/ Proceed(s)
            \/ Die

HistSpec == HistInit /\ [][HistNext]_histVars /\ Fairness

-----------------------------------------------------------------------------

\* Every stored op its author was entitled to write: Root signed it, or a grant
\* asserted below its position admits its class, held by its author and not
\* revoked when the request was let in, nor by an op before it in its batch.
\* This is as near as the code comes to "granted_seq < S < revoked_by_seq"
\* (models.py): an op lies above a revocation of the grant it stands on only if
\* the revoke committed between the walk and the append, or if the batch asserts
\* the grant again, and readers refuse it by position.
\* A grant whose role only Root may hand out was handed out by Root, and a
\* preferences workspace grants to devices alone.
AuthorizedAtPosition ==
  /\ \A q \in DOMAIN log :
       LET op == log[q]
       IN \/ op.op_class = OP_CLASS_CONTROL /\ IsRootSigned(op.payload)
          \/ \E g \in DOMAIN grants :
               /\ grants[g].member_id = op.author_member_id
               /\ grants[g].role \in ROLE_OP_CLASS_MATRIX[op.op_class]
               /\ grants[g].granted_seq < q
               /\ g \notin barred[q]
  /\ \A q \in Asserts("grant") :
       /\ Cert(q).role = ROLE_OWNER => Cert(q).signer = RootPk
       /\ IsPreferences => chained[Cert(q).member_id] = MEMBER_KIND_DEVICE
=============================================================================

--------------------------- MODULE BackendProofs ---------------------------
(***************************************************************************)
(* The parts of the backend that share no state with one another: nonces   *)
(* and first logins, the members rows, the recovery slot and the signal    *)
(* channel, each for any devices, calls in flight, versions, quota and     *)
(* deaths of the process.                                                  *)
(***************************************************************************)
EXTENDS Access, MemberRegistry, RecoveryEscrow, SignalChannel, FiniteSetTheorems, TLAPS

-----------------------------------------------------------------------------
(* Access: nonces and first logins.                                        *)

RestingCall == [at : {"idle"}]
MemberCall == [at : {"mint"}, owner : Device]
LoginCall == [at : {"lookup", "create"}, owner : Wallet]
SessionCall == [at : {"session"}, owner : Wallet, user : Call]
RotationCall == [at : {"rotate"}, owner : Principal, token : Token]
TokenRow == [owner : Principal, revoked : BOOLEAN]
CallState == RestingCall \cup MemberCall \cup LoginCall \cup SessionCall \cup RotationCall

AccessTyped ==
  /\ DOMAIN challenge \subseteq Nonce
  /\ \A n \in DOMAIN challenge : challenge[n] \in Principal
  /\ issued \in [Device -> 0 .. ChallengeLimit + 1]
  /\ DOMAIN refresh \subseteq Token
  /\ \A t \in DOMAIN refresh : refresh[t] \in TokenRow
  /\ account \in [Wallet -> {NoUser} \cup Call]
  /\ call \in [Call -> CallState]
  /\ spent \in [Nonce -> Nat]
  /\ handed \in [Wallet -> SUBSET ({NoUser} \cup Call)]

(***************************************************************************)
(* The inductive invariant: a session about to be minted already holds its *)
(* wallet's user, since no step ever replaces one.                         *)
(***************************************************************************)
SessionsAgree ==
  \A c \in Call : call[c].at = "session" => account[call[c].owner] = call[c].user

AccessInv == AccessTyped /\ NonceSpentOnce /\ SessionsAgree /\ OneUserPerWallet

LEMMA CallFacts ==
  ASSUME AccessTyped, NEW c \in Call
  PROVE  /\ call[c].at \in {"idle", "mint", "lookup", "create", "session", "rotate"}
         /\ call[c].at = "mint" => call[c].owner \in Device
         /\ call[c].at \in {"lookup", "create", "session"} => call[c].owner \in Wallet
         /\ call[c].at = "session" => call[c].user \in Call
         /\ call[c].at = "rotate" => call[c].owner \in Principal /\ call[c].token \in Token
BY DEF AccessTyped, CallState, RestingCall, MemberCall, LoginCall, SessionCall, RotationCall

LEMMA IdleIsTyped == NoCall \in CallState /\ NoCall.at = "idle"
BY DEF NoCall, CallState, RestingCall

LEMMA AccessInvInit == AccessInit => AccessInv
<1> SUFFICES ASSUME AccessInit PROVE AccessInv
  OBVIOUS
<1>1. AccessTyped
  BY AccessAssumption, IdleIsTyped DEF AccessInit, AccessTyped
<1>2. NonceSpentOnce
  BY DEF AccessInit, NonceSpentOnce
<1>3. SessionsAgree
  BY IdleIsTyped DEF AccessInit, SessionsAgree
<1>4. OneUserPerWallet
  BY DEF AccessInit, OneUserPerWallet
<1> QED BY <1>1, <1>2, <1>3, <1>4 DEF AccessInv

-----------------------------------------------------------------------------
(* The parts of the invariant that a group of variables carries.           *)

LoginVars == <<account, call, handed>>

LEMMA LoginsUntouched ==
  ASSUME AccessInv, UNCHANGED LoginVars
  PROVE  SessionsAgree' /\ OneUserPerWallet'
BY DEF AccessInv, SessionsAgree, OneUserPerWallet, LoginVars

\* A minted token, and the revocation of the one it replaces.
LEMMA MintedIsTyped ==
  ASSUME AccessInv, NEW t \in Token, NEW p \in Principal, FreshToken(t),
         refresh' = Minted(t, p)
  PROVE  /\ DOMAIN refresh' \subseteq Token
         /\ \A u \in DOMAIN refresh' : refresh'[u] \in TokenRow
BY DEF AccessInv, AccessTyped, Minted, FreshToken, TokenRow

LEMMA ChallengesOnly ==
  ASSUME AccessInv, UNCHANGED <<refresh, account, call, spent, handed>>,
         issued' \in [Device -> 0 .. ChallengeLimit + 1],
         DOMAIN challenge' \subseteq Nonce,
         \A n \in DOMAIN challenge' : challenge'[n] \in Principal,
         \A n \in DOMAIN challenge' \ DOMAIN challenge : spent[n] = 0
  PROVE  AccessInv'
<1>1. AccessTyped'
  BY DEF AccessInv, AccessTyped
<1>2. NonceSpentOnce'
  BY DEF AccessInv, NonceSpentOnce
<1> QED BY <1>1, <1>2, LoginsUntouched DEF AccessInv, LoginVars

LEMMA SetChallengeFacts ==
  ASSUME AccessInv, NEW n \in Nonce, NEW p \in Principal, SetChallenge(n, p)
  PROVE  /\ DOMAIN challenge' \subseteq Nonce
         /\ \A m \in DOMAIN challenge' : challenge'[m] \in Principal
         /\ \A m \in DOMAIN challenge' \ DOMAIN challenge : spent[m] = 0
BY DEF AccessInv, AccessTyped, SetChallenge, Unspent

LEMMA AccessInvNext == AccessInv /\ [AccessNext]_accessVars => AccessInv'
<1> SUFFICES ASSUME AccessInv, [AccessNext]_accessVars PROVE AccessInv'
  OBVIOUS
<1>1. CASE UNCHANGED accessVars
  BY <1>1 DEF accessVars, AccessInv, AccessTyped, NonceSpentOnce, SessionsAgree, OneUserPerWallet
<1>2. ASSUME NEW n \in Nonce, NEW d \in Device, IssueMemberChallenge(d, n) PROVE AccessInv'
  <2>1. issued' \in [Device -> 0 .. ChallengeLimit + 1]
    BY <1>2, AccessAssumption DEF IssueMemberChallenge, IncrementInWindow, AccessInv, AccessTyped
  <2>2. UNCHANGED <<refresh, account, call, spent, handed>>
        /\ (UNCHANGED challenge \/ SetChallenge(n, d))
    BY <1>2 DEF IssueMemberChallenge
  <2>3. d \in Principal
    BY DEF Principal
  <2>4. CASE UNCHANGED challenge
    BY <2>1, <2>2, <2>4, ChallengesOnly DEF AccessInv, AccessTyped
  <2>5. CASE SetChallenge(n, d)
    BY <2>1, <2>2, <2>3, <2>5, SetChallengeFacts, ChallengesOnly
  <2> QED BY <2>2, <2>4, <2>5
<1>3. ASSUME NEW n \in Nonce, NEW w \in Wallet, SwsChallenge(w, n) PROVE AccessInv'
  <2>1. SetChallenge(n, w) /\ UNCHANGED <<issued, refresh, account, call, spent, handed>>
    BY <1>3 DEF SwsChallenge
  <2>2. w \in Principal
    BY DEF Principal
  <2>3. issued' \in [Device -> 0 .. ChallengeLimit + 1]
    BY <2>1 DEF AccessInv, AccessTyped
  <2> QED BY <2>1, <2>2, <2>3, SetChallengeFacts, ChallengesOnly
<1>4. ASSUME NEW n \in Nonce, ExpireChallenge(n) PROVE AccessInv'
  <2>1. /\ challenge' = [m \in DOMAIN challenge \ {n} |-> challenge[m]]
        /\ UNCHANGED <<issued, refresh, account, call, spent, handed>>
    BY <1>4 DEF ExpireChallenge
  <2>2. /\ DOMAIN challenge' \subseteq DOMAIN challenge
        /\ \A m \in DOMAIN challenge' : challenge'[m] = challenge[m]
    BY <2>1
  <2>3. issued' \in [Device -> 0 .. ChallengeLimit + 1]
    BY <2>1 DEF AccessInv, AccessTyped
  <2> QED BY <2>1, <2>2, <2>3, ChallengesOnly DEF AccessInv, AccessTyped
<1>5. ASSUME NEW c \in Call, NEW p \in Principal, NEW signer \in Principal, NEW n \in Nonce,
             ConsumeChallenge(c, p, n, signer)
      PROVE  AccessInv'
  <2> DEFINE new == [at |-> IF p \in Device THEN "mint" ELSE "lookup", owner |-> p]
             won == n \in DOMAIN challenge /\ challenge[n] = p /\ signer = p
  <2>1. /\ challenge' = [m \in DOMAIN challenge \ {n} |-> challenge[m]]
        /\ UNCHANGED <<issued, refresh, account, handed>>
        /\ IF won THEN call' = [call EXCEPT ![c] = new] /\ spent' = [spent EXCEPT ![n] = @ + 1]
           ELSE UNCHANGED <<call, spent>>
    BY <1>5 DEF ConsumeChallenge, Consume, ProvesKey
  <2>2. new \in CallState /\ new.at # "session"
    <3>1. CASE p \in Device
      BY <3>1 DEF CallState, MemberCall
    <3>2. CASE p \notin Device
      BY <3>2 DEF CallState, LoginCall, Principal
    <3> QED BY <3>1, <3>2
  <2> HIDE DEF new
  <2>3. /\ DOMAIN challenge' \subseteq DOMAIN challenge /\ n \notin DOMAIN challenge'
        /\ \A m \in DOMAIN challenge' : challenge'[m] = challenge[m]
    BY <2>1
  <2>4. AccessTyped'
    BY <2>1, <2>2, <2>3 DEF AccessInv, AccessTyped
  <2>5. NonceSpentOnce'
    BY <2>1, <2>3 DEF AccessInv, AccessTyped, NonceSpentOnce
  <2>6. SessionsAgree' /\ OneUserPerWallet'
    BY <2>1, <2>2 DEF AccessInv, AccessTyped, SessionsAgree, OneUserPerWallet
  <2> QED BY <2>4, <2>5, <2>6 DEF AccessInv
<1>6. ASSUME NEW c \in Call, LookupAccount(c) PROVE AccessInv'
  <2> DEFINE w == call[c].owner
             found == [at |-> "session", owner |-> w, user |-> account[w]]
             none == [at |-> "create", owner |-> w]
  <2>1. /\ call' = [call EXCEPT ![c] = IF account[w] # NoUser THEN found ELSE none]
        /\ UNCHANGED <<challenge, issued, refresh, account, spent, handed>>
        /\ call[c].at = "lookup"
    BY <1>6 DEF LookupAccount
  <2>2. w \in Wallet
    BY <2>1, CallFacts DEF AccessInv
  <2>3. /\ account[w] # NoUser => found \in CallState
        /\ none \in CallState /\ none.at = "create"
        /\ found.user = account[found.owner]
    BY <2>2 DEF AccessInv, AccessTyped, CallState, SessionCall, LoginCall
  <2> HIDE DEF found, none
  <2>4. AccessTyped'
    BY <2>1, <2>3 DEF AccessInv, AccessTyped
  <2>5. SessionsAgree'
    BY <2>1, <2>3 DEF AccessInv, AccessTyped, SessionsAgree
  <2>6. NonceSpentOnce' /\ OneUserPerWallet'
    BY <2>1 DEF AccessInv, NonceSpentOnce, OneUserPerWallet
  <2> QED BY <2>4, <2>5, <2>6 DEF AccessInv
<1>7. ASSUME NEW c \in Call, CreateAccount(c) PROVE AccessInv'
  <2> DEFINE w == call[c].owner
             new == [at |-> "session", owner |-> w, user |-> account'[w]]
  <2>1. /\ account' = IF account[w] = NoUser THEN [account EXCEPT ![w] = c] ELSE account
        /\ call' = [call EXCEPT ![c] = new]
        /\ UNCHANGED <<challenge, issued, refresh, spent, handed>>
        /\ call[c].at = "create"
    BY <1>7 DEF CreateAccount
  <2>2. w \in Wallet
    BY <2>1, CallFacts DEF AccessInv
  <2>3. account' \in [Wallet -> {NoUser} \cup Call] /\ account'[w] \in Call
        /\ \A x \in Wallet : account[x] # NoUser => account'[x] = account[x]
    BY <2>1, <2>2, AccessAssumption DEF AccessInv, AccessTyped
  <2>4. new \in CallState /\ new.user = account'[new.owner]
    BY <2>2, <2>3 DEF CallState, SessionCall
  <2> HIDE DEF new
  <2>5. AccessTyped'
    BY <2>1, <2>3, <2>4 DEF AccessInv, AccessTyped
  <2>6. SessionsAgree'
    <3> SUFFICES ASSUME NEW b \in Call, call'[b].at = "session"
                 PROVE  account'[call'[b].owner] = call'[b].user
      BY DEF SessionsAgree
    <3>1. CASE b = c
      BY <2>1, <2>4, <3>1 DEF AccessInv, AccessTyped
    <3>2. CASE b # c
      <4>1. call'[b] = call[b]
        BY <2>1, <3>2 DEF AccessInv, AccessTyped
      <4>2. call[b].owner \in Wallet /\ call[b].user \in Call
        BY <4>1, CallFacts DEF AccessInv
      <4> QED BY <2>3, <4>1, <4>2, AccessAssumption DEF AccessInv, SessionsAgree
    <3> QED BY <3>1, <3>2
  <2>7. OneUserPerWallet'
    BY <2>1, <2>3 DEF AccessInv, AccessTyped, OneUserPerWallet
  <2>8. NonceSpentOnce'
    BY <2>1 DEF AccessInv, NonceSpentOnce
  <2> QED BY <2>5, <2>6, <2>7, <2>8 DEF AccessInv
<1>8. ASSUME NEW c \in Call, NEW t \in Token, Mint(c, t) PROVE AccessInv'
  <2> DEFINE w == call[c].owner
  <2>1. /\ refresh' = Minted(t, w) /\ FreshToken(t)
        /\ call' = [call EXCEPT ![c] = NoCall]
        /\ handed' = IF call[c].at = "session"
                     THEN [handed EXCEPT ![w] = @ \cup {call[c].user}] ELSE handed
        /\ UNCHANGED <<challenge, issued, account, spent>>
        /\ call[c].at \in {"mint", "session"}
    BY <1>8 DEF Mint
  <2>2. /\ w \in Principal
        /\ call[c].at = "session" => w \in Wallet /\ call[c].user \in Call
                                     /\ call[c].user = account[w]
    BY <2>1, CallFacts DEF AccessInv, Principal, SessionsAgree
  <2>3. AccessTyped'
    BY <2>1, <2>2, MintedIsTyped, IdleIsTyped DEF AccessInv, AccessTyped
  <2>4. SessionsAgree'
    BY <2>1, IdleIsTyped DEF AccessInv, AccessTyped, SessionsAgree
  <2>5. OneUserPerWallet'
    BY <2>1, <2>2, AccessAssumption DEF AccessInv, AccessTyped, OneUserPerWallet
  <2>6. NonceSpentOnce'
    BY <2>1 DEF AccessInv, NonceSpentOnce
  <2> QED BY <2>3, <2>4, <2>5, <2>6 DEF AccessInv
<1>9. ASSUME NEW c \in Call, NEW t \in Token, RefreshCommit(c, t) PROVE AccessInv'
  <2> DEFINE new == Minted(t, call[c].owner)
  <2>1. /\ refresh' = [new EXCEPT ![call[c].token].revoked = TRUE] /\ FreshToken(t)
        /\ call' = [call EXCEPT ![c] = NoCall]
        /\ UNCHANGED <<challenge, issued, account, spent, handed>>
        /\ call[c].at = "rotate"
    BY <1>9 DEF RefreshCommit
  <2>2. call[c].owner \in Principal
    BY <2>1, CallFacts DEF AccessInv
  <2>3. /\ DOMAIN new \subseteq Token
        /\ \A u \in DOMAIN new : new[u] \in TokenRow
    BY <2>1, <2>2 DEF AccessInv, AccessTyped, Minted, FreshToken, TokenRow
  <2> HIDE DEF new
  <2>4. /\ DOMAIN refresh' \subseteq Token
        /\ \A u \in DOMAIN refresh' : refresh'[u] \in TokenRow
    BY <2>1, <2>3 DEF TokenRow
  <2>5. AccessTyped'
    BY <2>1, <2>4, IdleIsTyped DEF AccessInv, AccessTyped
  <2>6. SessionsAgree' /\ OneUserPerWallet' /\ NonceSpentOnce'
    BY <2>1, IdleIsTyped DEF AccessInv, AccessTyped, SessionsAgree, OneUserPerWallet, NonceSpentOnce
  <2> QED BY <2>5, <2>6 DEF AccessInv
<1>10. ASSUME NEW c \in Call, NEW t \in Token, NEW p \in Principal, RefreshRead(c, t, p)
       PROVE  AccessInv'
  <2> DEFINE new == [at |-> "rotate", owner |-> p, token |-> t]
  <2>1. /\ call' = [call EXCEPT ![c] = new]
        /\ UNCHANGED <<challenge, issued, refresh, account, spent, handed>>
    BY <1>10 DEF RefreshRead
  <2>2. new \in CallState /\ new.at # "session"
    BY DEF CallState, RotationCall
  <2> HIDE DEF new
  <2>3. AccessTyped'
    BY <2>1, <2>2 DEF AccessInv, AccessTyped
  <2>4. SessionsAgree' /\ OneUserPerWallet' /\ NonceSpentOnce'
    BY <2>1, <2>2 DEF AccessInv, AccessTyped, SessionsAgree, OneUserPerWallet, NonceSpentOnce
  <2> QED BY <2>3, <2>4 DEF AccessInv
<1>11. ASSUME NEW t \in Token, Logout(t) PROVE AccessInv'
  <2>1. /\ t \in DOMAIN refresh /\ refresh' = [refresh EXCEPT ![t].revoked = TRUE]
        /\ UNCHANGED <<challenge, issued, account, call, spent, handed>>
    BY <1>11 DEF Logout
  <2>2. /\ DOMAIN refresh' \subseteq Token
        /\ \A u \in DOMAIN refresh' : refresh'[u] \in TokenRow
    BY <2>1 DEF AccessInv, AccessTyped, TokenRow
  <2>3. AccessTyped' /\ NonceSpentOnce'
    BY <2>1, <2>2 DEF AccessInv, AccessTyped, NonceSpentOnce
  <2> QED BY <2>1, <2>3, LoginsUntouched DEF AccessInv, LoginVars
<1>12. ASSUME NEW d \in Device, RevokeMemberTransport(d) PROVE AccessInv'
  <2>1. /\ refresh' = [t \in DOMAIN refresh |->
             IF refresh[t].owner = d THEN [refresh[t] EXCEPT !.revoked = TRUE] ELSE refresh[t]]
        /\ UNCHANGED <<challenge, issued, account, call, spent, handed>>
    BY <1>12 DEF RevokeMemberTransport
  <2>2. /\ DOMAIN refresh' \subseteq Token
        /\ \A u \in DOMAIN refresh' : refresh'[u] \in TokenRow
    BY <2>1 DEF AccessInv, AccessTyped, TokenRow
  <2>3. AccessTyped' /\ NonceSpentOnce'
    BY <2>1, <2>2 DEF AccessInv, AccessTyped, NonceSpentOnce
  <2> QED BY <2>1, <2>3, LoginsUntouched DEF AccessInv, LoginVars
<1> QED BY <1>1, <1>2, <1>3, <1>4, <1>5, <1>6, <1>7, <1>8, <1>9, <1>10, <1>11, <1>12
        DEF AccessNext

-----------------------------------------------------------------------------
(* The theorems.                                                           *)

LEMMA AccessInvHolds == AccessSpec => []AccessInv
BY AccessInvInit, AccessInvNext, PTL DEF AccessSpec

\* Type correctness of the credentials and the handlers in flight.
THEOREM AccessTypeCorrect == AccessSpec => []AccessTypeOK
<1>1. AccessInv => AccessTypeOK
  BY CallFacts DEF AccessInv, AccessTyped, AccessTypeOK, TokenRow
<1> QED BY <1>1, AccessInvHolds, PTL

\* A challenge nonce buys one login, whatever calls race for it (GETDEL).
THEOREM NoncesAreSpentOnce == AccessSpec => []NonceSpentOnce
<1>1. AccessInv => NonceSpentOnce
  BY DEF AccessInv
<1> QED BY <1>1, AccessInvHolds, PTL

\* First logins of one wallet that race are logged in as one user (verify_sws).
THEOREM WalletsHaveOneUser == AccessSpec => []OneUserPerWallet
<1>1. AccessInv => OneUserPerWallet
  BY DEF AccessInv
<1> QED BY <1>1, AccessInvHolds, PTL

-----------------------------------------------------------------------------
(* MemberRegistry: the members rows.                                       *)

(***************************************************************************)
(* A row is written once: every step keeps its user and keys.  With the    *)
(* types that is all the history needs, so the invariant is its own        *)
(* strengthening.                                                          *)
(***************************************************************************)
RegistryInv == RegistryTypeOK /\ RegistrationsStand

Identity(row) == <<row.user, row.sign_pk, row.key_id, row.kex_pk>>
RowsKept ==
  \A m \in DOMAIN members : m \in DOMAIN members' /\ Identity(members'[m]) = Identity(members[m])

LEMMA RegistrarFacts ==
  ASSUME RegistryTypeOK, NEW r \in Registrar, registrar[r].at = "insert"
  PROVE  registrar[r].request \in Request
<1>1. registrar[r] \in {NotAsking} \cup [at : {"insert"}, request : Request]
  BY DEF RegistryTypeOK
<1>2. NotAsking.at = "rest"
  BY DEF NotAsking
<1> QED BY <1>1, <1>2

LEMMA RequestFacts ==
  ASSUME NEW q \in Request
  PROVE  /\ q.member_id \in MemberId /\ q.user \in Account /\ q.sign_pk \in SignKey
         /\ q.kex_pk \in KexKey \cup {NoKey}
BY DEF Request

LEMMA NewRowFacts ==
  ASSUME NEW q \in Request
  PROVE  /\ NewRow(q) \in MemberRow
         /\ NewRow(q).user = q.user /\ NewRow(q).sign_pk = q.sign_pk
         /\ NewRow(q).key_id = DeriveKeyId(q.sign_pk) /\ NewRow(q).kex_pk = q.kex_pk
BY RequestFacts DEF NewRow, MemberRow

\* What a request needs of its row is about the identity alone, so it outlives
\* every step that keeps rows.
Answered(q) ==
  /\ q.member_id \in DOMAIN members
  /\ members[q.member_id].user = q.user
  /\ members[q.member_id].sign_pk = q.sign_pk
  /\ members[q.member_id].key_id = DeriveKeyId(q.sign_pk)
  /\ q.kex_pk \in {NoKey, members[q.member_id].kex_pk}

LEMMA StandsForAnswered == RegistrationsStand <=> \A q \in registered : Answered(q)
BY DEF RegistrationsStand, Answered, MemberOut, ListWorkspaceMembers

LEMMA StandsForAnsweredNext ==
  RegistrationsStand' <=> \A q \in registered' : Answered(q)'
BY DEF RegistrationsStand, Answered, MemberOut, ListWorkspaceMembers

LEMMA AnsweredIsKept ==
  ASSUME RowsKept, NEW q, Answered(q)
  PROVE  Answered(q)'
BY DEF RowsKept, Identity, Answered

LEMMA RegistryInvInit == RegistryInit => RegistryInv
BY DEF RegistryInit, RegistryInv, RegistryTypeOK, RegistrationsStand, Request

\* A stored row was checked against the answered request or is refused.
LEMMA RegisterInv ==
  ASSUME RegistryInv, NEW r \in Registrar, NEW q \in Request,
         NEW claim \in SignKey \cup {NoKey}, RegisterMember(r, q, claim)
  PROVE  RegistryInv'
<1>1. members' = members /\ RowsKept
  BY DEF RegisterMember, RowsKept
<1>2. registered' \subseteq registered \cup {q} /\ registered' \subseteq Request
  BY DEF RegisterMember, RegistryInv, RegistryTypeOK
<1>3. registrar' \in [Registrar -> {NotAsking} \cup [at : {"insert"}, request : Request]]
  BY DEF RegisterMember, RegistryInv, RegistryTypeOK
<1>4. RegistryTypeOK'
  BY <1>1, <1>2, <1>3 DEF RegistryInv, RegistryTypeOK
<1>5. ASSUME NEW p \in registered' PROVE Answered(p)'
  <2>1. CASE p \in registered
    <3>1. Answered(p)
      BY <2>1, StandsForAnswered DEF RegistryInv
    <3> QED BY <1>1, <3>1, AnsweredIsKept
  <2>2. CASE p \notin registered
    <3>1. /\ p = q /\ q.member_id \in DOMAIN members
          /\ IsReregistration(members[q.member_id], q)
      BY <1>2, <1>5, <2>2 DEF RegisterMember
    <3>2. members[q.member_id].key_id = DeriveKeyId(members[q.member_id].sign_pk)
      BY <3>1 DEF RegistryInv, RegistryTypeOK
    <3> QED BY <1>1, <3>1, <3>2 DEF Answered, IsReregistration
  <2> QED BY <2>1, <2>2
<1> QED BY <1>4, <1>5, StandsForAnsweredNext DEF RegistryInv

LEMMA InsertInv ==
  ASSUME RegistryInv, NEW r \in Registrar, InsertMember(r)
  PROVE  RegistryInv'
<1> DEFINE q == registrar[r].request
<1>1. q \in Request
  BY RegistrarFacts DEF InsertMember, RegistryInv
<1>2. registrar' \in [Registrar -> {NotAsking} \cup [at : {"insert"}, request : Request]]
  BY DEF InsertMember, RegistryInv, RegistryTypeOK
<1>3. CASE q.member_id \in DOMAIN members
  <2>1. members' = members /\ registered' = registered
    BY <1>3 DEF InsertMember
  <2> QED BY <1>2, <2>1 DEF RegistryInv, RegistryTypeOK, RegistrationsStand, MemberOut,
                            ListWorkspaceMembers
<1>4. CASE q.member_id \notin DOMAIN members
  <2>1. members' = WithRow(q.member_id, NewRow(q)) /\ registered' = registered \cup {q}
    BY <1>4 DEF InsertMember
  <2>2. /\ DOMAIN members' = DOMAIN members \cup {q.member_id}
        /\ members'[q.member_id] = NewRow(q)
        /\ \A m \in DOMAIN members : members'[m] = members[m]
    BY <1>4, <2>1 DEF WithRow
  <2>3. RowsKept
    BY <2>2 DEF RowsKept
  <2>4. RegistryTypeOK'
    BY <1>1, <1>2, <2>1, <2>2, NewRowFacts, RequestFacts DEF RegistryInv, RegistryTypeOK
  <2>5. ASSUME NEW p \in registered' PROVE Answered(p)'
    <3>1. CASE p \in registered
      <4>1. Answered(p)
        BY <3>1, StandsForAnswered DEF RegistryInv
      <4> QED BY <2>3, <4>1, AnsweredIsKept
    <3>2. CASE p = q
      BY <1>1, <2>2, <3>2, NewRowFacts DEF Answered
    <3> QED BY <2>1, <3>1, <3>2
  <2> QED BY <2>4, <2>5, StandsForAnsweredNext DEF RegistryInv
<1> QED BY <1>3, <1>4

LEMMA ChainInv ==
  ASSUME RegistryInv, NEW m \in MemberId, NEW kind \in MemberKind, ChainMember(m, kind)
  PROVE  RegistryInv'
<1>1. /\ m \in DOMAIN members /\ members[m] \in MemberRow
      /\ members' = [members EXCEPT ![m].chained = TRUE, ![m].member_kind = kind]
      /\ registered' = registered /\ registrar' = registrar
  BY DEF ChainMember, RegistryInv, RegistryTypeOK
<1>2. /\ DOMAIN members' = DOMAIN members
      /\ members'[m] = [members[m] EXCEPT !.chained = TRUE, !.member_kind = kind]
      /\ \A n \in DOMAIN members : n # m => members'[n] = members[n]
  BY <1>1
<1>3. members'[m] \in MemberRow /\ Identity(members'[m]) = Identity(members[m])
  <2> DEFINE row == members[m]
  <2>1. row \in MemberRow
    BY <1>1
  <2> HIDE DEF row
  <2>2. /\ [row EXCEPT !.chained = TRUE, !.member_kind = kind] \in MemberRow
        /\ Identity([row EXCEPT !.chained = TRUE, !.member_kind = kind]) = Identity(row)
    BY <2>1 DEF MemberRow, Identity
  <2> QED BY <1>2, <2>2 DEF row
<1>4. RowsKept
  BY <1>2, <1>3 DEF RowsKept
<1>5. members'[m].key_id = DeriveKeyId(members'[m].sign_pk)
  BY <1>1, <1>3 DEF RegistryInv, RegistryTypeOK, Identity
<1>6. RegistryTypeOK'
  BY <1>1, <1>2, <1>3, <1>5 DEF RegistryInv, RegistryTypeOK
<1>7. ASSUME NEW p \in registered' PROVE Answered(p)'
  <2>1. Answered(p)
    BY <1>1, <1>7, StandsForAnswered DEF RegistryInv
  <2> QED BY <1>4, <2>1, AnsweredIsKept
<1> QED BY <1>6, <1>7, StandsForAnsweredNext DEF RegistryInv

LEMMA RegistryInvNext == RegistryInv /\ [RegistryNext]_registryVars => RegistryInv'
<1> SUFFICES ASSUME RegistryInv, [RegistryNext]_registryVars PROVE RegistryInv'
  OBVIOUS
<1>1. CASE \E r \in Registrar, q \in Request, claim \in SignKey \cup {NoKey} :
             RegisterMember(r, q, claim)
  BY <1>1, RegisterInv
<1>2. CASE \E r \in Registrar : InsertMember(r)
  BY <1>2, InsertInv
<1>3. CASE \E m \in MemberId, kind \in MemberKind : ChainMember(m, kind)
  BY <1>3, ChainInv
<1>4. CASE UNCHANGED registryVars
  BY <1>4 DEF registryVars, RegistryInv, RegistryTypeOK, RegistrationsStand, MemberOut,
              ListWorkspaceMembers
<1> QED BY <1>1, <1>2, <1>3, <1>4 DEF RegistryNext

\* The rows, the calls and the history keep their types.
THEOREM RegistryTypeCorrect == RegistrySpec => []RegistryTypeOK
<1>1. RegistryInv => RegistryTypeOK
  BY DEF RegistryInv
<1> QED BY RegistryInvInit, RegistryInvNext, <1>1, PTL DEF RegistrySpec

\* POST /members: an id answered with success belongs to that user and those
\* keys for good, however many registrations of it race.
THEOREM RegistrationsAreKept == RegistrySpec => []RegistrationsStand
<1>1. RegistryInv => RegistrationsStand
  BY DEF RegistryInv
<1> QED BY RegistryInvInit, RegistryInvNext, <1>1, PTL DEF RegistrySpec

-----------------------------------------------------------------------------
(* RecoveryEscrow: the recovery slot.                                      *)

-----------------------------------------------------------------------------
(* Types.                                                                  *)

PutState == {Idle} \cup [at : {"write", "answer"}, version : 1 .. MaxVersion,
                         root_pk : Root, observed : 0 .. MaxVersion]
GetState == {Idle} \cup [at : {"audit", "serve"}, row : Row]

LEMMA EscrowVersion ==
  ASSUME EscrowTypeOK
  PROVE  /\ escrow.version \in 0 .. MaxVersion
         /\ Stored => escrow \in Row /\ escrow.version \in 1 .. MaxVersion
         /\ ~Stored => escrow = NoEscrow
<1>1. MaxVersion \in Nat \ {0}
  BY EscrowAssumption
<1> QED BY <1>1 DEF EscrowTypeOK, Row, NoEscrow, Stored, NO_ESCROW_STORED_VERSION

LEMMA PutterWrites ==
  ASSUME EscrowTypeOK, NEW w \in Writer, put[w].at \in {"write", "answer"}
  PROVE  /\ put[w] \in [at : {"write", "answer"}, version : 1 .. MaxVersion,
                        root_pk : Root, observed : 0 .. MaxVersion]
         /\ put[w].version \in 1 .. MaxVersion
         /\ put[w].root_pk \in Root
         /\ put[w].observed \in 0 .. MaxVersion
<1>1. put[w] \in PutState
  BY DEF EscrowTypeOK, PutState
<1>2. Idle.at \notin {"write", "answer"}
  BY DEF Idle
<1> QED BY <1>1, <1>2 DEF PutState

LEMMA GetterHolds ==
  ASSUME EscrowTypeOK, NEW r \in Reader, get[r].at # "idle"
  PROVE  get[r].at \in {"audit", "serve"} /\ get[r].row \in Row
<1>1. get[r] \in GetState
  BY DEF EscrowTypeOK, GetState
<1>2. Idle.at = "idle"
  BY DEF Idle
<1> QED BY <1>1, <1>2 DEF GetState

LEMMA EscrowTypesInit == EscrowInit => EscrowTypeOK
<1> SUFFICES ASSUME EscrowInit PROVE EscrowTypeOK
  OBVIOUS
<1>1. MaxVersion \in Nat \ {0} /\ FetchLimit \in Nat /\ MaxDeaths \in Nat
  BY EscrowAssumption
<1>2. /\ escrow = NoEscrow /\ fetches = 0 /\ audited = 0 /\ served = 0
      /\ accepted = {} /\ deaths = 0
      /\ put = [w \in Writer |-> Idle] /\ get = [r \in Reader |-> Idle]
  BY DEF EscrowInit
<1>3. put \in [Writer -> PutState] /\ get \in [Reader -> GetState]
  BY <1>2 DEF PutState, GetState
<1> QED BY <1>1, <1>2, <1>3 DEF EscrowTypeOK, PutState, GetState

\* What each kind of step may change, as far as types go.
LEMMA EscrowTypesNext ==
  ASSUME EscrowTypeOK, [EscrowNext]_escrowVars PROVE EscrowTypeOK'
<1>0. MaxVersion \in Nat \ {0} /\ FetchLimit \in Nat /\ MaxDeaths \in Nat
  BY EscrowAssumption
<1>1. /\ escrow \in Row \cup {NoEscrow}
      /\ put \in [Writer -> PutState] /\ get \in [Reader -> GetState]
      /\ fetches \in 0 .. FetchLimit + 1 /\ audited \in Nat /\ served \in Nat
      /\ accepted \subseteq (1 .. MaxVersion) \X Writer
      /\ deaths \in 0 .. MaxDeaths
  BY DEF EscrowTypeOK, PutState, GetState
<1> DEFINE Typed == /\ escrow' \in Row \cup {NoEscrow}
                    /\ put' \in [Writer -> PutState] /\ get' \in [Reader -> GetState]
                    /\ fetches' \in 0 .. FetchLimit + 1 /\ audited' \in Nat
                    /\ served' \in Nat
                    /\ accepted' \subseteq (1 .. MaxVersion) \X Writer
                    /\ deaths' \in 0 .. MaxDeaths
<1>2. SUFFICES Typed
  BY DEF EscrowTypeOK, PutState, GetState, Row, NoEscrow
<1>3. Row' = Row /\ NoEscrow' = NoEscrow
  BY DEF Row, NoEscrow
<1>4. Idle \in PutState /\ Idle \in GetState
  BY DEF PutState, GetState
<1>5. CASE UNCHANGED escrowVars
  BY <1>1, <1>3, <1>5 DEF escrowVars
<1>6. ASSUME NEW w \in Writer, NEW v \in 0 .. MaxVersion, NEW pk \in Root,
             NEW signer \in Root, PutRead(w, v, pk, signer)
      PROVE  put' \in [Writer -> PutState]
  <2> DEFINE new == [at |-> "write", version |-> v, root_pk |-> pk,
                     observed |-> escrow.version]
  <2>1. v \in 1 .. MaxVersion /\ escrow.version \in 0 .. MaxVersion
    BY <1>0, <1>6, EscrowVersion DEF PutRead, FIRST_ESCROW_VERSION
  <2>2. new \in PutState
    BY <2>1 DEF PutState
  <2>3. put' = [put EXCEPT ![w] = new]
    BY <1>6 DEF PutRead
  <2> HIDE DEF new
  <2> QED BY <1>1, <2>2, <2>3
<1>7. CASE \E w \in Writer, v \in 0 .. MaxVersion, pk, signer \in Root :
             PutRead(w, v, pk, signer)
  <2>1. UNCHANGED <<escrow, get, fetches, audited, served, accepted, deaths>>
    BY <1>7 DEF PutRead
  <2>2. put' \in [Writer -> PutState]
    BY <1>6, <1>7
  <2> QED BY <1>1, <1>3, <2>1, <2>2
<1>8. ASSUME NEW w \in Writer, put[w].at = "write",
             \/ Refuse(w)
             \/ Commit(w) /\ escrow' \in Row,
             UNCHANGED <<get, fetches, audited, served, accepted, deaths>>
      PROVE  Typed
  <2>1. [put[w] EXCEPT !.at = "answer"] \in PutState
    BY <1>8, PutterWrites DEF PutState
  <2>2. put' \in [Writer -> PutState]
    BY <1>1, <1>4, <1>8, <2>1 DEF Commit, Refuse
  <2> QED BY <1>1, <1>3, <1>8, <2>2 DEF Refuse
<1>9. ASSUME NEW w \in Writer, PutInsert(w) PROVE Typed
  <2>1. put[w].version \in 1 .. MaxVersion /\ put[w].root_pk \in Root
    BY <1>9, PutterWrites DEF PutInsert
  <2>2. [version |-> put[w].version, blob |-> w, root_pk |-> put[w].root_pk] \in Row
    BY <2>1 DEF Row
  <2> QED BY <1>8, <1>9, <2>2 DEF PutInsert
<1>10. ASSUME NEW w \in Writer, PutUpdate(w) PROVE Typed
  <2>1. put[w].version \in 1 .. MaxVersion
    BY <1>10, PutterWrites DEF PutUpdate
  <2>2. CASE escrow.version # put[w].observed
    BY <1>8, <1>10, <2>2 DEF PutUpdate
  <2>3. CASE escrow.version = put[w].observed
    <3>1. escrow \in Row
      BY <1>10, <2>3, EscrowVersion DEF PutUpdate, Stored
    <3>2. [escrow EXCEPT !.version = put[w].version, !.blob = w] \in Row
      BY <2>1, <3>1 DEF Row
    <3> QED BY <1>8, <1>10, <2>3, <3>2 DEF PutUpdate
  <2> QED BY <2>2, <2>3
<1>11. ASSUME NEW r \in Reader, GetCount(r) PROVE Typed
  <2>1. fetches' \in 0 .. FetchLimit + 1
    BY <1>0, <1>1, <1>11 DEF GetCount
  <2>2. [at |-> "audit", row |-> escrow] \in GetState
    BY <1>11, EscrowVersion DEF GetCount, GetState
  <2>3. get' \in [Reader -> GetState]
    BY <1>1, <1>11, <2>2 DEF GetCount
  <2>4. UNCHANGED <<escrow, put, audited, served, accepted, deaths>>
    BY <1>11 DEF GetCount
  <2> QED BY <1>1, <1>3, <2>1, <2>3, <2>4
<1>12. ASSUME NEW r \in Reader, GetAudit(r) PROVE Typed
  <2>1. get[r].at # "idle"
    BY <1>12 DEF GetAudit
  <2>2. get[r] \in [at : {"audit", "serve"}, row : Row]
    BY <1>1, <2>1 DEF GetState, Idle
  <2>3. [get[r] EXCEPT !.at = "serve"] \in GetState
    BY <2>2 DEF GetState
  <2>4. get' \in [Reader -> GetState]
    BY <1>1, <1>12, <2>3 DEF GetAudit
  <2>5. audited' \in Nat /\ UNCHANGED <<escrow, put, fetches, served, accepted, deaths>>
    BY <1>1, <1>12 DEF GetAudit
  <2> QED BY <1>1, <1>3, <2>4, <2>5
<1>13. ASSUME NEW r \in Reader, GetServe(r) PROVE Typed
  <2>1. get' \in [Reader -> GetState]
    BY <1>1, <1>4, <1>13 DEF GetServe
  <2>2. served' \in Nat /\ UNCHANGED <<escrow, put, fetches, audited, accepted, deaths>>
    BY <1>1, <1>13 DEF GetServe
  <2> QED BY <1>1, <1>3, <2>1, <2>2
<1>14. CASE Die
  <2>1. put' \in [Writer -> PutState] /\ get' \in [Reader -> GetState]
    BY <1>4, <1>14 DEF Die
  <2>2. deaths' \in 0 .. MaxDeaths
    BY <1>0, <1>1, <1>14 DEF Die
  <2> QED BY <1>1, <1>3, <1>14, <2>1, <2>2 DEF Die
<1>15. ASSUME NEW w \in Writer, PutAnswer(w) PROVE Typed
  <2>1. put' \in [Writer -> PutState]
    BY <1>1, <1>4, <1>15 DEF PutAnswer
  <2>2. accepted' \subseteq (1 .. MaxVersion) \X Writer
    BY <1>1, <1>15, PutterWrites DEF PutAnswer
  <2>3. UNCHANGED <<escrow, get, fetches, audited, served, deaths>>
    BY <1>15 DEF PutAnswer
  <2> QED BY <1>1, <1>3, <2>1, <2>2, <2>3
<1> QED BY <1>5, <1>7, <1>9, <1>10, <1>11, <1>12, <1>13, <1>14, <1>15 DEF EscrowNext

\* The row, the counters and what each handler holds keep their types,
\* whatever races or dies.
THEOREM EscrowTypeCorrect == EscrowSpec => []EscrowTypeOK
  BY EscrowTypesInit, EscrowTypesNext, PTL DEF EscrowSpec

-----------------------------------------------------------------------------
(* Writes.                                                                 *)

\* A handler about to write goes past the version it read.
WritersGoUp ==
  \A w \in Writer : put[w].at = "write" => put[w].version > put[w].observed

\* What was told, or is committed and about to be.
Told == accepted \cup {<<put[w].version, w>> : w \in {v \in Writer : put[v].at = "answer"}}

\* AcceptedIsStored, of a set of versions with their writers and a slot.
StandsIn(told, slot) ==
  /\ \A a, b \in told : a[1] = b[1] => a = b
  /\ \A a \in told : a[1] <= slot.version /\ (a[1] = slot.version => a[2] = slot.blob)

WritesInv == EscrowTypeOK /\ StandsIn(Told, escrow) /\ WritersGoUp

LEMMA WritesInitially == EscrowInit => WritesInv
<1> SUFFICES ASSUME EscrowInit PROVE WritesInv
  OBVIOUS
<1>1. EscrowTypeOK
  BY EscrowTypesInit
<1>2. accepted = {} /\ \A w \in Writer : put[w].at = "idle"
  BY DEF EscrowInit, Idle
<1> QED BY <1>1, <1>2 DEF WritesInv, StandsIn, Told, WritersGoUp

\* A write is to a version above all before it.
LEMMA WriteIsNew ==
  ASSUME EscrowTypeOK, WritersGoUp, NEW w \in Writer, PutInsert(w) \/ PutUpdate(w),
         escrow' # escrow
  PROVE  /\ put[w].version \in 1 .. MaxVersion
         /\ put[w].version > escrow.version
         /\ escrow'.version = put[w].version /\ escrow'.blob = w
         /\ Stored => escrow'.root_pk = escrow.root_pk
         /\ Commit(w) /\ accepted' = accepted
<1>2. put[w].at = "write"
  BY DEF PutInsert, PutUpdate
<1>3. /\ put[w].version \in 1 .. MaxVersion
      /\ put[w].version > put[w].observed
  BY <1>2, PutterWrites DEF WritersGoUp
<1>4. CASE PutInsert(w)
  <2>1. ~Stored
    BY <1>4 DEF PutInsert, Refuse
  <2>2. escrow.version = 0
    BY <2>1, EscrowVersion DEF NoEscrow, NO_ESCROW_STORED_VERSION
  <2> QED BY <1>3, <1>4, <2>1, <2>2 DEF PutInsert
<1>5. CASE PutUpdate(w)
  <2>1. escrow.version = put[w].observed /\ put[w].observed # 0
    BY <1>5 DEF PutUpdate, Refuse, NO_ESCROW_STORED_VERSION
  <2>2. Stored
    BY <2>1 DEF Stored, NO_ESCROW_STORED_VERSION
  <2>3. escrow \in Row
    BY <2>2, EscrowVersion
  <2>4. /\ escrow' = [escrow EXCEPT !.version = put[w].version, !.blob = w]
        /\ Commit(w) /\ accepted' = accepted
    BY <1>5, <2>1 DEF PutUpdate
  <2>5. /\ escrow'.version = put[w].version /\ escrow'.blob = w
        /\ escrow'.root_pk = escrow.root_pk
    BY <2>3, <2>4 DEF Row
  <2> QED BY <1>3, <2>1, <2>4, <2>5
<1> QED BY <1>4, <1>5

\* Only a write touches the slot.
LEMMA OnlyWritesWrite ==
  ASSUME [EscrowNext]_escrowVars, escrow' # escrow
  PROVE  \E w \in Writer : PutInsert(w) \/ PutUpdate(w)
BY DEF EscrowNext, escrowVars, PutRead, PutAnswer, GetCount, GetAudit, GetServe, Die

\* A step that leaves the slot alone tells, or is about to tell, nothing new.
LEMMA NothingElseIsTold ==
  ASSUME EscrowTypeOK, WritersGoUp, [EscrowNext]_escrowVars, escrow' = escrow
  PROVE  Told' \subseteq Told
<1>1. put = [v \in Writer |-> put[v]]
  BY DEF EscrowTypeOK
<1>2. CASE UNCHANGED <<put, accepted>>
  BY <1>2 DEF Told
<1>3. ASSUME NEW w \in Writer, NEW new, new.at # "answer", put' = [put EXCEPT ![w] = new],
             accepted' = accepted
      PROVE  Told' \subseteq Told
  <2>1. \A v \in Writer : put'[v] = IF v = w THEN new ELSE put[v]
    BY <1>1, <1>3
  <2> QED BY <1>3, <2>1 DEF Told
<1>4. ASSUME NEW w \in Writer, NEW v \in 0 .. MaxVersion, NEW pk \in Root,
             NEW signer \in Root, PutRead(w, v, pk, signer)
      PROVE  Told' \subseteq Told
  <2> DEFINE new == [at |-> "write", version |-> v, root_pk |-> pk,
                     observed |-> escrow.version]
  <2>1. new.at # "answer"
    OBVIOUS
  <2>2. put' = [put EXCEPT ![w] = new] /\ accepted' = accepted
    BY <1>4 DEF PutRead
  <2> HIDE DEF new
  <2> QED BY <1>3, <2>1, <2>2
<1>5. ASSUME NEW w \in Writer, PutInsert(w) \/ PutUpdate(w) PROVE Told' \subseteq Told
  <2>1. put[w].at = "write"
    BY <1>5 DEF PutInsert, PutUpdate
  <2>2. Idle.at # "answer"
    BY DEF Idle
  <2>3. CASE put' = [put EXCEPT ![w] = Idle] /\ accepted' = accepted
    BY <1>3, <2>2, <2>3
  <2>4. CASE ~(put' = [put EXCEPT ![w] = Idle] /\ accepted' = accepted)
    <3>1. /\ put[w].version \in 1 .. MaxVersion
          /\ put[w].version > put[w].observed /\ put[w].observed \in 0 .. MaxVersion
      BY <2>1, PutterWrites DEF WritersGoUp
    <3>2. CASE PutInsert(w)
      <4>1. ~Stored /\ escrow'.version = put[w].version
        BY <2>4, <3>2 DEF PutInsert, Refuse
      <4>2. escrow.version = 0
        BY <4>1, EscrowVersion DEF NoEscrow, NO_ESCROW_STORED_VERSION
      <4> QED BY <3>1, <4>1, <4>2
    <3>3. CASE PutUpdate(w)
      <4>1. /\ escrow.version = put[w].observed /\ put[w].observed # 0
            /\ escrow' = [escrow EXCEPT !.version = put[w].version, !.blob = w]
        BY <2>4, <3>3 DEF PutUpdate, Refuse, NO_ESCROW_STORED_VERSION
      <4>2. escrow \in Row
        BY <4>1, EscrowVersion DEF Stored, NO_ESCROW_STORED_VERSION
      <4>3. escrow'.version = put[w].version
        BY <4>1, <4>2 DEF Row
      <4> QED BY <3>1, <4>1, <4>3, EscrowAssumption
    <3> QED BY <1>5, <3>2, <3>3
  <2> QED BY <2>3, <2>4
<1>6. ASSUME NEW w \in Writer, PutAnswer(w) PROVE Told' \subseteq Told
  <2>1. /\ put[w].at = "answer" /\ put' = [put EXCEPT ![w] = Idle]
        /\ accepted' = accepted \cup {<<put[w].version, w>>}
    BY <1>6 DEF PutAnswer
  <2>2. \A v \in Writer : put'[v] = IF v = w THEN Idle ELSE put[v]
    BY <1>1, <2>1
  <2> QED BY <2>1, <2>2 DEF Told, Idle
<1>7. CASE Die
  BY <1>7 DEF Die, Told, Idle
<1> QED BY <1>2, <1>4, <1>5, <1>6, <1>7
      DEF EscrowNext, escrowVars, GetCount, GetAudit, GetServe

LEMMA WritesPreserved ==
  ASSUME WritesInv, [EscrowNext]_escrowVars PROVE WritesInv'
<1>1. EscrowTypeOK'
  BY EscrowTypesNext DEF WritesInv
<1>2. MaxVersion \in Nat \ {0} /\ EscrowTypeOK /\ WritersGoUp
  BY EscrowAssumption DEF WritesInv
<1>3. StandsIn(Told, escrow)'
  <2>1. CASE escrow' = escrow
    BY <1>2, <2>1, NothingElseIsTold DEF WritesInv, StandsIn
  <2>2. CASE escrow' # escrow
    <3>1. PICK w \in Writer : PutInsert(w) \/ PutUpdate(w)
      BY <2>2, OnlyWritesWrite
    <3> DEFINE v == put[w].version
    <3>2. /\ v \in 1 .. MaxVersion /\ v > escrow.version
          /\ escrow'.version = v /\ escrow'.blob = w
          /\ Commit(w) /\ accepted' = accepted
      BY <1>2, <2>2, <3>1, WriteIsNew
    <3>3. escrow.version \in 0 .. MaxVersion
      BY <1>2, EscrowVersion
    <3>4. Told' \subseteq Told \cup {<<v, w>>}
      <4>1. put = [u \in Writer |-> put[u]]
        BY <1>2 DEF EscrowTypeOK
      <4>2. \A u \in Writer : put'[u] = IF u = w THEN [put[w] EXCEPT !.at = "answer"] ELSE put[u]
        BY <3>2, <4>1 DEF Commit
      <4>3. put[w].at = "write"
        BY <3>1 DEF PutInsert, PutUpdate
      <4>4. [put[w] EXCEPT !.at = "answer"].version = v
        BY <1>2, <4>3, PutterWrites
      <4>5. ASSUME NEW a \in Told' PROVE a \in Told \cup {<<v, w>>}
        <5>1. CASE a \in accepted'
          BY <3>2, <5>1 DEF Told
        <5>2. CASE a \notin accepted'
          <6>1. PICK u \in Writer : put'[u].at = "answer" /\ a = <<put'[u].version, u>>
            BY <5>2 DEF Told
          <6>2. CASE u = w
            BY <4>2, <4>4, <6>1, <6>2
          <6>3. CASE u # w
            BY <4>2, <6>1, <6>3 DEF Told
          <6> QED BY <6>2, <6>3
        <5> QED BY <5>1, <5>2
      <4> QED BY <4>5
    <3> HIDE DEF v
    <3>5. \A a \in Told : a[1] \in 1 .. MaxVersion /\ a[1] <= escrow.version
      <4>1. \A a \in accepted : a[1] \in 1 .. MaxVersion
        BY <1>2 DEF EscrowTypeOK
      <4>2. \A u \in Writer : put[u].at = "answer" => put[u].version \in 1 .. MaxVersion
        BY <1>2, PutterWrites
      <4> QED BY <4>1, <4>2 DEF WritesInv, StandsIn, Told
    <3>6. \A a \in Told : a[1] < v
      BY <1>2, <3>2, <3>3, <3>5
    <3>7. \A a, b \in Told' : a[1] = b[1] => a = b
      BY <1>2, <3>2, <3>4, <3>5, <3>6 DEF WritesInv, StandsIn
    <3>8. \A a \in Told' : a[1] <= escrow'.version /\ (a[1] = escrow'.version => a[2] = escrow'.blob)
      BY <1>2, <3>2, <3>4, <3>5, <3>6
    <3> QED BY <3>7, <3>8 DEF StandsIn
  <2> QED BY <2>1, <2>2
<1>4. WritersGoUp'
  <2>1. CASE UNCHANGED put
    BY <2>1 DEF WritesInv, WritersGoUp
  <2>2. CASE \E w \in Writer : put' = [put EXCEPT ![w] = Idle] \/ Commit(w)
    BY <1>2, <2>2 DEF WritesInv, WritersGoUp, Idle, Commit, EscrowTypeOK
  <2>3. CASE put' = [w \in Writer |-> Idle]
    BY <2>3 DEF WritersGoUp, Idle
  <2>4. ASSUME NEW w \in Writer, NEW v \in 0 .. MaxVersion, NEW pk \in Root,
               NEW signer \in Root, PutRead(w, v, pk, signer)
        PROVE  WritersGoUp'
    <3> DEFINE new == [at |-> "write", version |-> v, root_pk |-> pk,
                       observed |-> escrow.version]
    <3>1. v > escrow.version
      BY <1>2, <2>4, EscrowVersion
         DEF PutRead, Stored, FIRST_ESCROW_VERSION, NO_ESCROW_STORED_VERSION, NoEscrow
    <3>2. new.version > new.observed
      BY <3>1
    <3>3. put' = [put EXCEPT ![w] = new]
      BY <2>4 DEF PutRead
    <3> HIDE DEF new
    <3> QED BY <1>2, <3>2, <3>3 DEF WritesInv, WritersGoUp, EscrowTypeOK
  <2> QED BY <2>1, <2>2, <2>3, <2>4
        DEF EscrowNext, escrowVars, PutInsert, PutUpdate, PutAnswer, Refuse,
            GetCount, GetAudit, GetServe, Die
<1> QED BY <1>1, <1>3, <1>4 DEF WritesInv

\* No acknowledged escrow is lost to a racing PUT: what a writer was told it stored is
\* the slot's blob until a higher version supersedes it, and no other was told the same
\* version, whichever handlers die between their commit and their answer.
THEOREM AcceptedEscrowsAreStored == EscrowSpec => []AcceptedIsStored
<1>1. WritesInv => AcceptedIsStored
  BY DEF WritesInv, StandsIn, Told, AcceptedIsStored
<1> QED BY <1>1, WritesInitially, WritesPreserved, PTL DEF EscrowSpec

LEMMA SlotStepsForward ==
  ASSUME WritesInv, [EscrowNext]_escrowVars, Stored
  PROVE  /\ escrow'.version >= escrow.version
         /\ escrow'.root_pk = escrow.root_pk
         /\ escrow'.version = escrow.version => escrow' = escrow
<1>1. escrow.version \in 0 .. MaxVersion /\ MaxVersion \in Nat
  BY EscrowVersion, EscrowAssumption DEF WritesInv
<1>2. CASE escrow' = escrow
  BY <1>1, <1>2
<1>3. CASE escrow' # escrow
  <2>2. PICK w \in Writer : PutInsert(w) \/ PutUpdate(w)
    BY <1>3, OnlyWritesWrite
  <2>3. /\ put[w].version \in 1 .. MaxVersion /\ put[w].version > escrow.version
        /\ escrow'.version = put[w].version /\ escrow'.root_pk = escrow.root_pk
    BY <1>3, <2>2, WriteIsNew DEF WritesInv
  <2> QED BY <1>1, <2>3
<1> QED BY <1>2, <1>3

\* The slot keeps the root it was first written under and its version only
\* rises: a replayed or racing PUT never puts an older blob back.
THEOREM EscrowMovesForward == EscrowSpec => SlotMovesForward
<1>1. WritesInv /\ [EscrowNext]_escrowVars
        => [Stored => /\ escrow'.version >= escrow.version
                      /\ escrow'.root_pk = escrow.root_pk
                      /\ escrow'.version = escrow.version => escrow' = escrow]_escrowVars
  BY SlotStepsForward
<1> QED BY <1>1, WritesInitially, WritesPreserved, PTL DEF EscrowSpec, SlotMovesForward

-----------------------------------------------------------------------------
(* Fetches.                                                                *)

Fetching == {r \in Reader : get[r].at # "idle"}

\* Every fetch served or under way was counted while the window had room, and
\* every blob served or about to be is on record.
FetchesInv ==
  /\ EscrowTypeOK
  /\ served + Cardinality(Fetching) <= fetches
  /\ served + Cardinality(Fetching) <= FetchLimit
  /\ served + Cardinality(Serving) <= audited

LEMMA SetsAreFinite ==
  /\ IsFiniteSet(Fetching) /\ Cardinality(Fetching) \in Nat
  /\ IsFiniteSet(Serving) /\ Cardinality(Serving) \in Nat
<1>1. Fetching \in SUBSET Reader /\ Serving \in SUBSET Reader
  BY DEF Fetching, Serving
<1> QED BY <1>1, EscrowAssumption, FS_Subset, FS_CardinalityType

LEMMA FetchesInitially == EscrowInit => FetchesInv
<1> SUFFICES ASSUME EscrowInit PROVE FetchesInv
  OBVIOUS
<1>1. Fetching = {} /\ Serving = {} /\ served = 0 /\ audited = 0 /\ fetches = 0
  BY DEF EscrowInit, Fetching, Serving, Idle
<1>2. Cardinality({}) = 0 /\ FetchLimit \in Nat
  BY FS_EmptySet, EscrowAssumption
<1> QED BY <1>1, <1>2, EscrowTypesInit DEF FetchesInv

LEMMA FetchesPreserved ==
  ASSUME FetchesInv, [EscrowNext]_escrowVars PROVE FetchesInv'
<1>1. EscrowTypeOK'
  BY EscrowTypesNext DEF FetchesInv
<1>2. /\ EscrowTypeOK /\ FetchLimit \in Nat
      /\ fetches \in Nat /\ audited \in Nat /\ served \in Nat
      /\ DOMAIN get = Reader
  BY EscrowAssumption DEF FetchesInv, EscrowTypeOK
<1>3. /\ Cardinality(Fetching) \in Nat /\ Cardinality(Serving) \in Nat
      /\ served + Cardinality(Fetching) <= fetches
      /\ served + Cardinality(Fetching) <= FetchLimit
      /\ served + Cardinality(Serving) <= audited
  BY SetsAreFinite DEF FetchesInv
<1>4. ASSUME UNCHANGED <<get, fetches, audited, served>>
      PROVE  FetchesInv'
  BY <1>1, <1>3, <1>4 DEF FetchesInv, Fetching, Serving
<1>5. ASSUME NEW r \in Reader, GetCount(r) PROVE FetchesInv'
  <2>1. fetches' = fetches + 1 /\ UNCHANGED <<audited, served>>
    BY <1>5 DEF GetCount
  <2>2. CASE fetches' > FetchLimit
    <3>1. Fetching' = Fetching /\ Serving' = Serving
      BY <1>5, <2>2 DEF GetCount, Fetching, Serving
    <3> QED BY <1>1, <1>2, <1>3, <2>1, <3>1 DEF FetchesInv
  <2>3. CASE ~(fetches' > FetchLimit)
    <3> DEFINE new == [at |-> "audit", row |-> escrow]
    <3>1. get' = [get EXCEPT ![r] = new] /\ get[r].at = "idle"
      BY <1>5, <2>3 DEF GetCount
    <3>2. new.at = "audit"
      OBVIOUS
    <3> HIDE DEF new
    <3>3. Fetching' = Fetching \cup {r} /\ r \notin Fetching /\ Serving' = Serving
      BY <1>2, <3>1, <3>2 DEF Fetching, Serving
    <3>4. Cardinality(Fetching') = Cardinality(Fetching) + 1
      BY <3>3, SetsAreFinite, FS_AddElement
    <3> QED BY <1>1, <1>2, <1>3, <2>1, <2>3, <3>3, <3>4 DEF FetchesInv
  <2> QED BY <2>2, <2>3
<1>6. ASSUME NEW r \in Reader, GetAudit(r) PROVE FetchesInv'
  <2>1. /\ audited' = audited + 1 /\ UNCHANGED <<fetches, served>>
        /\ get[r].at = "audit" /\ get' = [get EXCEPT ![r].at = "serve"]
    BY <1>6 DEF GetAudit
  <2>2. get[r] \in [at : {"audit", "serve"}, row : Row]
    BY <1>2, <2>1 DEF EscrowTypeOK, Idle
  <2>3. get'[r].at = "serve" /\ \A o \in Reader \ {r} : get'[o] = get[o]
    BY <1>2, <2>1, <2>2
  <2>4. Fetching' = Fetching /\ Serving' = Serving \cup {r} /\ r \notin Serving
    BY <2>1, <2>3 DEF Fetching, Serving
  <2>5. Cardinality(Serving') = Cardinality(Serving) + 1
    BY <2>4, SetsAreFinite, FS_AddElement
  <2> QED BY <1>1, <1>2, <1>3, <2>1, <2>4, <2>5 DEF FetchesInv
<1>7. ASSUME NEW r \in Reader, GetServe(r) PROVE FetchesInv'
  <2>1. /\ served' = served + 1 /\ UNCHANGED <<fetches, audited>>
        /\ get[r].at = "serve" /\ get' = [get EXCEPT ![r] = Idle]
    BY <1>7 DEF GetServe
  <2>2. /\ Fetching' = Fetching \ {r} /\ r \in Fetching
        /\ Serving' = Serving \ {r} /\ r \in Serving
    BY <1>2, <2>1 DEF Fetching, Serving, Idle
  <2>3. /\ Cardinality(Fetching') = Cardinality(Fetching) - 1
        /\ Cardinality(Serving') = Cardinality(Serving) - 1
    BY <2>2, SetsAreFinite, FS_RemoveElement
  <2> QED BY <1>1, <1>2, <1>3, <2>1, <2>3 DEF FetchesInv
<1>8. CASE Die
  <2>1. Fetching' = {} /\ Serving' = {} /\ UNCHANGED <<fetches, audited, served>>
    BY <1>8 DEF Die, Fetching, Serving, Idle
  <2>2. Cardinality({}) = 0
    BY FS_EmptySet
  <2> QED BY <1>1, <1>2, <1>3, <2>1, <2>2 DEF FetchesInv
<1> QED BY <1>4, <1>5, <1>6, <1>7, <1>8
      DEF EscrowNext, escrowVars, PutRead, PutAnswer, PutInsert, PutUpdate

\* No recovery blob leaves without its audit row, and no more leave in a window
\* than the quota allows, however many handlers run and wherever they die.
THEOREM FetchesAreAudited == EscrowSpec => []ServedIsAudited
<1>1. FetchesInv => ServedIsAudited
  <2> SUFFICES ASSUME FetchesInv PROVE ServedIsAudited
    OBVIOUS
  <2>1. served \in Nat /\ FetchLimit \in Nat
    BY EscrowAssumption DEF FetchesInv, EscrowTypeOK
  <2> QED BY <2>1, SetsAreFinite DEF FetchesInv, ServedIsAudited
<1> QED BY <1>1, FetchesInitially, FetchesPreserved, PTL DEF EscrowSpec

-----------------------------------------------------------------------------
(* SignalChannel: pokes and sockets.                                       *)

\* The steps of the channel by what they leave alone.
LEMMA SignalTypesInit == SignalInit => SignalTypeOK
BY SignalAssumption DEF SignalInit, SignalTypeOK, SocketPc

LEMMA SignalTypesNext ==
  ASSUME SignalTypeOK, [SignalNext]_signalVars PROVE SignalTypeOK'
<1>0. MaxAppends \in Nat /\ MaxMishaps \in Nat
  BY SignalAssumption
<1>1. CASE UNCHANGED signalVars
  BY <1>1 DEF SignalTypeOK, signalVars
<1>2. CASE AppendBatch
  BY <1>0, <1>2 DEF AppendBatch, SignalTypeOK
<1>3. CASE AfterCommit
  <2>1. ASSUME NEW n \in unpoked, Notify(n) PROVE SignalTypeOK'
    BY <2>1 DEF Notify, SignalTypeOK, Subscribed
  <2>2. ASSUME NEW m \in untripped, HubRevoke(m) PROVE SignalTypeOK'
    BY <2>2 DEF HubRevoke, SignalTypeOK, Subscribed
  <2> QED BY <1>3, <2>1, <2>2 DEF AfterCommit
<1>4. CASE Restart
  BY <1>0, <1>4 DEF Restart, SignalTypeOK, SocketPc
<1>5. ASSUME NEW s \in Socket, Handshake(s) \/ Serve(s) PROVE SignalTypeOK'
  <2>1. CASE Handshake(s)
    BY <2>1 DEF Handshake, SignalTypeOK, SocketPc
  <2>2. CASE Subscribe(s)
    BY <2>2 DEF Subscribe, SignalTypeOK, SocketPc
  <2>3. CASE Send(s)
    BY <2>3 DEF Send, SignalTypeOK, SocketPc
  <2>4. CASE WakeForNews(s)
    BY <2>4 DEF WakeForNews, SignalTypeOK, SocketPc
  <2>5. CASE WakeRevoked(s)
    BY <2>5 DEF WakeRevoked, Away, SignalTypeOK, SocketPc
  <2> QED BY <1>5, <2>1, <2>2, <2>3, <2>4, <2>5 DEF Serve
<1>6. ASSUME NEW s \in Socket, Disconnect(s) PROVE SignalTypeOK'
  BY <1>6 DEF Disconnect, Away, SignalTypeOK, SocketPc
<1>7. ASSUME NEW s \in Socket, ActOnPoke(s) PROVE SignalTypeOK'
  <2>1. CASE PullOps(s)
    BY <1>0, <2>1 DEF PullOps, SignalTypeOK
  <2>2. CASE PullFails(s)
    BY <1>0, <2>2 DEF PullFails, SignalTypeOK
  <2> QED BY <1>7, <2>1, <2>2 DEF ActOnPoke
<1>8. ASSUME NEW s \in Socket, Revoke(Owner[s]) PROVE SignalTypeOK'
  BY <1>8 DEF Revoke, SignalTypeOK
<1> QED BY <1>1, <1>2, <1>3, <1>4, <1>5, <1>6, <1>7, <1>8 DEF SignalNext

\* Sockets, events and cursors keep their types through every interleaving.
THEOREM SignalTypeCorrect == SignalSpec => []SignalTypeOK
  BY SignalTypesInit, SignalTypesNext, PTL DEF SignalSpec

-----------------------------------------------------------------------------
(* No poke is lost.                                                        *)

\* What keeps one socket's device from missing what was committed.
Reachable(s) ==
  \/ unpoked \cap (cursor[s] + 1) .. head # {}
  \/ event[s] \/ poked[s]
  \/ sock[s] \in {"checked", "greeting", "sending"}
Behind(s) == Open(s) /\ cursor[s] < head /\ missed[s] < head /\ Owner[s] \notin shut

LEMMA Restated == NewsIsOnItsWay <=> \A s \in Socket : Behind(s) => Reachable(s)
BY DEF NewsIsOnItsWay, Behind, Reachable

\* A step that keeps a socket's own record, the commits and those still to be
\* notified keeps its news on the way.
LEMMA OthersKeepTheirNews ==
  ASSUME NEW s \in Socket, Behind(s) => Reachable(s), shut \subseteq shut',
         sock'[s] = sock[s], event'[s] = event[s], poked'[s] = poked[s],
         cursor'[s] = cursor[s], missed'[s] = missed[s], UNCHANGED <<head, unpoked>>
  PROVE  Behind(s)' => Reachable(s)'
BY DEF Behind, Reachable, Open

LEMMA NewsPreserved ==
  ASSUME SignalTypeOK, NewsIsOnItsWay, [SignalNext]_signalVars
  PROVE  NewsIsOnItsWay'
<1> SUFFICES ASSUME NEW s \in Socket PROVE Behind(s)' => Reachable(s)'
  BY DEF NewsIsOnItsWay, Behind, Reachable
<1>0. Behind(s) => Reachable(s)
  BY Restated
<1>1. /\ head \in Nat /\ MaxAppends \in Nat
      /\ cursor[s] \in Nat /\ missed[s] \in Nat /\ sock[s] \in SocketPc
      /\ unpoked \subseteq 1 .. head
      /\ sock \in [Socket -> SocketPc]
      /\ event \in [Socket -> BOOLEAN] /\ poked \in [Socket -> BOOLEAN]
      /\ cursor \in [Socket -> 0 .. head] /\ missed \in [Socket -> 0 .. head]
  BY SignalAssumption DEF SignalTypeOK
<1>2. CASE UNCHANGED signalVars
  BY <1>0, <1>2, OthersKeepTheirNews DEF signalVars
<1>3. CASE AppendBatch
  <2>1. head' = head + 1 /\ head' \in unpoked' /\ cursor' = cursor
    BY <1>3 DEF AppendBatch
  <2>2. Behind(s)' => head' \in (cursor'[s] + 1) .. head'
    BY <1>1, <2>1 DEF Behind
  <2> QED BY <2>1, <2>2 DEF Reachable
<1>4. ASSUME NEW n \in unpoked, Notify(n) PROVE Behind(s)' => Reachable(s)'
  <2>1. /\ unpoked' = unpoked \ {n}
        /\ event'[s] = (event[s] \/ Subscribed(s))
        /\ UNCHANGED <<head, shut, sock, poked, cursor, missed>>
    BY <1>4 DEF Notify
  <2>2. CASE Subscribed(s)
    BY <2>1, <2>2 DEF Reachable
  <2>3. CASE ~Subscribed(s)
    BY <1>1, <2>1, <2>3 DEF Behind, Reachable, Open, Subscribed, SocketPc
  <2> QED BY <2>2, <2>3
<1>5. ASSUME NEW m \in untripped, HubRevoke(m) PROVE Behind(s)' => Reachable(s)'
  BY <1>0, <1>5, OthersKeepTheirNews DEF HubRevoke
<1>6. CASE Restart
  BY <1>6 DEF Restart, Behind, Open
<1>7. ASSUME NEW t \in Socket, Handshake(t) \/ Serve(t) \/ Disconnect(t) \/ ActOnPoke(t)
      PROVE  Behind(s)' => Reachable(s)'
  <2>1. UNCHANGED <<head, shut, unpoked>>
    BY <1>7 DEF Handshake, Serve, Subscribe, Send, WakeForNews, WakeRevoked,
                Disconnect, ActOnPoke, PullOps, PullFails
  <2>2. CASE t # s
    <3>1. /\ sock'[s] = sock[s] /\ event'[s] = event[s]
          /\ poked'[s] = poked[s] /\ cursor'[s] = cursor[s] /\ missed'[s] = missed[s]
      BY <1>1, <1>7, <2>2 DEF Handshake, Serve, Subscribe, Send, WakeForNews,
                              WakeRevoked, Disconnect, Away, ActOnPoke, PullOps, PullFails
    <3> QED BY <1>0, <2>1, <3>1, OthersKeepTheirNews
  <2>3. CASE t = s
    <3>1. CASE Handshake(s) \/ Subscribe(s) \/ WakeForNews(s)
      <4>1. sock'[s] \in {"checked", "greeting", "sending"}
        BY <1>1, <3>1 DEF Handshake, Subscribe, WakeForNews
      <4> QED BY <4>1 DEF Reachable
    <3>2. CASE Send(s)
      <4>1. poked'[s]
        BY <1>1, <3>2 DEF Send
      <4> QED BY <4>1 DEF Reachable
    <3>3. CASE WakeRevoked(s) \/ Disconnect(s)
      <4>1. sock'[s] = "away"
        BY <1>1, <3>3 DEF WakeRevoked, Disconnect, Away
      <4> QED BY <4>1 DEF Behind, Open
    <3>4. CASE PullOps(s)
      <4>1. cursor'[s] = head
        BY <1>1, <3>4 DEF PullOps
      <4> QED BY <1>1, <2>1, <4>1 DEF Behind
    <3>5. CASE PullFails(s)
      <4>1. missed'[s] = head
        BY <1>1, <3>5 DEF PullFails
      <4> QED BY <1>1, <2>1, <4>1 DEF Behind
    <3> QED BY <1>7, <2>3, <3>1, <3>2, <3>3, <3>4, <3>5 DEF Serve, ActOnPoke
  <2> QED BY <2>2, <2>3
<1>8. ASSUME NEW t \in Socket, Revoke(Owner[t]) PROVE Behind(s)' => Reachable(s)'
  BY <1>0, <1>8, OthersKeepTheirNews DEF Revoke
<1> QED BY <1>2, <1>3, <1>4, <1>5, <1>6, <1>7, <1>8 DEF SignalNext, AfterCommit

\* Whatever order commits, pokes, handshakes, pumps and failing pulls run in, a connected
\* device that is behind by more than a failed pull of its own missed is about to be told.
THEOREM NoPokeIsLost == SignalSpec => []NewsIsOnItsWay
<1>1. SignalInit => NewsIsOnItsWay
  BY DEF SignalInit, NewsIsOnItsWay, Open
<1>2. SignalTypeOK /\ NewsIsOnItsWay /\ [SignalNext]_signalVars => NewsIsOnItsWay'
  BY NewsPreserved
<1> QED BY <1>1, <1>2, SignalTypeCorrect, PTL DEF SignalSpec

=============================================================================

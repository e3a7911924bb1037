------------------------------- MODULE Access -------------------------------
(***************************************************************************)
(* Credentials: single-use challenge nonces in Redis, the logins that      *)
(* spend them, refresh tokens rotated by whoever presents them, and the    *)
(* revocation of a member's transport.  A principal is a member, which     *)
(* proves a device key, or a wallet, whose first login makes its account.  *)
(* Handlers are cut at their awaits: any other call may run between the    *)
(* read of a row and the commit that rests on it.                          *)
(***************************************************************************)
EXTENDS Naturals, FiniteSets

NoUser == "no user"

CONSTANTS Device,      \* the members rows
          Wallet,      \* the wallets that log in
          Call,        \* handlers in flight at once
          Nonce,       \* nonces Redis may hand out; secrets.token_* never repeats
          Token,       \* refresh tokens create_refresh_token may mint
          ChallengeLimit  \* settings.member_challenge_daily_limit

ASSUME AccessAssumption == /\ ChallengeLimit \in Nat
                           /\ Device \cap Wallet = {}
                           /\ NoUser \notin Call

NoCall == [at |-> "idle"]

VARIABLES challenge,  \* Redis: the principal each live nonce was issued to
          issued,     \* Redis: challenges of each device inside its window
          refresh,    \* refresh_tokens: owner and whether revoked_at is set
          account,    \* users.solana_public_key: the user of each wallet
          call,       \* the handlers in flight
          spent,      \* history: how many logins each nonce bought
          handed      \* history: the user each wallet was logged in as

accessVars == <<challenge, issued, refresh, account, call, spent, handed>>

Principal == Device \cup Wallet
Unspent == {n \in Nonce : n \notin DOMAIN challenge /\ spent[n] = 0}
FreshToken(t) == t \notin DOMAIN refresh

Minted(t, owner) ==
  [u \in DOMAIN refresh \cup {t} |->
     IF u = t THEN [owner |-> owner, revoked |-> FALSE] ELSE refresh[u]]

-----------------------------------------------------------------------------
(* Challenges.                                                             *)

\* INCR and EXPIRE NX in one round trip: the count belongs to the window.
IncrementInWindow(d) == issued' = [issued EXCEPT ![d] = @ + 1]

SetChallenge(n, p) ==
  /\ n \in Unspent
  /\ challenge' = [m \in DOMAIN challenge \cup {n} |->
                     IF m = n THEN p ELSE challenge[m]]

\* A refused call has counted too; the count is capped one past the limit.
IssueMemberChallenge(d, n) ==
  /\ issued[d] <= ChallengeLimit
  /\ IncrementInWindow(d)
  /\ IF issued[d] + 1 > ChallengeLimit THEN n \in Unspent /\ UNCHANGED challenge
     ELSE SetChallenge(n, d)
  /\ UNCHANGED <<refresh, account, call, spent, handed>>

SwsChallenge(w, n) ==
  /\ SetChallenge(n, w)
  /\ UNCHANGED <<issued, refresh, account, call, spent, handed>>

ExpireChallenge(n) ==
  /\ n \in DOMAIN challenge
  /\ challenge' = [m \in DOMAIN challenge \ {n} |-> challenge[m]]
  /\ UNCHANGED <<issued, refresh, account, call, spent, handed>>

-----------------------------------------------------------------------------
(* Logins.  signer is whose key signed the nonce that is presented for p.  *)

\* The nonce was issued to p and the signature over it is p's: the checks the
\* member's and the wallet's login make alike.
ProvesKey(p, n, signer) == n \in DOMAIN challenge /\ challenge[n] = p /\ signer = p

\* mutant: GET instead of GETDEL
ConsumeKept(n) == UNCHANGED challenge

\* GETDEL: the attempt spends the nonce, win or lose.
Consume(n) == challenge' = [m \in DOMAIN challenge \ {n} |-> challenge[m]]

ConsumeChallenge(c, p, n, signer) ==
  /\ call[c].at = "idle"
  /\ Consume(n)
  /\ IF ProvesKey(p, n, signer)
     THEN /\ call' = [call EXCEPT ![c] =
               [at |-> IF p \in Device THEN "mint" ELSE "lookup", owner |-> p]]
          /\ spent' = [spent EXCEPT ![n] = @ + 1]
     ELSE UNCHANGED <<call, spent>>
  /\ UNCHANGED <<issued, refresh, account, handed>>

\* verify_sws: the wallet's account, or the one this login is about to make.
LookupAccount(c) ==
  /\ call[c].at = "lookup"
  /\ call' = [call EXCEPT ![c] =
       IF account[call[c].owner] # NoUser
       THEN [at |-> "session", owner |-> call[c].owner, user |-> account[call[c].owner]]
       ELSE [at |-> "create", owner |-> call[c].owner]]
  /\ UNCHANGED <<challenge, issued, refresh, account, spent, handed>>

\* mutant: the loser of the unique key keeps the user it made up
CreateUnread(c) ==
  /\ call[c].at = "create"
  /\ LET w == call[c].owner
     IN /\ account' = IF account[w] = NoUser THEN [account EXCEPT ![w] = c] ELSE account
        /\ call' = [call EXCEPT ![c] = [at |-> "session", owner |-> w, user |-> c]]
  /\ UNCHANGED <<challenge, issued, refresh, spent, handed>>

\* The unique key lost to another first login: that login's row is read again.
\* The call's own name stands for the uuid it drew.
CreateAccount(c) ==
  /\ call[c].at = "create"
  /\ LET w == call[c].owner
     IN /\ account' = IF account[w] = NoUser THEN [account EXCEPT ![w] = c] ELSE account
        /\ call' = [call EXCEPT ![c] = [at |-> "session", owner |-> w,
                                        user |-> account'[w]]]
  /\ UNCHANGED <<challenge, issued, refresh, spent, handed>>

\* The commit of a login: a refresh token of the wallet's user or the member.
Mint(c, t) ==
  /\ call[c].at \in {"mint", "session"}
  /\ FreshToken(t)
  /\ refresh' = Minted(t, call[c].owner)
  /\ handed' = IF call[c].at = "session"
               THEN [handed EXCEPT ![call[c].owner] = @ \cup {call[c].user}]
               ELSE handed
  /\ call' = [call EXCEPT ![c] = NoCall]
  /\ UNCHANGED <<challenge, issued, account, spent>>

-----------------------------------------------------------------------------
(* Refresh, logout and revocation.                                         *)

\* scope is the route the token is presented on: a member's own, or the user
\* session's, which takes no member token.
RefreshRead(c, t, scope) ==
  /\ call[c].at = "idle"
  /\ t \in DOMAIN refresh
  /\ \/ scope \in Device /\ refresh[t].owner = scope
     \/ scope \in Wallet /\ refresh[t].owner \notin Device /\ refresh[t].owner = scope
  /\ ~refresh[t].revoked
  /\ call' = [call EXCEPT ![c] = [at |-> "rotate", owner |-> scope, token |-> t]]
  /\ UNCHANGED <<challenge, issued, refresh, account, spent, handed>>

\* revoked_at of the presented token and the new row, in one commit.
RefreshCommit(c, t) ==
  /\ call[c].at = "rotate"
  /\ FreshToken(t)
  /\ refresh' = [Minted(t, call[c].owner) EXCEPT ![call[c].token].revoked = TRUE]
  /\ call' = [call EXCEPT ![c] = NoCall]
  /\ UNCHANGED <<challenge, issued, account, spent, handed>>

\* DELETE /session, of a token its own user presents.
Logout(t) ==
  /\ t \in DOMAIN refresh
  /\ refresh[t].owner \in Wallet /\ ~refresh[t].revoked
  /\ refresh' = [refresh EXCEPT ![t].revoked = TRUE]
  /\ UNCHANGED <<challenge, issued, account, call, spent, handed>>

\* revoke_member_transport: every live token of the member, in one statement.
RevokeMemberTransport(d) ==
  /\ refresh' = [t \in DOMAIN refresh |->
       IF refresh[t].owner = d THEN [refresh[t] EXCEPT !.revoked = TRUE]
       ELSE refresh[t]]
  /\ UNCHANGED <<challenge, issued, account, call, spent, handed>>

AccessInit ==
  /\ challenge = [n \in {} |-> NoUser]
  /\ issued = [d \in Device |-> 0]
  /\ refresh = [t \in {} |-> NoCall]
  /\ account = [w \in Wallet |-> NoUser]
  /\ call = [c \in Call |-> NoCall]
  /\ spent = [n \in Nonce |-> 0]
  /\ handed = [w \in Wallet |-> {}]

AccessNext ==
  \/ \E n \in Nonce : \/ \E d \in Device : IssueMemberChallenge(d, n)
                      \/ \E w \in Wallet : SwsChallenge(w, n)
                      \/ ExpireChallenge(n)
  \/ \E c \in Call :
       \/ \E p, signer \in Principal, n \in Nonce : ConsumeChallenge(c, p, n, signer)
       \/ LookupAccount(c) \/ CreateAccount(c)
       \/ \E t \in Token : Mint(c, t) \/ RefreshCommit(c, t)
       \/ \E t \in Token, p \in Principal : RefreshRead(c, t, p)
  \/ \E t \in Token : Logout(t)
  \/ \E d \in Device : RevokeMemberTransport(d)

AccessSpec == AccessInit /\ [][AccessNext]_accessVars

-----------------------------------------------------------------------------
(* Properties.                                                             *)

\* The type invariant.
AccessTypeOK ==
  /\ DOMAIN challenge \subseteq Nonce
  /\ \A n \in DOMAIN challenge : challenge[n] \in Principal
  /\ issued \in [Device -> 0 .. ChallengeLimit + 1]
  /\ DOMAIN refresh \subseteq Token
  /\ \A t \in DOMAIN refresh : /\ refresh[t].owner \in Principal
                               /\ refresh[t].revoked \in BOOLEAN
  /\ account \in [Wallet -> {NoUser} \cup Call]
  /\ \A c \in Call : call[c].at \in {"idle", "mint", "lookup", "create", "session",
                                     "rotate"}
  /\ spent \in [Nonce -> Nat]
  /\ handed \in [Wallet -> SUBSET ({NoUser} \cup Call)]

\* One signed nonce buys one login, however many calls present it at once, and
\* none after it was spent, refused or expired.
NonceSpentOnce ==
  \A n \in Nonce : spent[n] <= 1 /\ (spent[n] = 1 => n \notin DOMAIN challenge)

\* Two first logins of one wallet at once agree on the user they made.
OneUserPerWallet ==
  \A w \in Wallet : handed[w] \subseteq {account[w]} \ {NoUser}
=============================================================================

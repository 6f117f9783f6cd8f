------------------------------ MODULE Accounts ------------------------------
(* Users, wallets, nonces and sessions of the API, and the requests that meet  *)
(* in them: wallet logins (a nonce, a signature, a session), Privy tokens      *)
(* whose identity becomes a user at its first request, and the routes that     *)
(* link and unlink wallets. A handler is split at its queries. Addresses are   *)
(* in the spelling that is stored.                                             *)
EXTENDS Naturals, Sequences

CONSTANTS Dids,        \* Privy identities
          Wallets,     \* wallet addresses
          Nonces,      \* nonces, each issued at most once
          Requests,    \* concurrent requests, each answered once, numbered as they come
          Nobody,      \* no user, no owner, no identity
          PrivyEnabled,  \* which of its two ways to authenticate the API is set up for
          MaxUsers     \* bound on user rows

VARIABLES users,       \* users: user id -> privy_user_id or Nobody
          wallets,     \* user_wallets: address -> [owner, primary]
          nonces,      \* auth_nonces: nonce -> [address, state]
          sessions,    \* user_sessions: set of [by, nonce, user, state]
          req          \* the requests in flight

vars == <<users, wallets, nonces, sessions, req>>

NewUser == Len(users) + 1
NoWallet == [owner |-> Nobody, primary |-> FALSE]
Unlinked(a) == wallets[a].owner = Nobody

Init ==
  /\ users = <<>>
  /\ wallets = [a \in Wallets |-> NoWallet]
  /\ nonces = [n \in Nonces |-> [address |-> Nobody, state |-> "none"]]
  /\ sessions = {}
  /\ req = [r \in Requests |-> [pc |-> "new", did |-> Nobody, wallet |-> Nobody, nonce |-> Nobody,
                            user |-> Nobody]]

Arrives(r) == req[r].pc = "new" /\ \A q \in Requests : q < r => req[q].pc # "new"
Step(r, from, to) == req[r].pc = from /\ req' = [req EXCEPT ![r].pc = to]
WithUser(r, to, u) == req' = [req EXCEPT ![r].pc = to, ![r].user = u]
AddUser(did) == NewUser <= MaxUsers /\ users' = Append(users, did)

-----------------------------------------------------------------------------
(* Wallet login.                                                               *)

createNonce(n, a) == nonces' = [nonces EXCEPT ![n] = [address |-> a, state |-> "live"]]
auth_nonce ==
  /\ \E n \in Nonces, a \in Wallets : nonces[n].state = "none" /\ createNonce(n, a)
  /\ UNCHANGED <<users, wallets, sessions, req>>

(* A nonce or a session passes its expiry.                                     *)
expire ==
  /\ \/ \E n \in Nonces : nonces[n].state = "live" /\ nonces' = [nonces EXCEPT ![n].state = "expired"]
        /\ UNCHANGED sessions
     \/ \E s \in sessions : s.state = "live" /\ sessions' = (sessions \ {s}) \cup {[s EXCEPT !.state = "expired"]}
        /\ UNCHANGED nonces
  /\ UNCHANGED <<users, wallets, req>>

(* A read of the row that does not see it consumed.                          *)
Consumable_read(n, a) == nonces[n].address = a /\ nonces[n].state \in {"live", "consumed"}

(* The update of consumeNonce takes an unconsumed row or none, in one query.   *)
Consumable(n, a) == nonces[n] = [address |-> a, state |-> "live"]

(* The wallet that signed the message is the one the message names.            *)
verifyWalletSignature(address, signer) == signer = address

(* The nonce is gone even when the signature turns out to be wrong.            *)
consumeNonce(r, n, a, signer, then) ==
  /\ nonces' = IF Consumable(n, a) THEN [nonces EXCEPT ![n].state = "consumed"] ELSE nonces
  /\ req' = IF Consumable(n, a) /\ verifyWalletSignature(a, signer)
            THEN [req EXCEPT ![r].pc = then, ![r].wallet = a, ![r].nonce = n]
            ELSE [req EXCEPT ![r].pc = "401"]
  /\ UNCHANGED <<users, wallets, sessions>>
verifyHandler(r) ==
  Arrives(r) /\ \E n \in Nonces, a, signer \in Wallets : consumeNonce(r, n, a, signer, "login")

(* upsertUserByWallet: a select, then an insert of a user and one of a wallet. *)
wallet_select(r) ==
  /\ req[r].pc = "login"
  /\ IF Unlinked(req[r].wallet) THEN WithUser(r, "insert_user", Nobody)
                            ELSE WithUser(r, "session", wallets[req[r].wallet].owner)
  /\ UNCHANGED <<users, wallets, nonces, sessions>>
wallet_insert_user(r) ==
  /\ req[r].pc = "insert_user"
  /\ AddUser(Nobody)
  /\ WithUser(r, "insert_wallet", NewUser)
  /\ UNCHANGED <<wallets, nonces, sessions>>
wallet_insert(r) ==
  /\ req[r].pc = "insert_wallet"
  /\ IF Unlinked(req[r].wallet)
     THEN Step(r, "insert_wallet", "session") /\ wallets' = [wallets EXCEPT ![req[r].wallet] = [owner |-> req[r].user, primary |-> TRUE]]
     ELSE Step(r, "insert_wallet", "500") /\ wallets' = wallets
  /\ UNCHANGED <<users, nonces, sessions>>

createSession(r) ==
  /\ Step(r, "session", "200")
  /\ sessions' = sessions \cup {[by |-> r, nonce |-> req[r].nonce, user |-> req[r].user, state |-> "live"]}
  /\ UNCHANGED <<users, wallets, nonces>>

revokeSession(s) == sessions' = (sessions \ {s}) \cup {[s EXCEPT !.state = "revoked"]}
logout ==
  /\ \E s \in sessions : revokeSession(s)
  /\ UNCHANGED <<users, wallets, nonces, req>>

-----------------------------------------------------------------------------
(* authedUser. With Privy, every request with a valid token finds or creates   *)
(* its user.                                                                   *)
SignedUp(did) == {u \in DOMAIN users : users[u] = did}
upsertUserByPrivyId(r, did) ==
  req' = IF SignedUp(did) # {}
         THEN [req EXCEPT ![r].pc = "authed", ![r].did = did, ![r].user = CHOOSE u \in SignedUp(did) : TRUE]
         ELSE [req EXCEPT ![r].pc = "sign_up", ![r].did = did]
requirePrivyUser(r) ==
  /\ Step(r, "new", "401") \/ \E did \in Dids : upsertUserByPrivyId(r, did)
  /\ UNCHANGED <<users, wallets, nonces, sessions>>

(* Without it, a request has the token of a session in its header or cookie.   *)
readSessionToken == sessions
userIdForSession(s) == IF s.state = "live" THEN s.user ELSE Nobody
requireUser(r) ==
  /\ \/ Step(r, "new", "401")
     \/ \E s \in readSessionToken :
          IF userIdForSession(s) # Nobody THEN WithUser(r, "authed", userIdForSession(s))
                                          ELSE Step(r, "new", "401")
  /\ UNCHANGED <<users, wallets, nonces, sessions>>

authedUser(r) == Arrives(r) /\ IF PrivyEnabled THEN requirePrivyUser(r) ELSE requireUser(r)

(* The same without the index.                                               *)
UniqueDid_none(did) == TRUE

(* The unique index on privy_user_id refuses the second of two inserts.        *)
UniqueDid(did) == SignedUp(did) = {}
privy_insert(r) ==
  /\ req[r].pc = "sign_up"
  /\ IF UniqueDid(req[r].did)
     THEN AddUser(req[r].did) /\ WithUser(r, "authed", NewUser)
     ELSE users' = users /\ Step(r, "sign_up", "500")
  /\ UNCHANGED <<wallets, nonces, sessions>>

(* What the authenticated request then does. The linked wallets are synced one *)
(* query each: a wallet that is linked already goes to the user that syncs it, *)
(* but stays with its owner when it is added by signature; a primary wallet    *)
(* cannot be unlinked.                                                         *)
syncPrivyWallets(u, a) == wallets' = [wallets EXCEPT ![a].owner = u]
sync_privy(r) ==
  /\ PrivyEnabled
  /\ req[r].pc \in {"authed", "syncing"}
  /\ \/ \E a \in Wallets : syncPrivyWallets(req[r].user, a) /\ req' = [req EXCEPT ![r].pc = "syncing"]
     \/ wallets' = wallets /\ req' = [req EXCEPT ![r].pc = "200"]
  /\ UNCHANGED <<users, nonces, sessions>>

Deletable(u, a) == wallets[a] = [owner |-> u, primary |-> FALSE]
deleteWallet(r) ==
  /\ \E a \in Wallets :
       IF Deletable(req[r].user, a)
       THEN Step(r, "authed", "200") /\ wallets' = [wallets EXCEPT ![a] = NoWallet]
       ELSE Step(r, "authed", "409") /\ wallets' = wallets
  /\ UNCHANGED <<users, nonces, sessions>>

post_wallets(r) ==
  /\ req[r].pc = "authed"
  /\ \E n \in Nonces, a, signer \in Wallets : consumeNonce(r, n, a, signer, "link")
addWallet(r) ==
  /\ Step(r, "link", "200")
  /\ wallets' = IF Unlinked(req[r].wallet)
                THEN [wallets EXCEPT ![req[r].wallet] = [owner |-> req[r].user, primary |-> FALSE]]
                ELSE wallets
  /\ UNCHANGED <<users, nonces, sessions>>

Next ==
  \/ auth_nonce \/ expire \/ logout
  \/ \E r \in Requests : \/ verifyHandler(r) \/ wallet_select(r) \/ wallet_insert_user(r) \/ wallet_insert(r)
                         \/ createSession(r) \/ authedUser(r) \/ privy_insert(r)
                         \/ sync_privy(r) \/ deleteWallet(r) \/ post_wallets(r) \/ addWallet(r)

Spec == Init /\ [][Next]_vars

-----------------------------------------------------------------------------
(* A Privy identity is one user, although the pages send several requests at   *)
(* once after the first login and each of them may find no user yet: whoever   *)
(* is answered as this identity is answered as the same user.                  *)
OneUserPerIdentity ==
  /\ \A u, w \in DOMAIN users : users[u] = users[w] /\ users[u] # Nobody => u = w
  /\ \A r \in Requests :
       req[r].did # Nobody /\ req[r].user # Nobody => users[req[r].user] = req[r].did

(* A signature opens one session: two requests with the same nonce, however    *)
(* their queries interleave, do not both log in.                               *)
NonceOpensOneSession == \A s, t \in sessions : s.nonce = t.nonce => s = t
=============================================================================

----------------------------- MODULE UserProofs -----------------------------
(***************************************************************************)
(* Whatever the requests, identities, wallets and nonces are and however   *)
(* the queries of the requests interleave: a Privy identity is one user,   *)
(* and a nonce opens one session.  And whatever the tabs, vaults and       *)
(* recovery methods are and whatever the API's environment asks of a       *)
(* vault: a vault that was funded opens with what the user keeps, its      *)
(* recovery file among it.  And whatever fails between the queries of the  *)
(* API's handlers: a report lists its user's settlements and nobody        *)
(* else's, and a recovery has the last answered backup or a later one.     *)
(***************************************************************************)
EXTENDS Accounts, Integers, TLAPS

-----------------------------------------------------------------------------
(* Users, wallets and sessions. *)

\* A request between its nonce and its session
Opening == {"login", "insert_user", "insert_wallet", "session"}

Pcs == Opening \union {"new", "authed", "sign_up", "syncing", "link", "200", "401", "409", "500"}

User == Nat \union {Nobody}

Request == [pc : Pcs, did : Dids \union {Nobody}, wallet : Wallets \union {Nobody},
            nonce : Nonces \union {Nobody}, user : User]

Session == [by : Requests, nonce : Nonces, user : User, state : {"live", "expired", "revoked"}]

TypeOK ==
    /\ users \in Seq(Dids \union {Nobody})
    /\ wallets \in [Wallets -> [owner : User, primary : BOOLEAN]]
    /\ nonces \in [Nonces -> [address : Wallets \union {Nobody},
                              state : {"none", "live", "expired", "consumed"}]]
    /\ sessions \subseteq Session
    /\ req \in [Requests -> Request]

\* A request that has an identity and a user has the identity's user; a wallet
\* login has a wallet and no identity, and who has not arrived has neither.
IdentityOK(x) ==
    /\ x.did # Nobody /\ x.user # Nobody => x.user \in DOMAIN users /\ users[x.user] = x.did
    /\ x.pc \in Opening \union {"new"} => x.did = Nobody
    /\ x.pc = "new" => x.user = Nobody
    /\ x.pc \in Opening => x.wallet \in Wallets

IdentityInv ==
    /\ \A u, w \in DOMAIN users : users[u] = users[w] /\ users[u] # Nobody => u = w
    /\ \A r \in Requests : IdentityOK(req[r])

\* Who is about to get a session consumed a nonce, which nobody else has and no
\* session was opened with.
NonceInv ==
    /\ \A r \in Requests : req[r].pc \in Opening =>
          /\ req[r].nonce \in Nonces
          /\ nonces[req[r].nonce].state = "consumed"
          /\ \A s \in sessions : s.nonce # req[r].nonce
    /\ \A q, r \in Requests :
          req[q].pc \in Opening /\ req[r].pc \in Opening /\ req[q].nonce = req[r].nonce => q = r
    /\ \A s \in sessions : nonces[s.nonce].state = "consumed"
    /\ NonceOpensOneSession

AInv == TypeOK /\ IdentityInv /\ NonceInv

-----------------------------------------------------------------------------
(* Rows are added to users, and a consumed nonce stays consumed. *)

UsersGrow ==
    /\ DOMAIN users \subseteq DOMAIN users'
    /\ \A u \in DOMAIN users : users'[u] = users[u]

NoncesStay == \A n \in Nonces : nonces[n].state = "consumed" => nonces'[n].state = "consumed"

OneUserEach == \A u, w \in DOMAIN users : users[u] = users[w] /\ users[u] # Nobody => u = w

LEMMA AddedUser ==
    ASSUME TypeOK, NEW did \in Dids \union {Nobody}, AddUser(did)
    PROVE  /\ users' \in Seq(Dids \union {Nobody})
           /\ DOMAIN users' = DOMAIN users \union {NewUser}
           /\ NewUser \in Nat /\ NewUser \notin DOMAIN users
           /\ users'[NewUser] = did
           /\ \A u \in DOMAIN users : users'[u] = users[u]
<1>1. users \in Seq(Dids \union {Nobody})  BY Zenon DEF TypeOK
<1>2. Len(users) \in Nat /\ DOMAIN users = 1..Len(users)  BY <1>1
<1>3. users' = Append(users, did) /\ NewUser = Len(users) + 1  BY DEF AddUser, NewUser
<1> QED  BY <1>1, <1>2, <1>3

\* What is true of a request stays true while others go on.
LEMMA IdentityStays ==
    ASSUME UsersGrow, NEW x, IdentityOK(x)
    PROVE  IdentityOK(x)'
BY DEF UsersGrow, IdentityOK

-----------------------------------------------------------------------------
(* A query of a request: it opens with a nonce that it has, or that it has just *)
(* consumed.                                                                    *)

LEMMA RequestMoves ==
    ASSUME AInv, NEW r \in Requests, NEW x \in Request, req' = [req EXCEPT ![r] = x],
           users' \in Seq(Dids \union {Nobody}), UsersGrow, OneUserEach',
           wallets' \in [Wallets -> [owner : User, primary : BOOLEAN]],
           nonces' \in [Nonces -> [address : Wallets \union {Nobody},
                                   state : {"none", "live", "expired", "consumed"}]],
           NoncesStay, sessions' = sessions, IdentityOK(x)',
           x.pc \in Opening =>
              \/ req[r].pc \in Opening /\ x.nonce = req[r].nonce
              \/ /\ x.nonce \in Nonces /\ nonces[x.nonce].state # "consumed"
                 /\ nonces'[x.nonce].state = "consumed"
    PROVE  AInv'
<1>1. TypeOK /\ IdentityInv /\ NonceInv  BY Zenon DEF AInv
<1>2. req \in [Requests -> Request] /\ sessions \subseteq Session  BY <1>1, Zenon DEF TypeOK
<1>3. /\ req' \in [Requests -> Request] /\ req'[r] = x
      /\ \A q \in Requests : q # r => req'[q] = req[q]
  BY <1>2
<1>4. TypeOK'  BY <1>2, <1>3, Zenon DEF TypeOK
<1>5. IdentityInv'
  <2>1. ASSUME NEW q \in Requests
        PROVE  IdentityOK(req[q])'
    <3>1. CASE q = r  BY <1>3, <3>1, Zenon
    <3>2. CASE q # r
      <4>1. PICK y : y = req[q]  OBVIOUS
      <4>2. y = req'[q] /\ IdentityOK(y)  BY <1>1, <1>3, <3>2, <4>1, Zenon DEF IdentityInv
      <4>3. IdentityOK(y)'  BY <4>2, IdentityStays
      <4> QED  BY <4>2, <4>3, Zenon
    <3> QED  BY <3>1, <3>2
  <2> QED  BY <2>1, Zenon DEF IdentityInv, OneUserEach
<1>6. \A s \in sessions : s.nonce \in Nonces /\ nonces[s.nonce].state = "consumed"
  BY <1>1, <1>2 DEF NonceInv, Session
<1>7. \A q \in Requests : req[q].pc \in Opening =>
          /\ req[q].nonce \in Nonces /\ nonces[req[q].nonce].state = "consumed"
          /\ \A s \in sessions : s.nonce # req[q].nonce
  BY <1>1, Zenon DEF NonceInv
<1>8. x.pc \in Opening =>
          /\ x.nonce \in Nonces /\ nonces'[x.nonce].state = "consumed"
          /\ \A s \in sessions : s.nonce # x.nonce
  BY <1>6, <1>7, Zenon DEF NoncesStay
<1>9. \A q \in Requests : req'[q].pc \in Opening =>
          /\ req'[q].nonce \in Nonces /\ nonces'[req'[q].nonce].state = "consumed"
          /\ \A s \in sessions : s.nonce # req'[q].nonce
  BY <1>3, <1>7, <1>8, Zenon DEF NoncesStay
<1>10. ASSUME NEW q \in Requests, q # r, req[q].pc \in Opening, x.pc \in Opening
       PROVE  req[q].nonce # x.nonce
  BY <1>1, <1>7, <1>10, Zenon DEF NonceInv
<1>11. ASSUME NEW p \in Requests, NEW q \in Requests, req'[p].pc \in Opening,
              req'[q].pc \in Opening, req'[p].nonce = req'[q].nonce
       PROVE  p = q
  <2>1. CASE p = r /\ q # r
    <3>1. req'[p] = x /\ req'[q] = req[q]  BY <1>3, <2>1, Zenon
    <3> QED  BY <1>10, <1>11, <2>1, <3>1
  <2>2. CASE p # r /\ q = r
    <3>1. req'[q] = x /\ req'[p] = req[p]  BY <1>3, <2>2, Zenon
    <3> QED  BY <1>10, <1>11, <2>2, <3>1
  <2>3. CASE p # r /\ q # r  BY <1>1, <1>3, <1>11, <2>3, Zenon DEF NonceInv
  <2> QED  BY <2>1, <2>2, <2>3, Zenon
<1>12. \A s \in sessions : nonces'[s.nonce].state = "consumed"  BY <1>6, Zenon DEF NoncesStay
<1>13. NonceOpensOneSession'  BY <1>1, Zenon DEF NonceInv, NonceOpensOneSession
<1>14. NonceInv'  BY <1>9, <1>11, <1>12, <1>13, Zenon DEF NonceInv
<1> QED  BY <1>4, <1>5, <1>14, Zenon DEF AInv

\* A query that neither adds a user nor consumes a nonce
LEMMA PlainMove ==
    ASSUME AInv, NEW r \in Requests, NEW x \in Request, req' = [req EXCEPT ![r] = x],
           wallets' \in [Wallets -> [owner : User, primary : BOOLEAN]],
           UNCHANGED <<users, nonces, sessions>>, IdentityOK(x),
           x.pc \in Opening => req[r].pc \in Opening /\ x.nonce = req[r].nonce
    PROVE  AInv'
<1>1. TypeOK /\ IdentityInv  BY Zenon DEF AInv
<1>2. /\ users' \in Seq(Dids \union {Nobody})
      /\ nonces' \in [Nonces -> [address : Wallets \union {Nobody},
                                 state : {"none", "live", "expired", "consumed"}]]
  BY <1>1, Zenon DEF TypeOK
<1>3. UsersGrow /\ NoncesStay  BY Zenon DEF UsersGrow, NoncesStay
<1>4. OneUserEach'  BY <1>1, Zenon DEF IdentityInv, OneUserEach
<1>5. IdentityOK(x)'  BY <1>3, IdentityStays, Zenon
<1> QED  BY <1>2, <1>3, <1>4, <1>5, RequestMoves, Zenon

\* A request goes on with the columns it has.
LEMMA PcMoves ==
    ASSUME AInv, NEW r \in Requests, NEW to \in Pcs \ {"new"}, req' = [req EXCEPT ![r].pc = to],
           wallets' \in [Wallets -> [owner : User, primary : BOOLEAN]],
           UNCHANGED <<users, nonces, sessions>>, to \in Opening => req[r].pc \in Opening
    PROVE  AInv'
<1>1. req \in [Requests -> Request] /\ IdentityOK(req[r])
  BY Zenon DEF AInv, TypeOK, IdentityInv
<1>2. PICK x : x = [req[r] EXCEPT !.pc = to]  BY Zenon
<1>3. req[r] \in Request  BY <1>1
<1>4. /\ x \in Request /\ x.pc = to /\ x.did = req[r].did /\ x.user = req[r].user
      /\ x.nonce = req[r].nonce /\ x.wallet = req[r].wallet
  BY <1>2, <1>3 DEF Request
<1>5. req' = [req EXCEPT ![r] = x]  BY <1>1, <1>2
<1>6. IdentityOK(x)  BY <1>1, <1>4 DEF IdentityOK
<1> QED  BY <1>4, <1>5, <1>6, PlainMove, Zenon

\* A request gets its user.
LEMMA UserRow ==
    ASSUME TypeOK, NEW r \in Requests, NEW to \in Pcs, NEW u \in User, WithUser(r, to, u)
    PROVE  \E x \in Request : /\ req' = [req EXCEPT ![r] = x]
                              /\ x.pc = to /\ x.user = u /\ x.did = req[r].did
                              /\ x.nonce = req[r].nonce /\ x.wallet = req[r].wallet
<1>1. req \in [Requests -> Request] /\ req[r] \in Request  BY DEF TypeOK
<1>2. PICK x : x = [req[r] EXCEPT !.pc = to, !.user = u]  OBVIOUS
<1>3. /\ x \in Request /\ x.pc = to /\ x.user = u /\ x.did = req[r].did
      /\ x.nonce = req[r].nonce /\ x.wallet = req[r].wallet
  BY <1>1, <1>2, Zenon DEF Request
<1>4. req' = [req EXCEPT ![r] = x]  BY <1>1, <1>2, Zenon DEF WithUser
<1> QED  BY <1>3, <1>4, Zenon

\* consumeNonce takes an unconsumed nonce, so who logs in with it is alone.
LEMMA ConsumeInv ==
    ASSUME AInv, NEW r \in Requests, NEW n \in Nonces, NEW a \in Wallets, NEW signer,
           NEW then \in {"login", "link"}, consumeNonce(r, n, a, signer, then),
           then = "login" => req[r].pc = "new"
    PROVE  AInv'
<1>1. TypeOK /\ IdentityInv  BY Zenon DEF AInv
<1>2. /\ req \in [Requests -> Request] /\ users \in Seq(Dids \union {Nobody})
      /\ wallets \in [Wallets -> [owner : User, primary : BOOLEAN]]
      /\ nonces \in [Nonces -> [address : Wallets \union {Nobody},
                                state : {"none", "live", "expired", "consumed"}]]
  BY <1>1, Zenon DEF TypeOK
<1>3. req[r] \in Request /\ IdentityOK(req[r])  BY <1>1, <1>2, Zenon DEF IdentityInv
<1>4. /\ nonces' = IF Consumable(n, a) THEN [nonces EXCEPT ![n].state = "consumed"] ELSE nonces
      /\ req' = IF Consumable(n, a) /\ verifyWalletSignature(a, signer)
                THEN [req EXCEPT ![r].pc = then, ![r].wallet = a, ![r].nonce = n]
                ELSE [req EXCEPT ![r].pc = "401"]
      /\ UNCHANGED <<users, wallets, sessions>>
  BY Zenon DEF consumeNonce
<1>5. CASE ~Consumable(n, a)
  <2>1. nonces' = nonces /\ req' = [req EXCEPT ![r].pc = "401"]  BY <1>4, <1>5, Zenon
  <2>2. "401" \in Pcs \ {"new"} /\ "401" \notin Opening  BY DEF Pcs, Opening
  <2>3. wallets' \in [Wallets -> [owner : User, primary : BOOLEAN]]  BY <1>2, <1>4
  <2> QED  BY <1>4, <2>1, <2>2, <2>3, PcMoves, Zenon
<1>6. CASE Consumable(n, a)
  <2>1. nonces[n].state = "live" /\ nonces' = [nonces EXCEPT ![n].state = "consumed"]
    BY <1>4, <1>6 DEF Consumable
  <2>2. /\ nonces' \in [Nonces -> [address : Wallets \union {Nobody},
                                   state : {"none", "live", "expired", "consumed"}]]
        /\ nonces'[n].state = "consumed"
        /\ \A m \in Nonces : m # n => nonces'[m] = nonces[m]
    BY <1>2, <2>1
  <2>3. NoncesStay  BY <2>2, Zenon DEF NoncesStay
  <2>4. UsersGrow /\ OneUserEach'
    BY <1>1, <1>4, Zenon DEF UsersGrow, IdentityInv, OneUserEach
  <2>5. /\ users' \in Seq(Dids \union {Nobody})
        /\ wallets' \in [Wallets -> [owner : User, primary : BOOLEAN]]
    BY <1>2, <1>4, Zenon
  <2>6. ASSUME NEW x \in Request, req' = [req EXCEPT ![r] = x], IdentityOK(x),
               x.pc \in Opening => x.nonce = n
        PROVE  AInv'
    <3>1. IdentityOK(x)'  BY <2>4, <2>6, IdentityStays, Zenon
    <3>2. nonces[n].state # "consumed"  BY <2>1
    <3>3. x.pc \in Opening => /\ x.nonce \in Nonces /\ nonces[x.nonce].state # "consumed"
                              /\ nonces'[x.nonce].state = "consumed"
      BY <2>2, <2>6, <3>2, Zenon
    <3>4. sessions' = sessions  BY <1>4, Zenon
    <3> QED  BY <2>2, <2>3, <2>4, <2>5, <2>6, <3>1, <3>3, <3>4, RequestMoves, Zenon
  <2>7. CASE verifyWalletSignature(a, signer)
    <3>1. PICK x : x = [req[r] EXCEPT !.pc = then, !.wallet = a, !.nonce = n]  OBVIOUS
    <3>2. then \in Pcs /\ then # "new" /\ (then \in Opening => then = "login")
      BY DEF Pcs, Opening
    <3>3. /\ x \in Request /\ x.pc = then /\ x.nonce = n /\ x.did = req[r].did
          /\ x.user = req[r].user /\ x.wallet = a
      BY <1>3, <3>1, <3>2, Zenon DEF Request
    <3>4. req' = [req EXCEPT ![r].pc = then, ![r].wallet = a, ![r].nonce = n]
      BY <1>4, <1>6, <2>7, Zenon
    <3>5. req' = [req EXCEPT ![r] = x]  BY <1>2, <3>1, <3>4, Zenon
    <3>6. IdentityOK(x)  BY <1>3, <3>2, <3>3 DEF IdentityOK
    <3> QED  BY <2>6, <3>3, <3>5, <3>6, Zenon
  <2>8. CASE ~verifyWalletSignature(a, signer)
    <3>1. PICK x : x = [req[r] EXCEPT !.pc = "401"]  BY Zenon
    <3>2. "401" \in Pcs /\ "401" \notin Opening /\ "401" # "new"  BY DEF Pcs, Opening
    <3>3. x \in Request /\ x.pc = "401" /\ x.did = req[r].did /\ x.user = req[r].user
      BY <1>3, <3>1, <3>2 DEF Request
    <3>4. req' = [req EXCEPT ![r].pc = "401"]  BY <1>4, <2>8, Zenon
    <3>5. req' = [req EXCEPT ![r] = x]  BY <1>2, <3>1, <3>4
    <3>6. IdentityOK(x)  BY <1>3, <3>2, <3>3 DEF IdentityOK
    <3> QED  BY <2>6, <3>2, <3>3, <3>5, <3>6, Zenon
  <2> QED  BY <2>7, <2>8
<1> QED  BY <1>5, <1>6

-----------------------------------------------------------------------------
(* Wallet logins *)

LEMMA WalletLoginInv ==
    ASSUME AInv, NEW r \in Requests,
           verifyHandler(r) \/ wallet_select(r) \/ wallet_insert_user(r) \/ wallet_insert(r)
    PROVE  AInv'
<1>1. TypeOK /\ IdentityInv  BY Zenon DEF AInv
<1>2. /\ req \in [Requests -> Request] /\ users \in Seq(Dids \union {Nobody})
      /\ wallets \in [Wallets -> [owner : User, primary : BOOLEAN]]
  BY <1>1, Zenon DEF TypeOK
<1>3. req[r] \in Request /\ IdentityOK(req[r])  BY <1>1, <1>2, Zenon DEF IdentityInv
<1>4. /\ "login" \in Opening /\ "insert_user" \in Opening \intersect Pcs
      /\ "insert_wallet" \in Opening \intersect Pcs /\ "session" \in Opening \intersect Pcs
      /\ "500" \in Pcs \ Opening /\ "new" \notin Opening /\ "500" # "new"
  BY DEF Opening, Pcs
<1>5. CASE verifyHandler(r)
  <2>1. PICK n \in Nonces, a \in Wallets, signer \in Wallets :
            consumeNonce(r, n, a, signer, "login")
    BY <1>5, Zenon DEF verifyHandler
  <2>2. req[r].pc = "new"  BY <1>5, Zenon DEF verifyHandler, Arrives
  <2>3. "login" \in {"login", "link"}  OBVIOUS
  <2> QED  BY <2>1, <2>2, <2>3, ConsumeInv, Zenon
<1>6. CASE wallet_select(r)
  <2>1. req[r].pc = "login" /\ UNCHANGED <<users, wallets, nonces, sessions>>
    BY <1>6, Zenon DEF wallet_select
  <2>2. PICK to \in {"insert_user", "session"}, u \in User : WithUser(r, to, u)
    <3>1. CASE Unlinked(req[r].wallet)
      <4>1. WithUser(r, "insert_user", Nobody)  BY <1>6, <3>1, Zenon DEF wallet_select
      <4>2. Nobody \in User /\ "insert_user" \in {"insert_user", "session"}  BY DEF User
      <4> QED  BY <4>1, <4>2, Zenon
    <3>2. CASE ~Unlinked(req[r].wallet)
      <4>1. WithUser(r, "session", wallets[req[r].wallet].owner)
        BY <1>6, <3>2, Zenon DEF wallet_select
      <4>2. req[r].wallet \in Wallets  BY <1>3, <1>4, <2>1 DEF IdentityOK
      <4>3. wallets[req[r].wallet].owner \in User  BY <1>2, <4>2
      <4>4. "session" \in {"insert_user", "session"}  OBVIOUS
      <4> QED  BY <4>1, <4>3, <4>4, Zenon
    <3> QED  BY <3>1, <3>2
  <2>3. to \in Pcs /\ to \in Opening  BY <1>4
  <2>4. PICK x \in Request : /\ req' = [req EXCEPT ![r] = x]
                             /\ x.pc = to /\ x.user = u /\ x.did = req[r].did
                             /\ x.nonce = req[r].nonce /\ x.wallet = req[r].wallet
    BY <1>1, <2>2, <2>3, UserRow
  <2>5. IdentityOK(x)  BY <1>3, <1>4, <2>1, <2>3, <2>4 DEF IdentityOK
  <2>6. wallets' \in [Wallets -> [owner : User, primary : BOOLEAN]]  BY <1>2, <2>1, Zenon
  <2>7. req[r].pc \in Opening  BY <1>4, <2>1
  <2> QED  BY <2>1, <2>4, <2>5, <2>6, <2>7, PlainMove, Zenon
<1>7. CASE wallet_insert_user(r)
  <2>1. /\ req[r].pc = "insert_user" /\ AddUser(Nobody) /\ WithUser(r, "insert_wallet", NewUser)
        /\ UNCHANGED <<wallets, nonces, sessions>>
    BY <1>7, Zenon DEF wallet_insert_user
  <2>2. Nobody \in Dids \union {Nobody}  OBVIOUS
  <2>3. PICK u : u = NewUser  OBVIOUS
  <2>4. /\ users' \in Seq(Dids \union {Nobody}) /\ DOMAIN users' = DOMAIN users \union {u}
        /\ u \in User /\ u \notin DOMAIN users /\ users'[u] = Nobody
        /\ \A w \in DOMAIN users : users'[w] = users[w]
    BY <1>1, <2>1, <2>2, <2>3, AddedUser, Zenon DEF User
  <2>5. UsersGrow /\ OneUserEach'
    BY <1>1, <2>4 DEF UsersGrow, OneUserEach, IdentityInv
  <2>6. PICK x \in Request : /\ req' = [req EXCEPT ![r] = x]
                             /\ x.pc = "insert_wallet" /\ x.user = u /\ x.did = req[r].did
                             /\ x.nonce = req[r].nonce /\ x.wallet = req[r].wallet
    <3>1. WithUser(r, "insert_wallet", u) /\ "insert_wallet" \in Pcs  BY <1>4, <2>1, <2>3
    <3> QED  BY <1>1, <2>4, <3>1, UserRow
  <2>7. IdentityOK(x)'
    <3>1. x.did = Nobody /\ x.wallet \in Wallets  BY <1>3, <1>4, <2>1, <2>6 DEF IdentityOK
    <3>2. "insert_wallet" # "new"  OBVIOUS
    <3> QED  BY <2>6, <3>1, <3>2 DEF IdentityOK
  <2>8. /\ wallets' \in [Wallets -> [owner : User, primary : BOOLEAN]]
        /\ nonces' \in [Nonces -> [address : Wallets \union {Nobody},
                                   state : {"none", "live", "expired", "consumed"}]]
    BY <1>1, <2>1, Zenon DEF TypeOK
  <2>9. NoncesStay /\ sessions' = sessions /\ req[r].pc \in Opening
    BY <1>4, <2>1 DEF NoncesStay
  <2> QED  BY <2>4, <2>5, <2>6, <2>7, <2>8, <2>9, RequestMoves, Zenon
<1>8. CASE wallet_insert(r)
  <2>1. req[r].pc = "insert_wallet" /\ UNCHANGED <<users, nonces, sessions>>
    BY <1>8, Zenon DEF wallet_insert
  <2>2. CASE Unlinked(req[r].wallet)
    <3>1. /\ req' = [req EXCEPT ![r].pc = "session"]
          /\ wallets' = [wallets EXCEPT ![req[r].wallet] = [owner |-> req[r].user,
                                                            primary |-> TRUE]]
      BY <1>8, <2>2, Zenon DEF wallet_insert, Step
    <3>2. [owner |-> req[r].user, primary |-> TRUE] \in [owner : User, primary : BOOLEAN]
      BY <1>3 DEF Request
    <3>3. wallets' \in [Wallets -> [owner : User, primary : BOOLEAN]]  BY <1>2, <3>1, <3>2, Zenon
    <3>4. "session" \in Pcs \ {"new"} /\ req[r].pc \in Opening  BY <1>4, <2>1
    <3> QED  BY <2>1, <3>1, <3>3, <3>4, PcMoves, Zenon
  <2>3. CASE ~Unlinked(req[r].wallet)
    <3>1. req' = [req EXCEPT ![r].pc = "500"] /\ wallets' = wallets
      BY <1>8, <2>3, Zenon DEF wallet_insert, Step
    <3>2. "500" \in Pcs \ {"new"} /\ "500" \notin Opening  BY <1>4
    <3>3. wallets' \in [Wallets -> [owner : User, primary : BOOLEAN]]  BY <1>2, <3>1, Zenon
    <3> QED  BY <2>1, <3>1, <3>2, <3>3, PcMoves, Zenon
  <2> QED  BY <2>2, <2>3
<1> QED  BY <1>5, <1>6, <1>7, <1>8

LEMMA CreateSessionInv ==
    ASSUME AInv, NEW r \in Requests, createSession(r)
    PROVE  AInv'
<1>1. TypeOK /\ IdentityInv /\ NonceInv  BY Zenon DEF AInv
<1>2. req \in [Requests -> Request] /\ sessions \subseteq Session  BY <1>1, Zenon DEF TypeOK
<1>3. req[r] \in Request /\ IdentityOK(req[r])  BY <1>1, <1>2, Zenon DEF IdentityInv
<1>4. /\ req[r].pc = "session" /\ req' = [req EXCEPT ![r].pc = "200"]
      /\ UNCHANGED <<users, wallets, nonces>>
  BY Zenon DEF createSession, Step
<1>5. PICK x : x = [req[r] EXCEPT !.pc = "200"]  BY Zenon
<1>6. /\ "session" \in Opening /\ "200" \notin Opening /\ "200" \in Pcs /\ "200" # "new"
  BY DEF Opening, Pcs
<1>7. x \in Request /\ x.pc = "200" /\ x.did = req[r].did /\ x.user = req[r].user
  BY <1>3, <1>5, <1>6 DEF Request
<1>8. req' = [req EXCEPT ![r] = x]  BY <1>2, <1>4, <1>5
<1>9. /\ req' \in [Requests -> Request] /\ req'[r] = x
      /\ \A q \in Requests : q # r => req'[q] = req[q]
  BY <1>2, <1>7, <1>8
<1>10. PICK s : s = [by |-> r, nonce |-> req[r].nonce, user |-> req[r].user, state |-> "live"]
  BY Zenon
<1>11. sessions' = sessions \union {s}  BY <1>10, Zenon DEF createSession
<1>12. /\ req[r].nonce \in Nonces /\ nonces[req[r].nonce].state = "consumed"
       /\ \A t \in sessions : t.nonce # req[r].nonce
  BY <1>1, <1>4, <1>6 DEF NonceInv
<1>13. s \in Session /\ s.nonce = req[r].nonce  BY <1>3, <1>10, <1>12 DEF Session, Request
<1>14. TypeOK'
  <2>1. sessions' \subseteq Session  BY <1>2, <1>11, <1>13, Zenon
  <2> QED  BY <1>1, <1>4, <1>9, <2>1, Zenon DEF TypeOK
<1>15. IdentityInv'
  <2>1. IdentityOK(x)  BY <1>3, <1>6, <1>7 DEF IdentityOK
  <2>2. UsersGrow  BY <1>4, Zenon DEF UsersGrow
  <2>3. ASSUME NEW q \in Requests
        PROVE  IdentityOK(req[q])'
    <3>1. PICK y : y = req'[q]  OBVIOUS
    <3>2. IdentityOK(y)
      <4>1. CASE q = r  BY <1>9, <2>1, <3>1, <4>1
      <4>2. CASE q # r
        <5>1. y = req[q]  BY <1>9, <3>1, <4>2, Zenon
        <5> QED  BY <1>1, <5>1 DEF IdentityInv
      <4> QED  BY <4>1, <4>2
    <3>3. IdentityOK(y)'  BY <2>2, <3>2, IdentityStays
    <3> QED  BY <3>1, <3>3, Zenon
  <2> QED  BY <1>1, <1>4, <2>3, Zenon DEF IdentityInv
<1>16. NonceInv'
  <2>1. ASSUME NEW q \in Requests, req'[q].pc \in Opening
        PROVE  q # r /\ req'[q] = req[q] /\ req[q].pc \in Opening
    <3>1. q # r  BY <1>6, <1>7, <1>9, <2>1
    <3> QED  BY <1>9, <2>1, <3>1, Zenon
  <2>2. ASSUME NEW q \in Requests, req'[q].pc \in Opening
        PROVE  /\ req'[q].nonce \in Nonces /\ nonces'[req'[q].nonce].state = "consumed"
               /\ \A t \in sessions' : t.nonce # req'[q].nonce
    <3>1. q # r /\ req'[q] = req[q] /\ req[q].pc \in Opening  BY <2>1, <2>2, Zenon
    <3>2. /\ req[q].nonce \in Nonces /\ nonces[req[q].nonce].state = "consumed"
          /\ \A t \in sessions : t.nonce # req[q].nonce
      BY <1>1, <3>1, Zenon DEF NonceInv
    <3>3. req[r].nonce # req[q].nonce  BY <1>1, <1>4, <1>6, <3>1 DEF NonceInv
    <3>4. s.nonce # req[q].nonce  BY <1>13, <3>3
    <3>5. \A t \in sessions' : t.nonce # req[q].nonce  BY <1>11, <3>2, <3>4, Zenon
    <3> QED  BY <1>4, <3>1, <3>2, <3>5
  <2>3. ASSUME NEW p \in Requests, NEW q \in Requests, req'[p].pc \in Opening,
               req'[q].pc \in Opening, req'[p].nonce = req'[q].nonce
        PROVE  p = q
    <3>1. /\ req'[p] = req[p] /\ req[p].pc \in Opening
          /\ req'[q] = req[q] /\ req[q].pc \in Opening
      BY <2>1, <2>3, Zenon
    <3> QED  BY <1>1, <2>3, <3>1 DEF NonceInv
  <2>4. \A t \in sessions' : nonces'[t.nonce].state = "consumed"
    <3>1. \A t \in sessions : nonces[t.nonce].state = "consumed"  BY <1>1, Zenon DEF NonceInv
    <3>2. nonces[s.nonce].state = "consumed"  BY <1>12, <1>13
    <3> QED  BY <1>4, <1>11, <3>1, <3>2
  <2>5. NonceOpensOneSession'
    <3>1. \A t, w \in sessions : t.nonce = w.nonce => t = w
      BY <1>1, Zenon DEF NonceInv, NonceOpensOneSession
    <3>2. \A t \in sessions : t.nonce # s.nonce  BY <1>12, <1>13
    <3>3. \A t, w \in sessions \union {s} : t.nonce = w.nonce => t = w  BY <3>1, <3>2
    <3> QED  BY <1>11, <3>3 DEF NonceOpensOneSession
  <2> QED  BY <2>2, <2>3, <2>4, <2>5, Zenon DEF NonceInv
<1> QED  BY <1>14, <1>15, <1>16, Zenon DEF AInv

-----------------------------------------------------------------------------
(* Requests that authenticate *)

\* A request that arrives with an identity, and a user when it has one
LEMMA IdentityRow ==
    ASSUME AInv, NEW r \in Requests, req[r].pc = "new", NEW did \in Dids,
           upsertUserByPrivyId(r, did), UNCHANGED <<users, wallets, nonces, sessions>>
    PROVE  AInv'
<1>1. TypeOK /\ IdentityInv  BY Zenon DEF AInv
<1>2. /\ req \in [Requests -> Request] /\ users \in Seq(Dids \union {Nobody})
      /\ wallets' \in [Wallets -> [owner : User, primary : BOOLEAN]]
  BY <1>1, Zenon DEF TypeOK
<1>3. req[r] \in Request /\ IdentityOK(req[r])  BY <1>1, <1>2, Zenon DEF IdentityInv
<1>4. /\ "authed" \in Pcs /\ "authed" \notin Opening \union {"new"}
      /\ "sign_up" \in Pcs /\ "sign_up" \notin Opening \union {"new"}
  BY DEF Opening, Pcs
<1>5. CASE SignedUp(did) # {}
  <2>1. PICK u : u = CHOOSE w \in SignedUp(did) : TRUE  OBVIOUS
  <2>2. u \in SignedUp(did)  BY <1>5, <2>1, Zenon
  <2>3. u \in DOMAIN users /\ users[u] = did  BY <2>2, Zenon DEF SignedUp
  <2>4. u \in User  BY <1>2, <2>3 DEF User
  <2>5. req' = [req EXCEPT ![r].pc = "authed", ![r].did = did, ![r].user = u]
    BY <1>5, <2>1 DEF upsertUserByPrivyId
  <2>6. PICK x : x = [req[r] EXCEPT !.pc = "authed", !.did = did, !.user = u]  OBVIOUS
  <2>7. x \in Request /\ x.pc = "authed" /\ x.did = did /\ x.user = u
    BY <1>3, <1>4, <2>4, <2>6, Zenon DEF Request
  <2>8. req' = [req EXCEPT ![r] = x]  BY <1>2, <2>5, <2>6, Zenon
  <2>9. IdentityOK(x)  BY <1>4, <2>3, <2>7 DEF IdentityOK
  <2>10. x.pc \notin Opening  BY <1>4, <2>7
  <2>11. UNCHANGED <<users, nonces, sessions>>  OBVIOUS
  <2> QED  BY <1>2, <2>7, <2>8, <2>9, <2>10, <2>11, PlainMove, Zenon
<1>6. CASE SignedUp(did) = {}
  <2>1. req' = [req EXCEPT ![r].pc = "sign_up", ![r].did = did]
    BY <1>6 DEF upsertUserByPrivyId
  <2>2. PICK x : x = [req[r] EXCEPT !.pc = "sign_up", !.did = did]  OBVIOUS
  <2>3. x \in Request /\ x.pc = "sign_up" /\ x.user = req[r].user
    BY <1>3, <1>4, <2>2, Zenon DEF Request
  <2>4. req' = [req EXCEPT ![r] = x]  BY <1>2, <2>1, <2>2, Zenon
  <2>5. IdentityOK(x)  BY <1>3, <1>4, <2>3 DEF IdentityOK
  <2>6. x.pc \notin Opening  BY <1>4, <2>3
  <2>7. UNCHANGED <<users, nonces, sessions>>  OBVIOUS
  <2> QED  BY <1>2, <2>3, <2>4, <2>5, <2>6, <2>7, PlainMove, Zenon
<1> QED  BY <1>5, <1>6

\* A request that goes on, with or without a change of the wallets
LEMMA AuthedInv ==
    ASSUME AInv, NEW r \in Requests, authedUser(r)
    PROVE  AInv'
<1>1. TypeOK /\ IdentityInv  BY Zenon DEF AInv
<1>2. /\ req \in [Requests -> Request] /\ sessions \subseteq Session
      /\ wallets \in [Wallets -> [owner : User, primary : BOOLEAN]]
  BY <1>1, Zenon DEF TypeOK
<1>3. req[r] \in Request /\ IdentityOK(req[r])  BY <1>1, <1>2, Zenon DEF IdentityInv
<1>4. req[r].pc = "new" /\ UNCHANGED <<users, wallets, nonces, sessions>>
  BY Zenon DEF authedUser, Arrives, requirePrivyUser, requireUser
<1>5. wallets' \in [Wallets -> [owner : User, primary : BOOLEAN]]  BY <1>2, <1>4
<1>6. UNCHANGED <<users, nonces, sessions>>  BY <1>4
<1>7. /\ "authed" \in Pcs /\ "authed" \notin Opening \union {"new"}
      /\ "401" \in Pcs \ {"new"} /\ "401" \notin Opening
  BY DEF Opening, Pcs
<1>8. CASE Step(r, "new", "401")
  <2>1. req' = [req EXCEPT ![r].pc = "401"]  BY <1>8, Zenon DEF Step
  <2> QED  BY <1>5, <1>6, <1>7, <2>1, PcMoves, Zenon
<1>9. ASSUME NEW did \in Dids, upsertUserByPrivyId(r, did)
      PROVE  AInv'
  BY <1>4, <1>9, IdentityRow
<1>10. ASSUME NEW s \in sessions, userIdForSession(s) # Nobody,
              WithUser(r, "authed", userIdForSession(s))
       PROVE  AInv'
  <2>1. PICK u : u = userIdForSession(s)  OBVIOUS
  <2>2. u \in User
    <3>1. s \in Session  BY <1>2
    <3>2. s.user \in User  BY <3>1 DEF Session
    <3>3. u = s.user  BY <1>10, <2>1 DEF userIdForSession
    <3> QED  BY <3>2, <3>3
  <2>3. WithUser(r, "authed", u)  BY <1>10, <2>1
  <2>4. PICK x \in Request : /\ req' = [req EXCEPT ![r] = x]
                             /\ x.pc = "authed" /\ x.user = u /\ x.did = req[r].did
                             /\ x.nonce = req[r].nonce /\ x.wallet = req[r].wallet
    BY <1>1, <1>7, <2>2, <2>3, UserRow
  <2>5. IdentityOK(x)  BY <1>3, <1>4, <1>7, <2>4 DEF IdentityOK
  <2>6. x.pc \notin Opening  BY <1>7, <2>4
  <2> QED  BY <1>5, <1>6, <2>4, <2>5, <2>6, PlainMove, Zenon
<1>11. \/ Step(r, "new", "401")
       \/ \E did \in Dids : upsertUserByPrivyId(r, did)
       \/ \E s \in sessions : /\ userIdForSession(s) # Nobody
                              /\ WithUser(r, "authed", userIdForSession(s))
  BY Zenon DEF authedUser, requirePrivyUser, requireUser, readSessionToken
<1> QED  BY <1>8, <1>9, <1>10, <1>11, Zenon

\* The unique index: the identity that gets a row had none.
LEMMA PrivyInsertInv ==
    ASSUME AInv, NEW r \in Requests, privy_insert(r)
    PROVE  AInv'
<1>1. TypeOK /\ IdentityInv  BY Zenon DEF AInv
<1>2. /\ req \in [Requests -> Request]
      /\ wallets \in [Wallets -> [owner : User, primary : BOOLEAN]]
  BY <1>1, Zenon DEF TypeOK
<1>3. req[r] \in Request /\ IdentityOK(req[r])  BY <1>1, <1>2, Zenon DEF IdentityInv
<1>4. req[r].pc = "sign_up" /\ UNCHANGED <<wallets, nonces, sessions>>
  BY Zenon DEF privy_insert
<1>5. wallets' \in [Wallets -> [owner : User, primary : BOOLEAN]]  BY <1>2, <1>4
<1>6. /\ "authed" \in Pcs /\ "authed" \notin Opening \union {"new"}
      /\ "500" \in Pcs \ {"new"} /\ "500" \notin Opening
  BY DEF Opening, Pcs
<1>7. CASE UniqueDid(req[r].did)
  <2>1. PICK did, u : did = req[r].did /\ u = NewUser  OBVIOUS
  <2>2. AddUser(did) /\ WithUser(r, "authed", u)  BY <1>7, <2>1 DEF privy_insert
  <2>3. did \in Dids \union {Nobody}  BY <1>3, <2>1 DEF Request
  <2>4. /\ users' \in Seq(Dids \union {Nobody}) /\ DOMAIN users' = DOMAIN users \union {u}
        /\ u \in User /\ u \notin DOMAIN users /\ users'[u] = did
        /\ \A w \in DOMAIN users : users'[w] = users[w]
    BY <1>1, <2>1, <2>2, <2>3, AddedUser, Zenon DEF User
  <2>5. \A w \in DOMAIN users : users[w] # did
    BY <1>7, <2>1 DEF UniqueDid, SignedUp
  <2>6. UsersGrow /\ OneUserEach'
    <3>1. \A w, v \in DOMAIN users : users[w] = users[v] /\ users[w] # Nobody => w = v
      BY <1>1, Zenon DEF IdentityInv
    <3> QED  BY <2>4, <2>5, <3>1 DEF UsersGrow, OneUserEach
  <2>7. PICK x \in Request : /\ req' = [req EXCEPT ![r] = x]
                             /\ x.pc = "authed" /\ x.user = u /\ x.did = req[r].did
                             /\ x.nonce = req[r].nonce /\ x.wallet = req[r].wallet
    BY <1>1, <1>6, <2>2, <2>4, UserRow
  <2>8. IdentityOK(x)'  BY <1>6, <2>1, <2>4, <2>7 DEF IdentityOK
  <2>9. nonces' \in [Nonces -> [address : Wallets \union {Nobody},
                                state : {"none", "live", "expired", "consumed"}]]
    BY <1>1, <1>4, Zenon DEF TypeOK
  <2>10. NoncesStay /\ sessions' = sessions /\ x.pc \notin Opening
    BY <1>4, <1>6, <2>7 DEF NoncesStay
  <2> QED  BY <1>5, <2>4, <2>6, <2>7, <2>8, <2>9, <2>10, RequestMoves, Zenon
<1>8. CASE ~UniqueDid(req[r].did)
  <2>1. req' = [req EXCEPT ![r].pc = "500"] /\ UNCHANGED <<users, nonces, sessions>>
    BY <1>4, <1>8, Zenon DEF privy_insert, Step
  <2> QED  BY <1>5, <1>6, <2>1, PcMoves, Zenon
<1> QED  BY <1>7, <1>8

\* The routes that link and unlink wallets
LEMMA WalletRoutesInv ==
    ASSUME AInv, NEW r \in Requests,
           sync_privy(r) \/ deleteWallet(r) \/ post_wallets(r) \/ addWallet(r)
    PROVE  AInv'
<1> DEFINE WalletRow == [owner : User, primary : BOOLEAN]
<1>1. TypeOK  BY Zenon DEF AInv
<1>2. req \in [Requests -> Request] /\ wallets \in [Wallets -> WalletRow]
  BY <1>1, Zenon DEF TypeOK
<1>3. req[r].user \in User
  <2>1. req[r] \in Request  BY <1>2, Zenon
  <2> QED  BY <2>1 DEF Request
<1>4. /\ "200" \in Pcs \ {"new"} /\ "200" \notin Opening
      /\ "409" \in Pcs \ {"new"} /\ "409" \notin Opening
      /\ "syncing" \in Pcs \ {"new"} /\ "syncing" \notin Opening
  BY DEF Opening, Pcs
<1>5. ASSUME NEW to \in {"200", "409", "syncing"}, req' = [req EXCEPT ![r].pc = to],
             wallets' \in [Wallets -> WalletRow], UNCHANGED <<users, nonces, sessions>>
      PROVE  AInv'
  <2>1. to \in Pcs \ {"new"} /\ to \notin Opening  BY <1>4
  <2> QED  BY <1>5, <2>1, PcMoves, Zenon
<1>6. CASE sync_privy(r)
  <2>1. UNCHANGED <<users, nonces, sessions>>  BY <1>6, Zenon DEF sync_privy
  <2>2. ASSUME NEW a \in Wallets, syncPrivyWallets(req[r].user, a),
               req' = [req EXCEPT ![r].pc = "syncing"]
        PROVE  AInv'
    <3>1. PICK u \in User : u = req[r].user  BY <1>3
    <3>2. wallets' = [wallets EXCEPT ![a].owner = u]  BY <2>2, <3>1 DEF syncPrivyWallets
    <3>3. wallets' \in [Wallets -> WalletRow]  BY <1>2, <3>2
    <3>4. "syncing" \in {"200", "409", "syncing"}  OBVIOUS
    <3> QED  BY <1>5, <2>1, <2>2, <3>3, <3>4, Zenon
  <2>3. CASE wallets' = wallets /\ req' = [req EXCEPT ![r].pc = "200"]
    <3>1. wallets' \in [Wallets -> WalletRow] /\ "200" \in {"200", "409", "syncing"}
      BY <1>2, <2>3
    <3> QED  BY <1>5, <2>1, <2>3, <3>1, Zenon
  <2> QED  BY <1>6, <2>2, <2>3, Zenon DEF sync_privy
<1>7. CASE deleteWallet(r)
  <2>1. UNCHANGED <<users, nonces, sessions>>  BY <1>7, Zenon DEF deleteWallet
  <2>2. PICK a \in Wallets :
            \/ req' = [req EXCEPT ![r].pc = "200"] /\ wallets' = [wallets EXCEPT ![a] = NoWallet]
            \/ req' = [req EXCEPT ![r].pc = "409"] /\ wallets' = wallets
    BY <1>7, Zenon DEF deleteWallet, Step
  <2>3. NoWallet \in WalletRow  BY DEF NoWallet, User
  <2>4. wallets' \in [Wallets -> WalletRow]  BY <1>2, <2>2, <2>3
  <2>5. PICK to \in {"200", "409", "syncing"} : req' = [req EXCEPT ![r].pc = to]  BY <2>2
  <2> QED  BY <1>5, <2>1, <2>4, <2>5, Zenon
<1>8. CASE post_wallets(r)
  <2>1. PICK n \in Nonces, a \in Wallets, signer \in Wallets :
            consumeNonce(r, n, a, signer, "link")
    BY <1>8, Zenon DEF post_wallets
  <2>2. "link" \in {"login", "link"} /\ "link" # "login"  OBVIOUS
  <2> QED  BY <2>1, <2>2, ConsumeInv, Zenon
<1>9. CASE addWallet(r)
  <2>1. req' = [req EXCEPT ![r].pc = "200"] /\ UNCHANGED <<users, nonces, sessions>>
    BY <1>9, Zenon DEF addWallet, Step
  <2>2. PICK w : w = [owner |-> req[r].user, primary |-> FALSE]  BY Zenon
  <2>3. w \in WalletRow  BY <1>3, <2>2
  <2>4. wallets' = IF Unlinked(req[r].wallet) THEN [wallets EXCEPT ![req[r].wallet] = w]
                                              ELSE wallets
    BY <1>9, <2>2 DEF addWallet
  <2>5. wallets' \in [Wallets -> WalletRow]  BY <1>2, <2>3, <2>4, Zenon
  <2>6. "200" \in {"200", "409", "syncing"}  OBVIOUS
  <2> QED  BY <1>5, <2>1, <2>5, <2>6, Zenon
<1> QED  BY <1>6, <1>7, <1>8, <1>9

-----------------------------------------------------------------------------
(* Nonces that are issued, and nonces and sessions that end *)

\* A nonce that is not consumed changes.
LEMMA NonceChanges ==
    ASSUME AInv, NEW n \in Nonces, nonces[n].state # "consumed",
           nonces' \in [Nonces -> [address : Wallets \union {Nobody},
                                   state : {"none", "live", "expired", "consumed"}]],
           \A m \in Nonces : m # n => nonces'[m] = nonces[m],
           UNCHANGED <<users, wallets, sessions, req>>
    PROVE  AInv'
<1>1. TypeOK /\ IdentityInv /\ NonceInv  BY Zenon DEF AInv
<1>2. TypeOK'  BY <1>1, Zenon DEF TypeOK
<1>3. IdentityInv'  BY <1>1 DEF IdentityInv, IdentityOK
<1>4. NoncesStay  BY Zenon DEF NoncesStay
<1>5. \A s \in sessions : s.nonce \in Nonces
  <2>1. sessions \subseteq Session  BY <1>1, Zenon DEF TypeOK
  <2> QED  BY <2>1 DEF Session
<1>6. NonceInv'
  <2>1. \A s \in sessions : nonces'[s.nonce].state = "consumed"
    BY <1>1, <1>4, <1>5, Zenon DEF NonceInv, NoncesStay
  <2>2. \A r \in Requests : req[r].pc \in Opening =>
            /\ req[r].nonce \in Nonces /\ nonces'[req[r].nonce].state = "consumed"
            /\ \A s \in sessions : s.nonce # req[r].nonce
    BY <1>1, <1>4, Zenon DEF NonceInv, NoncesStay
  <2> QED  BY <1>1, <2>1, <2>2 DEF NonceInv, NonceOpensOneSession
<1> QED  BY <1>2, <1>3, <1>6, Zenon DEF AInv

\* A session changes in place.
LEMMA SessionChanges ==
    ASSUME AInv, NEW s \in sessions, NEW state \in {"live", "expired", "revoked"},
           sessions' = (sessions \ {s}) \union {[s EXCEPT !.state = state]},
           UNCHANGED <<users, wallets, nonces, req>>
    PROVE  AInv'
<1>1. TypeOK /\ IdentityInv /\ NonceInv  BY Zenon DEF AInv
<1>2. sessions \subseteq Session  BY <1>1, Zenon DEF TypeOK
<1>3. PICK t : t = [s EXCEPT !.state = state]  BY Zenon
<1>4. s \in Session  BY <1>2
<1>5. t \in Session /\ t.nonce = s.nonce  BY <1>3, <1>4 DEF Session
<1>6. sessions' = (sessions \ {s}) \union {t}  BY <1>3
<1>7. TypeOK'
  <2>1. sessions' \subseteq Session  BY <1>2, <1>5, <1>6, Zenon
  <2> QED  BY <1>1, <2>1, Zenon DEF TypeOK
<1>8. IdentityInv'  BY <1>1 DEF IdentityInv, IdentityOK
<1>9. \A w \in sessions' : \E v \in sessions : w.nonce = v.nonce  BY <1>5, <1>6
<1>10. NonceInv'
  <2>1. \A w \in sessions' : nonces[w.nonce].state = "consumed"
    BY <1>1, <1>9 DEF NonceInv
  <2>2. \A r \in Requests : req[r].pc \in Opening => \A w \in sessions' : w.nonce # req[r].nonce
    BY <1>1, <1>9 DEF NonceInv
  <2>3. \A v, w \in sessions : v.nonce = w.nonce => v = w
    BY <1>1, Zenon DEF NonceInv, NonceOpensOneSession
  <2>4. \A v, w \in sessions' : v.nonce = w.nonce => v = w  BY <1>5, <1>6, <2>3
  <2>5. NonceOpensOneSession'  BY <2>4, Zenon DEF NonceOpensOneSession
  <2> QED  BY <1>1, <2>1, <2>2, <2>5 DEF NonceInv
<1> QED  BY <1>7, <1>8, <1>10, Zenon DEF AInv

LEMMA NoncesAndSessionsInv ==
    ASSUME AInv, auth_nonce \/ expire \/ logout
    PROVE  AInv'
<1> DEFINE NonceRow == [address : Wallets \union {Nobody},
                        state : {"none", "live", "expired", "consumed"}]
<1>1. nonces \in [Nonces -> NonceRow]  BY Zenon DEF AInv, TypeOK
<1>2. CASE auth_nonce
  <2>1. PICK n \in Nonces, a \in Wallets : nonces[n].state = "none" /\ createNonce(n, a)
    BY <1>2, Zenon DEF auth_nonce
  <2>2. UNCHANGED <<users, wallets, sessions, req>>  BY <1>2, Zenon DEF auth_nonce
  <2>3. [address |-> a, state |-> "live"] \in NonceRow  OBVIOUS
  <2>4. nonces' = [nonces EXCEPT ![n] = [address |-> a, state |-> "live"]]
    BY <2>1, Zenon DEF createNonce
  <2>5. nonces' \in [Nonces -> NonceRow] /\ \A m \in Nonces : m # n => nonces'[m] = nonces[m]
    BY <1>1, <2>3, <2>4
  <2>6. nonces[n].state # "consumed"  BY <2>1
  <2> QED  BY <2>2, <2>5, <2>6, NonceChanges, Zenon
<1>3. CASE expire
  <2>1. ASSUME NEW n \in Nonces, nonces[n].state = "live",
               nonces' = [nonces EXCEPT ![n].state = "expired"], UNCHANGED sessions
        PROVE  AInv'
    <3>1. nonces' \in [Nonces -> NonceRow] /\ \A m \in Nonces : m # n => nonces'[m] = nonces[m]
      BY <1>1, <2>1
    <3>2. nonces[n].state # "consumed"  BY <2>1
    <3>3. UNCHANGED <<users, wallets, sessions, req>>  BY <1>3, <2>1, Zenon DEF expire
    <3> QED  BY <3>1, <3>2, <3>3, NonceChanges, Zenon
  <2>2. ASSUME NEW s \in sessions, UNCHANGED nonces,
               sessions' = (sessions \ {s}) \union {[s EXCEPT !.state = "expired"]}
        PROVE  AInv'
    <3>1. UNCHANGED <<users, wallets, nonces, req>>  BY <1>3, <2>2, Zenon DEF expire
    <3>2. "expired" \in {"live", "expired", "revoked"}  OBVIOUS
    <3> QED  BY <2>2, <3>1, <3>2, SessionChanges
  <2> QED  BY <1>3, <2>1, <2>2, Zenon DEF expire
<1>4. CASE logout
  <2>1. PICK s \in sessions :
            sessions' = (sessions \ {s}) \union {[s EXCEPT !.state = "revoked"]}
    BY <1>4, Zenon DEF logout, revokeSession
  <2>2. UNCHANGED <<users, wallets, nonces, req>>  BY <1>4, Zenon DEF logout
  <2>3. "revoked" \in {"live", "expired", "revoked"}  OBVIOUS
  <2> QED  BY <2>1, <2>2, <2>3, SessionChanges
<1> QED  BY <1>2, <1>3, <1>4

-----------------------------------------------------------------------------

LEMMA InitAInv == Init => AInv
<1> SUFFICES ASSUME Init PROVE AInv  OBVIOUS
<1>1. PICK x : x = [pc |-> "new", did |-> Nobody, wallet |-> Nobody, nonce |-> Nobody,
                    user |-> Nobody]
  BY Zenon
<1>2. x \in Request /\ x.pc = "new" /\ x.did = Nobody /\ x.user = Nobody
  BY <1>1 DEF Request, Pcs, User
<1>3. req = [r \in Requests |-> x]  BY <1>1, Zenon DEF Init
<1>4. req \in [Requests -> Request] /\ \A r \in Requests : req[r] = x  BY <1>2, <1>3
<1>5. "new" \notin Opening  BY DEF Opening
<1>6. users = << >> /\ sessions = {}  BY Zenon DEF Init
<1>7. TypeOK
  <2>1. users \in Seq(Dids \union {Nobody})  BY <1>6
  <2>2. wallets \in [Wallets -> [owner : User, primary : BOOLEAN]]
    BY DEF Init, NoWallet, User
  <2>3. nonces \in [Nonces -> [address : Wallets \union {Nobody},
                               state : {"none", "live", "expired", "consumed"}]]
    BY DEF Init
  <2> QED  BY <1>4, <1>6, <2>1, <2>2, <2>3 DEF TypeOK
<1>8. IdentityInv
  <2>1. IdentityOK(x)  BY <1>2, <1>5 DEF IdentityOK
  <2>2. DOMAIN users = {}  BY <1>6
  <2> QED  BY <1>4, <2>1, <2>2 DEF IdentityInv
<1>9. NonceInv  BY <1>2, <1>4, <1>5, <1>6 DEF NonceInv, NonceOpensOneSession
<1> QED  BY <1>7, <1>8, <1>9, Zenon DEF AInv

LEMMA NextAInv == AInv /\ [Next]_vars => AInv'
<1> SUFFICES ASSUME AInv, [Next]_vars PROVE AInv'  OBVIOUS
<1>1. CASE UNCHANGED vars
  BY <1>1 DEF vars, AInv, TypeOK, IdentityInv, IdentityOK, NonceInv, NonceOpensOneSession
<1>2. CASE auth_nonce \/ expire \/ logout  BY <1>2, NoncesAndSessionsInv
<1>3. ASSUME NEW r \in Requests,
             \/ verifyHandler(r) \/ wallet_select(r) \/ wallet_insert_user(r) \/ wallet_insert(r)
             \/ createSession(r) \/ authedUser(r) \/ privy_insert(r)
             \/ sync_privy(r) \/ deleteWallet(r) \/ post_wallets(r) \/ addWallet(r)
      PROVE  AInv'
  BY <1>3, WalletLoginInv, CreateSessionInv, AuthedInv, PrivyInsertInv, WalletRoutesInv
<1> QED  BY <1>1, <1>2, <1>3, Zenon DEF Next

(* The inductive invariant: every request between the consumption of its nonce *)
(* and its session is alone with that nonce, and every request that carries an *)
(* identity and a user carries the identity's own user.                        *)
THEOREM AccountsInvariant == Spec => []AInv
BY InitAInv, NextAInv, PTL DEF Spec

(* A Privy identity is one user, however many first requests race between the  *)
(* select and the insert of upsertUserByPrivyId.                               *)
THEOREM AccountsOneUserPerIdentity == Spec => []OneUserPerIdentity
<1>1. AInv => OneUserPerIdentity
  BY DEF AInv, IdentityInv, IdentityOK, OneUserPerIdentity
<1> QED  BY <1>1, AccountsInvariant, PTL

(* A nonce opens at most one session: consumeNonce checks and consumes in one  *)
(* query, and the session comes several queries later.                         *)
THEOREM AccountsNonceOpensOneSession == Spec => []NonceOpensOneSession
<1>1. AInv => NonceOpensOneSession  BY Zenon DEF AInv, NonceInv
<1> QED  BY <1>1, AccountsInvariant, PTL

-----------------------------------------------------------------------------
(* Settlements, reports and backups of a user. *)

CONSTANTS Users, Settlements, OwnerOf, Kinds, MaxRequests, MaxFaults

VARIABLES settlementRows, payments, anchorRows, reports, backups, activity, requests, acked, failures

Records == INSTANCE UserRecords

\* Every settlement has an owner, and nobody is no user.
RecordsConstants == OwnerOf \in [Settlements -> Users] /\ Nobody \notin Users

\* A request has these fields.
Fields(q) == DOMAIN q = {"kind", "user", "asked", "pc", "owned", "payload", "found", "known", "code"}

\* The settlement has a row, and its owner is in it.
Tagged(s) == s \in DOMAIN settlementRows /\ settlementRows[s] = OwnerOf[s]

\* The report of request r is stored, with a signature over what it lists.
Stored(r) ==
    \E i \in DOMAIN reports : /\ reports[i].user = requests[r].user /\ reports[i].of = r
                              /\ reports[i].signature.nullifiers = requests[r].owned

\* The settlements of the user that were answered before are listed.
Lists(q) == {s \in q.known : OwnerOf[s] = q.user} \subseteq q.owned

\* What a request in progress, or answered, has of the rows.
RequestRow(r) ==
    LET q == requests[r] IN
    /\ q.pc # "done" => q.code = 0
    /\ q.user \in Users /\ q.asked \subseteq Settlements
    /\ q.kind = "settle" => \A s \in q.asked : OwnerOf[s] = q.user
    /\ q.kind = "settle" /\ q.pc = "tag" => q.asked \subseteq DOMAIN settlementRows
    /\ q.kind = "settle" /\ q.pc = "log" => \A s \in q.asked : Tagged(s)
    /\ \A s \in q.known : s \in q.asked /\ Tagged(s)
    /\ \A s \in q.owned : Tagged(s) /\ OwnerOf[s] = q.user
    /\ q.payload \in Nat /\ q.payload <= backups[q.user]
    /\ q.kind = "report" /\ (q.pc \in {"store", "log"} \/ q.code = 200) => Lists(q)
    /\ q.kind = "report" /\ (q.pc = "log" \/ q.code = 200) => Stored(r)
    /\ q.kind = "recover" /\ (q.pc = "log" \/ q.code = 200) => q.payload <= q.found

RecordsTypeOK ==
    /\ DOMAIN settlementRows \subseteq Settlements
    /\ \A s \in DOMAIN settlementRows : settlementRows[s] \in {Nobody, OwnerOf[s]}
    /\ backups \in [Users -> Nat]
    /\ DOMAIN requests = Records!Requests /\ \A r \in Records!Requests : Fields(requests[r])
    /\ DOMAIN acked = {"settled", "payload"} /\ acked.payload \in [Users -> Nat]
    /\ \E S : reports \in Seq(S)

\* What was answered is in the rows: a settlement with its user, a payload or a
\* later one; a report lists settlements of its user.
RecordsInv ==
    /\ RecordsTypeOK
    /\ \A s \in acked.settled : Tagged(s)
    /\ \A u \in Users : acked.payload[u] <= backups[u]
    /\ \A i \in DOMAIN reports : \A s \in reports[i].nullifiers : Tagged(s) /\ OwnerOf[s] = reports[i].user
    /\ \A r \in Records!Requests : IF requests[r].pc = "new" THEN requests[r].code = 0 ELSE RequestRow(r)

\* Nothing was asked or answered at first.
LEMMA RecordsInit == Records!Init => RecordsInv
<1> SUFFICES ASSUME Records!Init PROVE RecordsInv
    OBVIOUS
<1>1. reports \in Seq({}) /\ DOMAIN reports = {}
    BY DEF Records!Init
<1>2. \A r \in Records!Requests : requests[r].pc = "new" /\ requests[r].code = 0 /\ Fields(requests[r])
    BY Zenon DEF Records!Init, Records!Idle, Fields
<1>3. DOMAIN acked = {"settled", "payload"} /\ acked.settled = {} /\ acked.payload = [u \in Users |-> 0]
    BY DEF Records!Init
<1>4. DOMAIN settlementRows = {} /\ backups = [u \in Users |-> 0] /\ DOMAIN requests = Records!Requests
    BY DEF Records!Init
<1> QED BY <1>1, <1>2, <1>3, <1>4 DEF RecordsInv, RecordsTypeOK

-----------------------------------------------------------------------------
\* The rows only gain: a tag stays, a backup is replaced by a later one, and a
\* report stays where it is.
RowsGrow ==
    /\ DOMAIN settlementRows \subseteq DOMAIN settlementRows'
    /\ \A s : Tagged(s) => Tagged(s)'
    /\ \A u \in Users : backups[u] <= backups'[u]
    /\ \A i \in DOMAIN reports : i \in DOMAIN reports' /\ reports'[i] = reports[i]

\* The request of a step is the only one that changes.
Only(r) ==
    /\ DOMAIN requests' = Records!Requests /\ Fields(requests'[r])
    /\ \A q \in Records!Requests : q # r => requests'[q] = requests[q]

\* What a request has of the rows it keeps while they gain.
LEMMA RequestStays ==
    ASSUME RecordsInv, RowsGrow, RecordsTypeOK', NEW r \in Records!Requests, requests'[r] = requests[r], RequestRow(r)
    PROVE  RequestRow(r)'
<1>1. PICK q : q = requests[r]
    OBVIOUS
<1>2. backups[q.user] \in Nat /\ backups'[q.user] \in Nat /\ backups[q.user] <= backups'[q.user]
    BY <1>1, Zenon DEF RecordsInv, RecordsTypeOK, RequestRow, RowsGrow
<1>3. Stored(r) => Stored(r)'
    BY DEF Stored, RowsGrow
<1>4. \A s : Tagged(s) => Tagged(s)'
    BY DEF RowsGrow
<1>5. DOMAIN settlementRows \subseteq DOMAIN settlementRows'
    BY DEF RowsGrow
<1>6. q.payload \in Nat /\ q.payload <= backups'[q.user]
    BY <1>1, <1>2 DEF RequestRow
<1> QED BY <1>1, <1>3, <1>4, <1>5, <1>6 DEF RequestRow, Lists

\* A step of request r: what is left to show is what it says of itself.
LEMMA RecordsMove ==
    ASSUME RecordsInv, RowsGrow, NEW r \in Records!Requests, Only(r), requests'[r].pc # "new" /\ RequestRow(r)',
           DOMAIN settlementRows' \subseteq Settlements,
           \A s \in DOMAIN settlementRows' : settlementRows'[s] \in {Nobody, OwnerOf[s]},
           backups' \in [Users -> Nat],
           DOMAIN acked' = {"settled", "payload"}, acked'.payload \in [Users -> Nat],
           \A s \in acked'.settled : Tagged(s)',
           \A u \in Users : acked'.payload[u] <= backups'[u],
           \E S : reports' \in Seq(S),
           \A i \in DOMAIN reports' \ DOMAIN reports :
               \A s \in reports'[i].nullifiers : Tagged(s)' /\ OwnerOf[s] = reports'[i].user
    PROVE  RecordsInv'
<1>1. RecordsTypeOK'
    BY Zenon DEF RecordsInv, RecordsTypeOK, Only, Records!Requests
<1>2. ASSUME NEW q \in Records!Requests
      PROVE  IF requests'[q].pc = "new" THEN requests'[q].code = 0 ELSE RequestRow(q)'
    <2>1. CASE q = r
        BY <2>1
    <2>2. CASE q # r
        <3>1. requests'[q] = requests[q]
            BY <2>2 DEF Only
        <3>2. IF requests[q].pc = "new" THEN requests[q].code = 0 ELSE RequestRow(q)
            BY DEF RecordsInv
        <3> QED BY <1>1, <3>1, <3>2, RequestStays
    <2> QED BY <2>1, <2>2, Zenon
<1>3. \A i \in DOMAIN reports' : \A s \in reports'[i].nullifiers : Tagged(s)' /\ OwnerOf[s] = reports'[i].user
    BY DEF RecordsInv, RowsGrow
<1> QED BY <1>1, <1>2, <1>3, Zenon DEF RecordsInv, Records!Requests

\* A step that leaves the rows and the answers alone.
LEMMA RecordsRest ==
    ASSUME RecordsInv, NEW r \in Records!Requests, Only(r), requests'[r].pc # "new" /\ RequestRow(r)',
           UNCHANGED <<settlementRows, reports, backups, acked>>
    PROVE  RecordsInv'
<1>1. RowsGrow
    <2>1. \A s : Tagged(s) => Tagged(s)'
        BY DEF Tagged
    <2>2. \A u \in Users : backups[u] <= backups'[u]
        BY DEF RecordsInv, RecordsTypeOK
    <2> QED BY <2>1, <2>2 DEF RowsGrow
<1>2. \E S : reports' \in Seq(S)
    BY DEF RecordsInv, RecordsTypeOK
<1>3. \A s \in acked'.settled : Tagged(s)'
    BY <1>1 DEF RecordsInv, RowsGrow
<1>4. DOMAIN reports' \ DOMAIN reports = {}
    OBVIOUS
<1> QED BY <1>1, <1>2, <1>3, <1>4, RecordsMove, Zenon DEF RecordsInv, RecordsTypeOK

\* The fields a step leaves alone.
Same(r, fs) == \A f \in fs : requests'[r][f] = requests[r][f]

\* The ways a handler changes its request.
LEMMA RequestGoes ==
    ASSUME RecordsTypeOK, NEW r \in Records!Requests, NEW p, NEW c
    PROVE  /\ Records!Go(r, p) => Only(r) /\ requests'[r].pc = p
                /\ Same(r, {"kind", "user", "asked", "owned", "payload", "found", "known", "code"})
           /\ Records!Answer(r, c) => Only(r) /\ requests'[r].pc = "done" /\ requests'[r].code = c
                /\ Same(r, {"kind", "user", "asked", "owned", "payload", "found", "known"})
<1>1. DOMAIN requests = Records!Requests /\ Fields(requests[r])
    BY DEF RecordsTypeOK
<1>2. Records!Go(r, p) => Only(r) /\ requests'[r].pc = p
                /\ Same(r, {"kind", "user", "asked", "owned", "payload", "found", "known", "code"})
    BY <1>1 DEF Records!Go, Only, Fields, Same
<1>3. Records!Answer(r, c) => Only(r) /\ requests'[r].pc = "done" /\ requests'[r].code = c
                /\ Same(r, {"kind", "user", "asked", "owned", "payload", "found", "known"})
    BY <1>1 DEF Records!Answer, Only, Fields, Same
<1> QED BY <1>2, <1>3

\* What a request that has arrived says of the rows.
LEMMA RequestFacts ==
    ASSUME RecordsInv, NEW r \in Records!Requests, requests[r].pc # "new"
    PROVE  RequestRow(r) /\ RecordsTypeOK
BY DEF RecordsInv

\* A request keeps what it says when only its position, or also its code, changes.
LEMMA RequestGoesOn ==
    ASSUME RecordsInv, NEW r \in Records!Requests, requests[r].pc # "new", UNCHANGED <<settlementRows, reports, backups>>,
           Same(r, {"kind", "user", "asked", "owned", "payload", "found", "known"}),
           requests'[r].pc # "done" => requests'[r].code = 0,
           requests'[r].kind \in {"settle", "report", "recover"} => requests'[r].pc = "done",
           requests'[r].kind \in {"report", "recover"} /\ requests'[r].code = 200 => requests[r].pc = "log"
    PROVE  RequestRow(r)'
<1>1. RequestRow(r)
    BY RequestFacts
<1>2. PICK q, x : q = requests[r] /\ x = requests'[r]
    OBVIOUS
<1>3. /\ x.kind = q.kind /\ x.user = q.user /\ x.asked = q.asked /\ x.owned = q.owned
      /\ x.payload = q.payload /\ x.found = q.found /\ x.known = q.known
    BY <1>2 DEF Same
<1>4. \A s : Tagged(s)' <=> Tagged(s)
    BY DEF Tagged
<1>5. Stored(r) => Stored(r)'
    BY <1>2, <1>3 DEF Stored
<1>6. Lists(x) <=> Lists(q)
    BY <1>3, Zenon DEF Lists
<1>7. x.kind = "report" /\ (x.pc \in {"store", "log"} \/ x.code = 200) => Lists(x)
    BY <1>1, <1>2, <1>3, <1>6, Zenon DEF RequestRow
<1>8. x.kind = "report" /\ (x.pc = "log" \/ x.code = 200) => Stored(r)'
    BY <1>1, <1>2, <1>3, <1>5, Zenon DEF RequestRow
<1>9. x.kind = "recover" /\ (x.pc = "log" \/ x.code = 200) => x.payload <= x.found
    BY <1>1, <1>2, <1>3, Zenon DEF RequestRow
<1>10. x.kind = "settle" => x.pc = "done"
    BY <1>2, Zenon
<1> QED BY <1>1, <1>2, <1>3, <1>4, <1>7, <1>8, <1>9, <1>10, Zenon DEF RequestRow, Lists

\* A request arrives.
LEMMA RecordsRequest ==
    ASSUME RecordsInv, NEW r \in Records!Requests, NEW u \in Users, NEW kind, NEW asked \in SUBSET Settlements,
           Records!request(r, u, kind, asked)
    PROVE  RecordsInv'
<1>1. PICK x : /\ x = [Records!Idle EXCEPT !.kind = kind, !.user = u, !.asked = asked, !.pc = "first",
                                   !.known = asked \cap acked.settled, !.payload = acked.payload[u]]
               /\ requests' = [requests EXCEPT ![r] = x]
    BY Zenon DEF Records!request
<1>2. /\ Fields(x) /\ x.kind = kind /\ x.user = u /\ x.asked = asked /\ x.pc = "first"
      /\ x.known = asked \cap acked.settled /\ x.payload = acked.payload[u] /\ x.owned = {} /\ x.code = 0
    BY <1>1 DEF Records!Idle, Fields
<1>3. Only(r) /\ requests'[r] = x
    BY <1>1, <1>2 DEF Only, RecordsInv, RecordsTypeOK
<1>4. UNCHANGED <<settlementRows, reports, backups, acked>> /\ (kind = "settle" => \A s \in asked : OwnerOf[s] = u)
    BY DEF Records!request, Records!tables
<1>5. \A s \in x.known : s \in x.asked /\ Tagged(s)'
    BY <1>2, <1>4, Zenon DEF RecordsInv, Tagged
<1>6. x.payload \in Nat /\ x.payload <= backups'[x.user]
    BY <1>2, <1>4, Zenon DEF RecordsInv, RecordsTypeOK
<1>7. RequestRow(r)'
    BY <1>2, <1>3, <1>4, <1>5, <1>6 DEF RequestRow
<1> QED BY <1>2, <1>3, <1>4, <1>7, RecordsRest, Zenon

\* The anchor's routes, and a query that throws.
LEMMA RecordsOthers ==
    ASSUME RecordsInv, NEW r \in Records!Requests,
           \/ Records!proxyAnchor(r) \/ Records!anchors_quotes(r) \/ Records!anchors_payouts(r)
           \/ Records!payout_status(r) \/ Records!compliance_package(r) \/ Records!query_throws(r)
    PROVE  RecordsInv'
<1>0. RecordsTypeOK /\ UNCHANGED <<settlementRows, reports, backups, acked>>
    BY Zenon DEF RecordsInv, Records!proxyAnchor, Records!anchors_quotes, Records!anchors_payouts,
       Records!payout_status, Records!compliance_package, Records!query_throws, Records!tables
<1>1. requests[r].pc # "new" /\ RequestRow(r)
    BY RequestFacts, Zenon DEF Records!proxyAnchor, Records!anchors_quotes, Records!anchors_payouts,
       Records!payout_status, Records!compliance_package, Records!query_throws,
                        Records!At, Records!InProgress
<1>2. CASE Records!Go(r, "row") /\ requests[r].kind \in {"quote", "payout"} /\ requests[r].pc = "first"
    <2>1. Only(r) /\ requests'[r].pc = "row" /\ Same(r, {"kind", "user", "asked", "owned", "payload", "found", "known", "code"})
        BY <1>0, <1>2, RequestGoes, Zenon
    <2>2. requests'[r].kind \in {"quote", "payout"} /\ requests'[r].code = 0
        BY <1>1, <1>2, <2>1, Zenon DEF Same, RequestRow
    <2>3. RequestRow(r)'
        BY <1>0, <1>1, <2>1, <2>2, RequestGoesOn, Zenon DEF Same
    <2> QED BY <1>0, <2>1, <2>3, RecordsRest, Zenon
<1>3. ASSUME NEW c, Records!Answer(r, c), c # 200 \/ requests[r].kind \in {"quote", "payout", "payout_status", "compliance"}
      PROVE  RecordsInv'
    <2>1. Only(r) /\ requests'[r].pc = "done" /\ requests'[r].code = c /\ Same(r, {"kind", "user", "asked", "owned", "payload", "found", "known"})
        BY <1>0, <1>3, RequestGoes, Zenon
    <2>2. requests'[r].kind = requests[r].kind
        BY <2>1, Zenon DEF Same
    <2>3. RequestRow(r)'
        BY <1>0, <1>1, <1>3, <2>1, <2>2, RequestGoesOn, Zenon
    <2> QED BY <1>0, <2>1, <2>3, RecordsRest
<1>4. CASE Records!proxyAnchor(r)
    BY <1>2, <1>3, <1>4, Zenon DEF Records!proxyAnchor
<1>5. CASE Records!anchors_quotes(r) \/ Records!anchors_payouts(r)
    BY <1>3, <1>5, Zenon DEF Records!anchors_quotes, Records!anchors_payouts, Records!At
<1>6. CASE Records!payout_status(r) \/ Records!compliance_package(r)
    BY <1>3, <1>6 DEF Records!payout_status, Records!compliance_package, Records!At, Records!Lookup
<1>7. CASE Records!query_throws(r)
    BY <1>3, <1>7 DEF Records!query_throws
<1> QED BY <1>4, <1>5, <1>6, <1>7

\* The process ends: what was in progress is never answered.
LEMMA RecordsEnd ==
    ASSUME RecordsInv, Records!api_ends
    PROVE  RecordsInv'
<1>0. RecordsTypeOK /\ UNCHANGED <<settlementRows, reports, backups, acked>>
    BY DEF RecordsInv, Records!api_ends, Records!tables
<1>1. requests' = [r \in Records!Requests |-> IF Records!InProgress(r) THEN [requests[r] EXCEPT !.pc = "done"] ELSE requests[r]]
    BY DEF Records!api_ends
<1>2. ASSUME NEW r \in Records!Requests
      PROVE  /\ Fields(requests'[r])
             /\ IF requests'[r].pc = "new" THEN requests'[r].code = 0 ELSE RequestRow(r)'
    <2>1. Fields(requests[r]) /\ IF requests[r].pc = "new" THEN requests[r].code = 0 ELSE RequestRow(r)
        BY DEF RecordsInv, RecordsTypeOK
    <2>2. CASE Records!InProgress(r)
        <3>1. requests'[r] = [requests[r] EXCEPT !.pc = "done"]
            BY <1>1, <2>2
        <3>2. /\ Fields(requests'[r]) /\ requests'[r].pc = "done"
              /\ Same(r, {"kind", "user", "asked", "owned", "payload", "found", "known", "code"})
            BY <2>1, <3>1 DEF Fields, Same
        <3>3. requests[r].pc # "new" /\ requests'[r].code = 0
            BY <2>1, <2>2, <3>2, Zenon DEF Records!InProgress, RequestRow, Same
        <3>4. RequestRow(r)'
            BY <1>0, <3>2, <3>3, RequestGoesOn DEF Same
        <3> QED BY <3>2, <3>4
    <2>3. CASE ~Records!InProgress(r)
        <3>1. requests'[r] = requests[r]
            BY <1>1, <2>3
        <3>2. (\A s : Tagged(s)' <=> Tagged(s)) /\ (Stored(r)' <=> Stored(r))
            BY <1>0, <3>1 DEF Tagged, Stored
        <3>3. RequestRow(r) => RequestRow(r)'
            BY <1>0, <3>1, <3>2 DEF RequestRow, Lists
        <3> QED BY <2>1, <3>1, <3>3, Zenon
    <2> QED BY <2>2, <2>3
<1>3. DOMAIN requests' = Records!Requests
    BY <1>1
<1>4. RecordsTypeOK'
    BY <1>0, <1>2, <1>3, Zenon DEF RecordsTypeOK, Records!Requests
<1> QED BY <1>0, <1>2, <1>4 DEF RecordsInv, Tagged, Records!Requests

-----------------------------------------------------------------------------
\* A request is answered: the rows stay, what was answered may have grown.
LEMMA RecordsAcked ==
    ASSUME RecordsInv, NEW r \in Records!Requests, Only(r), requests'[r].pc # "new" /\ RequestRow(r)',
           UNCHANGED <<settlementRows, reports, backups>>,
           DOMAIN acked' = {"settled", "payload"}, acked'.payload \in [Users -> Nat],
           \A s \in acked'.settled : Tagged(s),
           \A u \in Users : acked'.payload[u] <= backups[u]
    PROVE  RecordsInv'
<1>0. RecordsTypeOK
    BY Zenon DEF RecordsInv
<1>1. \A s : Tagged(s)' <=> Tagged(s)
    BY DEF Tagged
<1>2. RowsGrow
    BY <1>0, <1>1 DEF RowsGrow, RecordsTypeOK
<1> QED BY <1>0, <1>1, <1>2, RecordsMove, Zenon DEF RecordsTypeOK

\* The rows of the settlements are inserted, without a user.
LEMMA RecordsInsert ==
    ASSUME RecordsInv, NEW r \in Records!Requests, Records!insert_settlement(r)
    PROVE  RecordsInv'
<1>0. RecordsTypeOK /\ requests[r].pc = "first" /\ requests[r].kind = "settle" /\ RequestRow(r)
    BY RequestFacts DEF RecordsInv, Records!insert_settlement, Records!At
<1>1. /\ settlementRows' = [s \in DOMAIN settlementRows \cup requests[r].asked |->
                               IF s \in DOMAIN settlementRows THEN settlementRows[s] ELSE Nobody]
      /\ Records!Go(r, "tag") /\ UNCHANGED <<reports, backups, acked>>
    BY Zenon DEF Records!insert_settlement
<1>2. /\ Only(r) /\ requests'[r].pc = "tag"
      /\ Same(r, {"kind", "user", "asked", "owned", "payload", "found", "known", "code"})
    BY <1>0, <1>1, RequestGoes, Zenon
<1>3. PICK q, x : q = requests[r] /\ x = requests'[r]
    OBVIOUS
<1>4. /\ x.kind = "settle" /\ x.user = q.user /\ x.asked = q.asked /\ x.owned = q.owned /\ x.pc = "tag"
      /\ x.payload = q.payload /\ x.known = q.known /\ x.code = 0
    BY <1>0, <1>2, <1>3, Zenon DEF Same, RequestRow
<1>5. DOMAIN settlementRows' = DOMAIN settlementRows \cup q.asked /\ q.asked \subseteq Settlements
    BY <1>0, <1>1, <1>3, Zenon DEF RequestRow
<1>6. \A s \in DOMAIN settlementRows : settlementRows'[s] = settlementRows[s]
    BY <1>1, Zenon
<1>7. \A s \in DOMAIN settlementRows' : settlementRows'[s] \in {Nobody, OwnerOf[s]}
    BY <1>0, <1>1, <1>5 DEF RecordsTypeOK
<1>8. \A s : Tagged(s) => Tagged(s)'
    BY <1>5, <1>6 DEF Tagged
<1>9. RowsGrow
    BY <1>0, <1>1, <1>5, <1>8 DEF RowsGrow, RecordsTypeOK
<1>10. RequestRow(r)'
    BY <1>0, <1>1, <1>3, <1>4, <1>5, <1>8, Zenon DEF RequestRow
<1>11. \A s \in acked'.settled : Tagged(s)'
    BY <1>1, <1>8, Zenon DEF RecordsInv
<1>12. \A u \in Users : acked'.payload[u] <= backups'[u]
    BY <1>1 DEF RecordsInv
<1>13. DOMAIN settlementRows' \subseteq Settlements
    BY <1>0, <1>5 DEF RecordsTypeOK
<1> QED BY <1>0, <1>1, <1>2, <1>7, <1>9, <1>10, <1>11, <1>12, <1>13, RecordsMove, Zenon DEF RecordsTypeOK

\* The rows of the settlements get their user.
LEMMA RecordsTag ==
    ASSUME RecordsConstants, RecordsInv, NEW r \in Records!Requests, Records!setRowUser(r)
    PROVE  RecordsInv'
<1>0. RecordsTypeOK /\ requests[r].pc = "tag" /\ requests[r].kind = "settle" /\ RequestRow(r)
    BY RequestFacts, Zenon DEF RecordsInv, Records!setRowUser, Records!At
<1>1. /\ settlementRows' = [s \in DOMAIN settlementRows |->
                               IF s \in requests[r].asked THEN requests[r].user ELSE settlementRows[s]]
      /\ Records!Go(r, "log") /\ UNCHANGED <<reports, backups, acked>>
    BY DEF Records!setRowUser
<1>2. /\ Only(r) /\ requests'[r].pc = "log"
      /\ Same(r, {"kind", "user", "asked", "owned", "payload", "found", "known", "code"})
    BY <1>0, <1>1, RequestGoes, Zenon
<1>3. PICK q, x : q = requests[r] /\ x = requests'[r]
    OBVIOUS
<1>4. /\ x.kind = "settle" /\ x.user = q.user /\ x.asked = q.asked /\ x.owned = q.owned /\ x.pc = "log"
      /\ x.payload = q.payload /\ x.known = q.known /\ x.code = 0
    BY <1>0, <1>2, <1>3, Zenon DEF Same, RequestRow
<1>5. DOMAIN settlementRows' = DOMAIN settlementRows /\ q.asked \subseteq DOMAIN settlementRows
    BY <1>0, <1>1, <1>3, Zenon DEF RequestRow
<1>6. \A s \in q.asked : OwnerOf[s] = q.user
    BY <1>0, <1>3, Zenon DEF RequestRow
<1>7. \A s \in DOMAIN settlementRows : settlementRows'[s] = settlementRows[s] \/ settlementRows'[s] = OwnerOf[s]
    BY <1>1, <1>3, <1>6
<1>8. \A s \in q.asked : settlementRows'[s] = OwnerOf[s]
    BY <1>1, <1>3, <1>5, <1>6
<1>9. (\A s : Tagged(s) => Tagged(s)') /\ \A s \in q.asked : Tagged(s)'
    BY <1>5, <1>7, <1>8 DEF Tagged
<1>10. \A s \in DOMAIN settlementRows' : settlementRows'[s] \in {Nobody, OwnerOf[s]}
    BY <1>0, <1>5, <1>7 DEF RecordsTypeOK
<1>11. RowsGrow
    BY <1>0, <1>1, <1>5, <1>9 DEF RowsGrow, RecordsTypeOK
<1>12. RequestRow(r)'
    BY <1>0, <1>1, <1>3, <1>4, <1>5, <1>9, Zenon DEF RequestRow
<1>13. \A s \in acked'.settled : Tagged(s)'
    BY <1>1, <1>9, Zenon DEF RecordsInv
<1>14. \A u \in Users : acked'.payload[u] <= backups'[u]
    BY <1>1 DEF RecordsInv
<1> QED BY <1>0, <1>1, <1>2, <1>5, <1>10, <1>11, <1>12, <1>13, <1>14, RecordsMove, Zenon DEF RecordsTypeOK

\* The request is logged and answered.
LEMMA RecordsLog ==
    ASSUME RecordsInv, NEW r \in Records!Requests, Records!logActivity(r)
    PROVE  RecordsInv'
<1>0. RecordsTypeOK /\ requests[r].pc = "log" /\ RequestRow(r)
    BY RequestFacts DEF RecordsInv, Records!logActivity
<1>1. PICK q : q = requests[r]
    OBVIOUS
<1>2. Records!Answer(r, 200) /\ UNCHANGED <<settlementRows, reports, backups>>
    BY Zenon DEF Records!logActivity
<1>11. acked' = CASE q.kind = "settle" -> [acked EXCEPT !.settled = @ \cup q.asked]
                  [] q.kind = "backup" ->
                        [acked EXCEPT !.payload[q.user] = IF q.payload > @ THEN q.payload ELSE @]
                  [] OTHER -> acked
    BY <1>1, Zenon DEF Records!logActivity
<1>3. /\ Only(r) /\ requests'[r].pc = "done" /\ requests'[r].code = 200
      /\ Same(r, {"kind", "user", "asked", "owned", "payload", "found", "known"})
    <2>1. PICK c : c = 200
        OBVIOUS
    <2>2. Records!Answer(r, c)
        BY <1>2, <2>1
    <2> QED BY <1>0, <2>1, <2>2, RequestGoes, Zenon
<1>4. RequestRow(r)'
    BY <1>0, <1>2, <1>3, RequestGoesOn
<1>5. q.user \in Users /\ q.payload \in Nat /\ q.payload <= backups[q.user] /\ (q.kind = "settle" => \A s \in q.asked : Tagged(s))
    BY <1>0, <1>1, Zenon DEF RequestRow
<1>6. DOMAIN acked = {"settled", "payload"} /\ acked.payload \in [Users -> Nat] /\ backups \in [Users -> Nat]
    BY <1>0, Zenon DEF RecordsTypeOK
<1>7. (\A s \in acked.settled : Tagged(s)) /\ \A u \in Users : acked.payload[u] <= backups[u]
    BY DEF RecordsInv
<1>8. CASE q.kind = "settle"
    <2>1. acked' = [acked EXCEPT !.settled = @ \cup q.asked]
        BY <1>8, <1>11
    <2>2. DOMAIN acked' = {"settled", "payload"} /\ acked'.payload = acked.payload /\ acked'.settled = acked.settled \cup q.asked
        BY <1>6, <2>1
    <2> QED BY <1>2, <1>3, <1>4, <1>5, <1>6, <1>7, <1>8, <2>2, RecordsAcked
<1>9. CASE q.kind = "backup"
    <2>1. acked' = [acked EXCEPT !.payload[q.user] = IF q.payload > @ THEN q.payload ELSE @]
        BY <1>9, <1>11
    <2>2. PICK v : v = (IF q.payload > acked.payload[q.user] THEN q.payload ELSE acked.payload[q.user])
        OBVIOUS
    <2>3. v \in Nat /\ v <= backups[q.user]
        BY <1>5, <1>6, <1>7, <2>2, Zenon
    <2>4. acked' = [acked EXCEPT !.payload = [acked.payload EXCEPT ![q.user] = v]]
        BY <2>1, <2>2
    <2>5. /\ DOMAIN acked' = {"settled", "payload"} /\ acked'.settled = acked.settled
          /\ acked'.payload = [acked.payload EXCEPT ![q.user] = v]
        BY <1>6, <2>4
    <2>6. acked'.payload \in [Users -> Nat] /\ \A u \in Users : acked'.payload[u] <= backups[u]
        BY <1>5, <1>6, <1>7, <2>3, <2>5
    <2> QED BY <1>2, <1>3, <1>4, <1>7, <2>5, <2>6, RecordsAcked, Zenon
<1>10. CASE q.kind \notin {"settle", "backup"}
    <2>1. acked' = acked
        BY <1>10, <1>11
    <2> QED BY <1>2, <1>3, <1>4, <1>6, <1>7, <2>1, RecordsAcked
<1> QED BY <1>8, <1>9, <1>10

\* What the user owns of what they ask for is read.
LEMMA RecordsRead ==
    ASSUME RecordsConstants, RecordsInv, NEW r \in Records!Requests, Records!view_key_read(r)
    PROVE  RecordsInv'
<1>0. RecordsTypeOK /\ requests[r].pc = "first" /\ requests[r].kind = "report" /\ RequestRow(r)
    BY RequestFacts DEF RecordsInv, Records!view_key_read, Records!At
<1>1. PICK q, x, own :
          /\ q = requests[r] /\ own = Records!getOwnedSettlements(q.user, q.asked)
          /\ x = [q EXCEPT !.owned = own, !.pc = "store"]
    BY Zenon
<1>2. requests' = [requests EXCEPT ![r] = x] /\ UNCHANGED <<settlementRows, reports, backups, acked>>
    BY <1>1, Zenon DEF Records!view_key_read, Records!tables
<1>3. Fields(q)
    BY <1>0, <1>1 DEF RecordsTypeOK
<1>4. /\ Fields(x) /\ x.kind = "report" /\ x.user = q.user /\ x.asked = q.asked /\ x.owned = own /\ x.pc = "store"
      /\ x.payload = q.payload /\ x.known = q.known /\ x.code = q.code /\ q.code = 0
    BY <1>0, <1>1, <1>3 DEF Fields, RequestRow
<1>5. Only(r) /\ requests'[r] = x
    BY <1>0, <1>2, <1>4 DEF Only, RecordsTypeOK
<1>6. \A s : Tagged(s)' <=> Tagged(s)
    BY <1>2 DEF Tagged
<1>7. q.user \in Users /\ q.asked \subseteq Settlements /\ \A s \in q.known : s \in q.asked /\ Tagged(s)
    BY <1>0, <1>1 DEF RequestRow
<1>8. ASSUME NEW s \in own PROVE Tagged(s) /\ OwnerOf[s] = q.user
    <2>1. s \in DOMAIN settlementRows /\ settlementRows[s] = q.user
        BY <1>1, <1>8 DEF Records!getOwnedSettlements
    <2>2. q.user # Nobody
        BY <1>7 DEF RecordsConstants
    <2> QED BY <1>0, <2>1, <2>2 DEF RecordsTypeOK, Tagged
<1>9. Lists(x)
    <2> SUFFICES ASSUME NEW s \in x.known, OwnerOf[s] = x.user PROVE s \in own
        BY <1>4 DEF Lists
    <2> QED BY <1>1, <1>4, <1>7 DEF Tagged, Records!getOwnedSettlements
<1>10. RequestRow(r)'
    BY <1>0, <1>1, <1>2, <1>4, <1>5, <1>6, <1>7, <1>8, <1>9 DEF RequestRow
<1> QED BY <1>2, <1>4, <1>5, <1>10, RecordsRest, Zenon

\* A stored report has what was asked of it: the signature is over what it lists.
LEMMA ReportFields ==
    ASSUME NEW u, NEW n, NEW a, NEW o, NEW now, NEW report,
           report = Records!signViewKeyReport([user |-> u, nullifiers |-> n, anchors |-> a, of |-> o], now)
    PROVE  /\ {"user", "nullifiers", "of", "signature"} \subseteq DOMAIN report
           /\ report.user = u /\ report.nullifiers = n /\ report.of = o /\ report.signature.nullifiers = n
<1>1. PICK input, at : input = [user |-> u, nullifiers |-> n, anchors |-> a, of |-> o] /\ at = [generatedAt |-> now]
    BY Zenon
<1>2. PICK unsigned : unsigned = Records!Spread(input, at)
    OBVIOUS
<1>3. DOMAIN input = {"user", "nullifiers", "anchors", "of"} /\ DOMAIN at = {"generatedAt"}
    BY <1>1, Zenon
<1>4. unsigned = [x \in DOMAIN input \cup DOMAIN at |-> IF x \in DOMAIN at THEN at[x] ELSE input[x]]
    BY <1>2, Zenon DEF Records!Spread
<1>5. /\ DOMAIN unsigned = {"user", "nullifiers", "anchors", "of", "generatedAt"}
      /\ unsigned.user = u /\ unsigned.nullifiers = n /\ unsigned.of = o
    BY <1>1, <1>3, <1>4
<1>6. PICK c, sig : c = Records!canonicalReportPayload(unsigned) /\ sig = [signature |-> c]
    BY Zenon
<1>7. c.nullifiers = n
    BY <1>5, <1>6 DEF Records!canonicalReportPayload
<1>8. report = Records!Spread(unsigned, sig)
    BY <1>1, <1>2, <1>6, Zenon DEF Records!signViewKeyReport
<1>9. DOMAIN sig = {"signature"} /\ sig.signature = c
    BY <1>6, Zenon
<1>10. report = [x \in DOMAIN unsigned \cup DOMAIN sig |-> IF x \in DOMAIN sig THEN sig[x] ELSE unsigned[x]]
    BY <1>8, Zenon DEF Records!Spread
<1>11. /\ DOMAIN report = {"user", "nullifiers", "anchors", "of", "generatedAt", "signature"}
       /\ report.user = u /\ report.nullifiers = n /\ report.of = o /\ report.signature = c
    BY <1>5, <1>9, <1>10, Zenon
<1> QED BY <1>7, <1>11

\* The report is signed and stored.
LEMMA RecordsStore ==
    ASSUME RecordsInv, NEW r \in Records!Requests, Records!view_key_store(r)
    PROVE  RecordsInv'
<1>0. RecordsTypeOK /\ requests[r].pc = "store" /\ requests[r].kind = "report" /\ RequestRow(r)
    BY RequestFacts, Zenon DEF RecordsInv, Records!view_key_store, Records!At
<1>1. PICK q, report, row :
          /\ q = requests[r]
          /\ report = Records!signViewKeyReport([user |-> q.user, nullifiers |-> q.owned,
                                         anchors |-> Records!getAnchorIdsForSettlements(q.owned), of |-> r], r)
          /\ row = [f \in DOMAIN report \ {"generatedAt"} |-> report[f]]
    BY Zenon
<1>2. reports' = Append(reports, row) /\ Records!Go(r, "log") /\ UNCHANGED <<settlementRows, backups, acked>>
    BY <1>1 DEF Records!view_key_store, Records!insertViewKeyReport
<1>3. /\ {"user", "nullifiers", "of", "signature"} \subseteq DOMAIN report
      /\ report.user = q.user /\ report.nullifiers = q.owned /\ report.of = r /\ report.signature.nullifiers = q.owned
    <2>1. PICK a : a = Records!getAnchorIdsForSettlements(q.owned)
        OBVIOUS
    <2> QED BY <1>1, <2>1, ReportFields
<1>4. row.user = q.user /\ row.nullifiers = q.owned /\ row.of = r /\ row.signature.nullifiers = q.owned
    BY <1>1, <1>3, Zenon
<1>5. PICK S : reports \in Seq(S)
    BY <1>0 DEF RecordsTypeOK
<1>6. PICK n : n = Len(reports) /\ n \in Nat /\ DOMAIN reports = 1..n
    BY <1>5
<1>7. reports \in Seq(S \cup {row})
    BY <1>5
<1>8. reports' \in Seq(S \cup {row})
    BY <1>2, <1>7
<1>9. /\ DOMAIN reports' = 1..(n + 1) /\ reports'[n + 1] = row
      /\ \A i \in DOMAIN reports : i \in DOMAIN reports' /\ reports'[i] = reports[i]
    BY <1>2, <1>6, <1>7
<1>10. /\ Only(r) /\ requests'[r].pc = "log"
       /\ Same(r, {"kind", "user", "asked", "owned", "payload", "found", "known", "code"})
    BY <1>0, <1>2, RequestGoes, Zenon
<1>11. PICK x : x = requests'[r]
    OBVIOUS
<1>12. /\ x.kind = "report" /\ x.user = q.user /\ x.asked = q.asked /\ x.owned = q.owned /\ x.pc = "log"
       /\ x.payload = q.payload /\ x.known = q.known /\ x.code = 0
    BY <1>0, <1>1, <1>10, <1>11, Zenon DEF Same, RequestRow
<1>13. \A s : Tagged(s)' <=> Tagged(s)
    BY <1>2 DEF Tagged
<1>14. RowsGrow
    BY <1>0, <1>2, <1>9, <1>13 DEF RowsGrow, RecordsTypeOK
<1>15. n + 1 \in DOMAIN reports'
    BY <1>6, <1>9
<1>16. Stored(r)'
    BY <1>4, <1>9, <1>11, <1>12, <1>15, Zenon DEF Stored
<1>17. Lists(x)
    BY <1>0, <1>1, <1>12, Zenon DEF RequestRow, Lists
<1>18. RequestRow(r)'
    BY <1>0, <1>1, <1>2, <1>11, <1>12, <1>13, <1>16, <1>17, Zenon DEF RequestRow
<1>19. \A i \in DOMAIN reports' \ DOMAIN reports : i = n + 1
    BY <1>6, <1>9
<1>20. \A s \in q.owned : Tagged(s)' /\ OwnerOf[s] = q.user
    BY <1>0, <1>1, <1>13, Zenon DEF RequestRow
<1>21. \A i \in DOMAIN reports' \ DOMAIN reports :
           \A s \in reports'[i].nullifiers : Tagged(s)' /\ OwnerOf[s] = reports'[i].user
    BY <1>4, <1>9, <1>19, <1>20, Zenon
<1>22. (\A s \in acked'.settled : Tagged(s)') /\ \A u \in Users : acked'.payload[u] <= backups'[u]
    BY <1>2, <1>13, Zenon DEF RecordsInv
<1> QED BY <1>0, <1>2, <1>8, <1>10, <1>11, <1>12, <1>14, <1>18, <1>21, <1>22, RecordsMove,
           Zenon DEF RecordsTypeOK

\* The payload replaces the user's last one.
LEMMA RecordsBackup ==
    ASSUME RecordsInv, NEW r \in Records!Requests, Records!encrypted_backup(r)
    PROVE  RecordsInv'
<1>0. RecordsTypeOK /\ requests[r].pc = "first" /\ requests[r].kind = "backup" /\ RequestRow(r)
    BY RequestFacts DEF RecordsInv, Records!encrypted_backup, Records!At
<1>1. PICK q, x, v : q = requests[r] /\ v = backups[q.user] + 1 /\ x = [q EXCEPT !.payload = v, !.pc = "log"]
    BY Zenon
<1>2. /\ requests' = [requests EXCEPT ![r] = x] /\ backups' = [backups EXCEPT ![q.user] = v]
      /\ UNCHANGED <<settlementRows, reports, acked>>
    BY <1>1, Zenon DEF Records!encrypted_backup, Records!addNoteBackup
<1>3. Fields(q) /\ q.user \in Users /\ backups \in [Users -> Nat]
    BY <1>0, <1>1 DEF RecordsTypeOK, RequestRow
<1>4. /\ Fields(x) /\ x.kind = "backup" /\ x.user = q.user /\ x.asked = q.asked /\ x.owned = q.owned /\ x.pc = "log"
      /\ x.payload = v /\ x.known = q.known /\ x.code = q.code /\ q.code = 0
    BY <1>0, <1>1, <1>3 DEF Fields, RequestRow
<1>5. Only(r) /\ requests'[r] = x
    BY <1>0, <1>2, <1>4 DEF Only, RecordsTypeOK
<1>6. v \in Nat /\ backups' \in [Users -> Nat] /\ backups'[q.user] = v /\ \A u \in Users : backups[u] <= backups'[u]
    BY <1>1, <1>2, <1>3
<1>7. \A s : Tagged(s)' <=> Tagged(s)
    BY <1>2 DEF Tagged
<1>8. RowsGrow
    BY <1>2, <1>6, <1>7 DEF RowsGrow
<1>9. RequestRow(r)'
    BY <1>0, <1>1, <1>4, <1>5, <1>6, <1>7 DEF RequestRow
<1>10. \A s \in acked'.settled : Tagged(s)'
    BY <1>2, <1>7 DEF RecordsInv
<1>11. acked.payload \in [Users -> Nat] /\ \A u \in Users : acked.payload[u] <= backups[u]
    BY <1>0, Zenon DEF RecordsInv, RecordsTypeOK
<1>12. \A u \in Users : acked'.payload[u] <= backups'[u]
    BY <1>2, <1>3, <1>6, <1>11
<1> QED BY <1>0, <1>2, <1>4, <1>5, <1>6, <1>8, <1>9, <1>10, <1>12, RecordsMove, Zenon DEF RecordsTypeOK

\* The user's rows are read.
LEMMA RecordsRecover ==
    ASSUME RecordsInv, NEW r \in Records!Requests, Records!notes_recover(r)
    PROVE  RecordsInv'
<1>0. RecordsTypeOK /\ requests[r].pc = "first" /\ requests[r].kind = "recover" /\ RequestRow(r)
    BY RequestFacts DEF RecordsInv, Records!notes_recover, Records!At
<1>1. PICK q, x : q = requests[r] /\ x = [q EXCEPT !.pc = "log", !.found = backups[q.user]]
    BY Zenon
<1>2. requests' = [requests EXCEPT ![r] = x] /\ UNCHANGED <<settlementRows, reports, backups, acked>>
    BY <1>1, Zenon DEF Records!notes_recover, Records!tables
<1>3. Fields(q)
    BY <1>0, <1>1 DEF RecordsTypeOK
<1>4. /\ Fields(x) /\ x.kind = "recover" /\ x.user = q.user /\ x.asked = q.asked /\ x.owned = q.owned /\ x.pc = "log"
      /\ x.payload = q.payload /\ x.known = q.known /\ x.code = q.code /\ q.code = 0 /\ x.found = backups[q.user]
    BY <1>0, <1>1, <1>3 DEF Fields, RequestRow
<1>5. Only(r) /\ requests'[r] = x
    BY <1>0, <1>2, <1>4 DEF Only, RecordsTypeOK
<1>6. \A s : Tagged(s)' <=> Tagged(s)
    BY <1>2 DEF Tagged
<1>7. RequestRow(r)'
    BY <1>0, <1>1, <1>2, <1>4, <1>5, <1>6 DEF RequestRow
<1> QED BY <1>2, <1>4, <1>5, <1>7, RecordsRest, Zenon

\* Every step keeps the invariant.
LEMMA RecordsStep ==
    ASSUME RecordsConstants, RecordsInv, [Records!Next]_Records!vars
    PROVE  RecordsInv'
<1>1. ASSUME UNCHANGED Records!vars PROVE RecordsInv'
    <2>1. UNCHANGED <<settlementRows, reports, backups, requests, acked>>
        BY <1>1 DEF Records!vars, Records!tables
    <2>2. (\A s : Tagged(s)' <=> Tagged(s)) /\ \A r \in Records!Requests : Stored(r)' <=> Stored(r)
        BY <2>1 DEF Tagged, Stored
    <2>3. RecordsTypeOK'
        BY <2>1, Zenon DEF RecordsInv, RecordsTypeOK, Records!Requests
    <2>4. \A r \in Records!Requests : RequestRow(r) => RequestRow(r)'
        <3>1. \A u \in Users : backups[u] <= backups'[u]
            BY <2>1 DEF RecordsInv, RecordsTypeOK
        <3>2. RowsGrow
            BY <2>1, <2>2, <3>1, Zenon DEF RowsGrow
        <3> QED BY <2>1, <2>3, <3>2, RequestStays, Zenon
    <2> QED BY <2>1, <2>2, <2>3, <2>4 DEF RecordsInv, Records!Requests
<1>2. ASSUME NEW r \in Records!Requests,
             \/ \E u \in Users, kind \in Kinds, asked \in SUBSET Settlements : Records!request(r, u, kind, asked)
             \/ Records!insert_settlement(r) \/ Records!setRowUser(r) \/ Records!logActivity(r)
             \/ Records!view_key_read(r) \/ Records!view_key_store(r)
             \/ Records!proxyAnchor(r) \/ Records!anchors_quotes(r) \/ Records!anchors_payouts(r)
             \/ Records!payout_status(r) \/ Records!compliance_package(r)
             \/ Records!encrypted_backup(r) \/ Records!notes_recover(r)
             \/ Records!query_throws(r)
      PROVE  RecordsInv'
    BY <1>2, RecordsRequest, RecordsInsert, RecordsTag, RecordsLog, RecordsRead, RecordsStore, RecordsOthers,
       RecordsBackup, RecordsRecover, Zenon
<1> QED BY <1>1, <1>2, RecordsEnd, Zenon DEF Records!Next

\* The rows and the requests in progress agree, whatever fails in between.
THEOREM RecordsInvariant ==
    ASSUME RecordsConstants
    PROVE  Records!Spec => []RecordsInv
<1>1. RecordsInv /\ [Records!Next]_Records!vars => RecordsInv'
    BY RecordsStep
<1> QED BY <1>1, RecordsInit, PTL DEF Records!Spec

\* POST /v1/reports/view-key and POST /v1/notes/recover: a report lists settlements
\* of its user only and all of them that had been answered, it is found again with
\* its signature, and a recovery has the last answered payload or a later one.
THEOREM RecordsAreTheUsersAlways ==
    ASSUME RecordsConstants
    PROVE  Records!Spec => []Records!RecordsAreTheUsers
<1>1. RecordsInv => Records!RecordsAreTheUsers
    <2> SUFFICES ASSUME RecordsInv PROVE Records!RecordsAreTheUsers
        OBVIOUS
    <2>1. \A i \in DOMAIN reports : \A s \in reports[i].nullifiers : settlementRows[s] = reports[i].user
        BY DEF RecordsInv, Tagged
    <2>2. ASSUME NEW r \in Records!Requests, requests[r].code = 200
          PROVE  /\ requests[r].kind = "report" => Lists(requests[r]) /\ Stored(r)
                 /\ requests[r].kind = "recover" => requests[r].payload <= requests[r].found
        <3>1. RequestRow(r)
            BY <2>2 DEF RecordsInv
        <3> QED BY <2>2, <3>1, Zenon DEF RequestRow
    <2> QED BY <2>1, <2>2 DEF Records!RecordsAreTheUsers, Lists, Stored, Records!getViewKeyReport
<1> QED BY <1>1, RecordsInvariant, PTL

-----------------------------------------------------------------------------
(* Vaults of notes. *)

CONSTANTS WebTabs, AppTabs, Vaults, Notes, Methods, Added, Mainnet, MinWrappers,
          AllowEvmOnly, NoVault

VARIABLES rows, tabs, held, used, funded

Vault == INSTANCE NoteVault

Types == Methods \union Added \union {"recovery_kit_password"}

Secrets == {<<type>> : type \in Types} \union (Types \X Vaults \X {0, 1})

Wrapper == [id : {0, 1}, type : Types, secret : Secrets, wrapped : Vaults]

Env == [vault : Vaults, key : Vaults, notes : SUBSET Notes, wrappers : SUBSET Wrapper]

Row == [env : Env, policy : {"insufficient", "sufficient", "strong"},
        backup : {"created", "verified", "restored"}]

Tab == [pc : {"idle", "upload", "fetch", "verify", "ready", "failed"},
        env : Env \union {NoVault}, mem : (SUBSET Notes) \union {NoVault}]

VaultTypeOK ==
    /\ rows \in [Vaults -> Row \union {NoVault}]
    /\ tabs \in [Vault!Tabs -> Tab]
    /\ used \subseteq Vaults
    /\ funded \subseteq Vaults \X Notes

\* The secret in the recovery file of a vault
File(v) == Vault!SecretOf("recovery_file_secret", v, 0)

\* An envelope that opens: its wrappers hold the key it is closed with, the user
\* holds their secrets, and the file is among them if it was ever downloaded.
Opens(env) ==
    /\ env \in Env
    /\ env.vault \in used
    /\ env.key = env.vault
    /\ env.wrappers # {}
    /\ \A w \in env.wrappers : w.secret \in held /\ w.wrapped = env.vault
    /\ File(env.vault) \in held => \E w \in env.wrappers : w.secret = File(env.vault)

RowOpens(v) == rows[v] \in Row /\ rows[v].env.vault = v /\ Opens(rows[v].env)

\* The rows open, and a funded vault has one.
RowsInv ==
    /\ \A v \in Vaults : rows[v] = NoVault \/ RowOpens(v)
    /\ \A f \in funded : RowOpens(f[1])

\* What a page is about to upload, or may upload from memory, opens.
TabOpens(x) == x.pc \in {"upload", "fetch", "verify"} \/ x.mem # NoVault => Opens(x.env)

\* Nobody has the file of a vault that is still to be made.
FilesInv == \A v \in Vaults \ used : File(v) \notin held

VInv == VaultTypeOK /\ RowsInv /\ (\A t \in Vault!Tabs : TabOpens(tabs[t])) /\ FilesInv

-----------------------------------------------------------------------------
(* Secrets and wrappers *)

LEMMA SecretType ==
    ASSUME NEW type \in Types, NEW v \in Vaults, NEW id \in {0, 1}
    PROVE  Vault!SecretOf(type, v, id) \in Secrets
BY DEF Vault!SecretOf, Secrets

\* A recovery file has the secret of one wrapper: the first file of one vault.
LEMMA FileIsOwn ==
    ASSUME NEW type, NEW v, NEW u, NEW id \in {0, 1}, Vault!SecretOf(type, v, id) = File(u)
    PROVE  type = "recovery_file_secret" /\ v = u /\ id = 0
<1>1. File(u) = <<"recovery_file_secret", u, 0>>  BY DEF File, Vault!SecretOf
<1>2. CASE type \in {"stellar_ed25519_signature", "evm_signature"}
  <2>1. <<type>> = <<"recovery_file_secret", u, 0>>  BY <1>1, <1>2 DEF Vault!SecretOf
  <2> QED  BY <1>2, <2>1
<1>3. CASE type \notin {"stellar_ed25519_signature", "evm_signature"}
  <2>1. <<type, v, id>> = <<"recovery_file_secret", u, 0>>  BY <1>1, <1>3 DEF Vault!SecretOf
  <2> QED  BY <2>1
<1> QED  BY <1>2, <1>3

LEMMA WrapType ==
    ASSUME NEW type \in Types, NEW v \in Vaults, NEW id \in {0, 1}
    PROVE  /\ Vault!wrap(type, v, v, id) \in Wrapper
           /\ Vault!wrap(type, v, v, id).secret = Vault!SecretOf(type, v, id)
           /\ Vault!wrap(type, v, v, id).wrapped = v
<1>1. PICK s \in Secrets : s = Vault!SecretOf(type, v, id)  BY SecretType
<1>2. Vault!wrap(type, v, v, id) = [id |-> id, type |-> type, secret |-> s, wrapped |-> v]
  BY <1>1 DEF Vault!wrap
<1> QED  BY <1>1, <1>2 DEF Wrapper

LEMMA PolicyType ==
    ASSUME NEW wrappers
    PROVE  Vault!evaluateRecoveryPolicy(wrappers) \in {"insufficient", "sufficient", "strong"}
BY DEF Vault!evaluateRecoveryPolicy

-----------------------------------------------------------------------------
(* Steps: vaults and secrets are added, and no file of a vault that exists. *)

Grows ==
    /\ used \subseteq used' /\ used' \subseteq Vaults
    /\ held \subseteq held'
    /\ \A v \in used : File(v) \in held' => File(v) \in held

LEMMA OpensStays ==
    ASSUME Grows, NEW env, Opens(env)
    PROVE  Opens(env)'
<1>1. PICK v : v = env.vault  OBVIOUS
<1>2. PICK file : file = File(v)  OBVIOUS
<1>3. File(v)' = File(v)  BY DEF File, Vault!SecretOf
<1>4. /\ env \in Env /\ v \in used /\ env.key = v /\ env.wrappers # {}
      /\ \A w \in env.wrappers : w.secret \in held /\ w.wrapped = v
      /\ file \in held => \E w \in env.wrappers : w.secret = file
  BY <1>1, <1>2 DEF Opens
<1>5. /\ v \in used' /\ \A w \in env.wrappers : w.secret \in held' /\ w.wrapped = v
      /\ file \in held' => \E w \in env.wrappers : w.secret = file
  BY <1>2, <1>4 DEF Grows
<1> QED  BY <1>1, <1>2, <1>4, <1>5 DEF Opens

\* The rows of a step that writes none, and of one that writes one
LEMMA RowsStay ==
    ASSUME VInv, Grows, UNCHANGED <<rows, funded>>
    PROVE  RowsInv' /\ rows' \in [Vaults -> Row \union {NoVault}]
<1>1. RowsInv /\ rows' \in [Vaults -> Row \union {NoVault}]  BY Zenon DEF VInv, VaultTypeOK
<1>2. ASSUME NEW v, RowOpens(v) PROVE RowOpens(v)'
  <2>1. Opens(rows[v].env)  BY <1>2, Zenon DEF RowOpens
  <2>2. PICK e : e = rows[v].env  OBVIOUS
  <2>3. Opens(e)'  BY <2>1, <2>2, OpensStays
  <2> QED  BY <1>2, <2>2, <2>3, Zenon DEF RowOpens
<1> QED  BY <1>1, <1>2, Zenon DEF RowsInv

LEMMA RowWritten ==
    ASSUME VInv, Grows, NEW v \in Vaults, NEW row \in Row, row.env.vault = v, Opens(row.env)',
           rows' = [rows EXCEPT ![v] = row], UNCHANGED funded
    PROVE  RowsInv' /\ rows' \in [Vaults -> Row \union {NoVault}]
<1>1. RowsInv /\ rows \in [Vaults -> Row \union {NoVault}] /\ funded \subseteq Vaults \X Notes
  BY Zenon DEF VInv, VaultTypeOK
<1>2. /\ rows' \in [Vaults -> Row \union {NoVault}] /\ rows'[v] = row
      /\ \A u \in Vaults : u # v => rows'[u] = rows[u]
  BY <1>1
<1>3. RowOpens(v)'  BY <1>2, Zenon DEF RowOpens
<1>4. ASSUME NEW u \in Vaults, u # v, RowOpens(u) PROVE RowOpens(u)'
  <2>1. Opens(rows[u].env)  BY <1>4, Zenon DEF RowOpens
  <2>2. PICK e : e = rows[u].env  OBVIOUS
  <2>3. Opens(e)'  BY <2>1, <2>2, OpensStays
  <2>4. rows'[u] = rows[u]  BY <1>2, <1>4, Zenon
  <2> QED  BY <1>4, <2>2, <2>3, <2>4, Zenon DEF RowOpens
<1>5. \A u \in Vaults : RowOpens(u) => RowOpens(u)'  BY <1>3, <1>4, Zenon
<1>6. \A u \in Vaults : rows'[u] = NoVault \/ RowOpens(u)'
  BY <1>1, <1>2, <1>3, <1>5, Zenon DEF RowsInv
<1>7. \A f \in funded : f[1] \in Vaults  BY <1>1
<1>8. \A f \in funded : RowOpens(f[1])'  BY <1>1, <1>5, <1>7, Zenon DEF RowsInv
<1> QED  BY <1>2, <1>6, <1>8, Zenon DEF RowsInv

\* A tab moves on; the rows are those of one of the lemmas above.
LEMMA TabMoves ==
    ASSUME VInv, Grows, FilesInv', NEW t \in Vault!Tabs, NEW x \in Tab, tabs' = [tabs EXCEPT ![t] = x],
           TabOpens(x)', RowsInv', rows' \in [Vaults -> Row \union {NoVault}], UNCHANGED funded
    PROVE  VInv'
<1>1. VaultTypeOK /\ \A u \in Vault!Tabs : TabOpens(tabs[u])  BY Zenon DEF VInv
<1>2. tabs \in [Vault!Tabs -> Tab]  BY <1>1, Zenon DEF VaultTypeOK
<1>3. /\ tabs' \in [Vault!Tabs -> Tab] /\ tabs'[t] = x
      /\ \A u \in Vault!Tabs : u # t => tabs'[u] = tabs[u]
  BY <1>2
<1>4. VaultTypeOK'  BY <1>1, <1>3, Zenon DEF VaultTypeOK, Grows
<1>5. ASSUME NEW u \in Vault!Tabs PROVE TabOpens(tabs[u])'
  <2>1. CASE u = t  BY <1>3, <2>1, Zenon
  <2>2. CASE u # t
    <3>1. PICK y : y = tabs[u]  OBVIOUS
    <3>2. tabs'[u] = y  BY <1>3, <2>2, <3>1, Zenon
    <3>3. TabOpens(y)  BY <1>1, <3>1
    <3>4. Opens(y.env) => Opens(y.env)'  BY OpensStays
    <3>5. TabOpens(y)'  BY <3>3, <3>4, Zenon DEF TabOpens
    <3> QED  BY <3>2, <3>5, Zenon
  <2> QED  BY <2>1, <2>2
<1> QED  BY <1>4, <1>5, Zenon DEF VInv

\* A step that adds neither vaults nor secrets
LEMMA SameSecrets ==
    ASSUME VInv, UNCHANGED <<used, held>>
    PROVE  Grows /\ FilesInv' /\ \A env : Opens(env) => Opens(env)'
<1>1. used \subseteq Vaults /\ FilesInv  BY Zenon DEF VInv, VaultTypeOK
<1>2. Grows  BY <1>1, Zenon DEF Grows
<1>3. FilesInv'  BY <1>1, Zenon DEF FilesInv, File, Vault!SecretOf
<1>4. ASSUME NEW env, Opens(env) PROVE Opens(env)'  BY <1>2, <1>4, OpensStays
<1> QED  BY <1>2, <1>3, <1>4, Zenon

-----------------------------------------------------------------------------
(* What the routes of the API write *)

LEMMA PostRows ==
    ASSUME VInv, NEW env, Opens(env), Vault!post_note_vaults(env), UNCHANGED <<used, held, funded>>
    PROVE  RowsInv' /\ rows' \in [Vaults -> Row \union {NoVault}]
<1>1. Grows /\ Opens(env)'  BY SameSecrets, Zenon
<1>2. PICK v : v = env.vault  OBVIOUS
<1>3. env \in Env /\ v \in Vaults  BY <1>2 DEF Opens, Env
<1>4. PICK policy \in {"insufficient", "sufficient", "strong"} :
          policy = Vault!evaluateRecoveryPolicy(env.wrappers)
  BY PolicyType
<1>5. PICK backup : backup = IF Vault!Stored(v) THEN rows[v].backup ELSE "created"  OBVIOUS
<1>6. backup \in {"created", "verified", "restored"}
  <2>1. CASE Vault!Stored(v)
    <3>1. rows[v] \in Row  BY <1>3, <2>1, Zenon DEF Vault!Stored, VInv, RowsInv, RowOpens
    <3> QED  BY <1>5, <2>1, <3>1 DEF Row
  <2>2. CASE ~Vault!Stored(v)  BY <1>5, <2>2
  <2> QED  BY <2>1, <2>2
<1>7. PICK row : row = [env |-> env, policy |-> policy, backup |-> backup]  BY Zenon
<1>8. row \in Row /\ row.env = env  BY <1>3, <1>6, <1>7 DEF Row
<1>9. rows' = [rows EXCEPT ![v] = row]
  BY <1>2, <1>4, <1>5, <1>7 DEF Vault!post_note_vaults, Vault!createNoteVault
<1>10. row.env.vault = v /\ Opens(row.env)'  BY <1>1, <1>2, <1>8
<1> QED  BY <1>1, <1>3, <1>8, <1>9, <1>10, RowWritten, Zenon

LEMMA BackupRows ==
    ASSUME VInv, NEW v \in Vaults, Vault!Stored(v), NEW b \in {"verified", "restored"},
           rows' = [rows EXCEPT ![v].backup = b], UNCHANGED <<used, held, funded>>
    PROVE  RowsInv' /\ rows' \in [Vaults -> Row \union {NoVault}]
<1>1. Grows /\ \A env : Opens(env) => Opens(env)'  BY SameSecrets, Zenon
<1>2. rows[v] \in Row /\ rows[v].env.vault = v /\ Opens(rows[v].env)
  BY Zenon DEF Vault!Stored, VInv, RowsInv, RowOpens
<1>3. rows \in [Vaults -> Row \union {NoVault}]  BY Zenon DEF VInv, VaultTypeOK
<1>4. PICK row : row = [rows[v] EXCEPT !.backup = b]  BY Zenon
<1>5. row \in Row /\ row.env = rows[v].env  BY <1>2, <1>4 DEF Row
<1>6. rows' = [rows EXCEPT ![v] = row]  BY <1>3, <1>4
<1>7. PICK e : e = rows[v].env  OBVIOUS
<1>8. Opens(e)'  BY <1>1, <1>2, <1>7
<1>9. row.env.vault = v /\ Opens(row.env)'  BY <1>2, <1>5, <1>7, <1>8
<1> QED  BY <1>1, <1>5, <1>6, <1>9, RowWritten, Zenon

LEMMA UpdateRows ==
    ASSUME VInv, Grows, NEW env, Opens(env)', Vault!Stored(env.vault), Vault!updateNoteVault(env),
           UNCHANGED funded
    PROVE  RowsInv' /\ rows' \in [Vaults -> Row \union {NoVault}]
<1>1. PICK v : v = env.vault  OBVIOUS
<1>2. env \in Env /\ v \in Vaults  BY <1>1 DEF Opens, Env
<1>3. rows[v] \in Row  BY <1>1, <1>2 DEF Vault!Stored, VInv, RowsInv, RowOpens
<1>4. rows \in [Vaults -> Row \union {NoVault}]  BY Zenon DEF VInv, VaultTypeOK
<1>5. PICK policy \in {"insufficient", "sufficient", "strong"} :
          policy = Vault!evaluateRecoveryPolicy(env.wrappers)
  BY PolicyType
<1>6. rows' = [rows EXCEPT ![v].env = env, ![v].policy = policy]
  BY <1>1, <1>5 DEF Vault!updateNoteVault
<1>7. PICK row : row = [rows[v] EXCEPT !.env = env, !.policy = policy]  OBVIOUS
<1>8. row \in Row /\ row.env = env  BY <1>2, <1>3, <1>7, Zenon DEF Row
<1>9. rows' = [rows EXCEPT ![v] = row]  BY <1>2, <1>4, <1>6, <1>7, Zenon
<1>10. row.env.vault = v /\ Opens(row.env)'  BY <1>1, <1>8
<1> QED  BY <1>2, <1>8, <1>9, <1>10, RowWritten, Zenon

-----------------------------------------------------------------------------
(* What the pages do *)

\* A page goes on with the envelope it has.
LEMMA PageGoes ==
    ASSUME VInv, Grows, FilesInv', NEW t \in Vault!Tabs,
           NEW pc \in {"upload", "fetch", "verify", "ready", "failed"}, Vault!Goes(t, pc),
           pc \in {"ready", "failed"} \/ Opens(tabs[t].env),
           RowsInv', rows' \in [Vaults -> Row \union {NoVault}], UNCHANGED funded
    PROVE  VInv'
<1>1. tabs \in [Vault!Tabs -> Tab] /\ TabOpens(tabs[t])  BY Zenon DEF VInv, VaultTypeOK
<1>2. tabs[t] \in Tab  BY <1>1
<1>3. PICK x : x = [tabs[t] EXCEPT !.pc = pc]  BY Zenon
<1>4. x \in Tab /\ x.pc = pc /\ x.env = tabs[t].env /\ x.mem = tabs[t].mem
  BY <1>2, <1>3 DEF Tab
<1>5. tabs' = [tabs EXCEPT ![t] = x]  BY <1>1, <1>3 DEF Vault!Goes
<1>6. TabOpens(x)  BY <1>1, <1>4 DEF TabOpens
<1>7. Opens(x.env) => Opens(x.env)'  BY OpensStays
<1>8. TabOpens(x)'  BY <1>6, <1>7, Zenon DEF TabOpens
<1> QED  BY <1>4, <1>5, <1>8, TabMoves, Zenon

\* A page goes on with an envelope, and keeps the vault in memory or what it had.
LEMMA PageHas ==
    ASSUME VInv, Grows, FilesInv', NEW t \in Vault!Tabs, NEW x \in Tab,
           tabs' = [tabs EXCEPT ![t] = x], Opens(x.env)',
           RowsInv', rows' \in [Vaults -> Row \union {NoVault}], UNCHANGED funded
    PROVE  VInv'
<1>1. TabOpens(x)'  BY Zenon DEF TabOpens
<1> QED  BY <1>1, TabMoves, Zenon

\* A vault is drawn: it is new, its secrets go to the user, and its envelope opens.
LEMMA VaultDrawn ==
    ASSUME VInv, NEW v \in Vaults \ used, NEW made \in SUBSET Types, used' = used \union {v},
           held' = held \union {Vault!SecretOf(m, v, 0) : m \in made}
    PROVE  /\ Grows /\ FilesInv'
           /\ \A env : /\ env = [vault |-> v, key |-> v, notes |-> {},
                                 wrappers |-> {Vault!wrap(m, v, v, 0) : m \in made}]
                       /\ made # {}
                       => env \in Env /\ Opens(env)'
<1>1. used \subseteq Vaults /\ FilesInv  BY Zenon DEF VInv, VaultTypeOK
<1>2. \A u : File(u)' = File(u)  BY DEF File, Vault!SecretOf
<1>3. \A u, m : Vault!SecretOf(m, v, 0) = File(u) => m = "recovery_file_secret" /\ u = v
  BY FileIsOwn
<1>4. Grows
  <2>1. ASSUME NEW u \in used, File(u) \in held' PROVE File(u) \in held
    BY <1>3, <2>1
  <2> QED  BY <1>1, <2>1 DEF Grows
<1>5. FilesInv'
  <2>1. ASSUME NEW u \in Vaults \ used' PROVE File(u) \notin held'
    <3>1. u # v /\ File(u) \notin held  BY <1>1, <2>1 DEF FilesInv
    <3> QED  BY <1>3, <3>1
  <2> QED  BY <1>2, <2>1 DEF FilesInv
<1>6. ASSUME NEW env, made # {},
             env = [vault |-> v, key |-> v, notes |-> {},
                    wrappers |-> {Vault!wrap(m, v, v, 0) : m \in made}]
      PROVE  env \in Env /\ Opens(env)'
  <2>1. PICK ws : ws = {Vault!wrap(m, v, v, 0) : m \in made}  BY Zenon
  <2>2. \A m \in made : /\ Vault!wrap(m, v, v, 0) \in Wrapper
                        /\ Vault!wrap(m, v, v, 0).secret = Vault!SecretOf(m, v, 0)
                        /\ Vault!wrap(m, v, v, 0).wrapped = v
    BY WrapType
  <2>3. ws \subseteq Wrapper /\ ws # {}  BY <1>6, <2>1, <2>2
  <2>4. env = [vault |-> v, key |-> v, notes |-> {}, wrappers |-> ws]  BY <1>6, <2>1
  <2>5. env \in Env /\ env.vault = v /\ env.key = v /\ env.wrappers = ws
    BY <2>3, <2>4 DEF Env
  <2>6. ASSUME NEW w \in ws PROVE w.secret \in held' /\ w.wrapped = v
    <3>1. PICK m \in made : w = Vault!wrap(m, v, v, 0)  BY <2>1, <2>6
    <3>2. w.secret = Vault!SecretOf(m, v, 0) /\ w.wrapped = v  BY <2>2, <3>1
    <3> QED  BY <3>2
  <2>7. ASSUME File(v) \in held' PROVE \E w \in ws : w.secret = File(v)
    <3>1. File(v) \notin held  BY <1>1 DEF FilesInv
    <3>2. PICK m \in made : File(v) = Vault!SecretOf(m, v, 0)  BY <2>7, <3>1
    <3>3. Vault!wrap(m, v, v, 0) \in ws /\ Vault!wrap(m, v, v, 0).secret = File(v)  BY <2>1, <2>2, <3>2
    <3> QED  BY <3>3, Zenon
  <2>8. v \in used'  OBVIOUS
  <2> QED  BY <1>2, <2>3, <2>5, <2>6, <2>7, <2>8 DEF Opens
<1> QED  BY <1>4, <1>5, <1>6, Zenon

LEMMA CreateInv ==
    ASSUME VInv, NEW t \in Vault!Tabs, Vault!createVault(t) \/ Vault!app_run(t)
    PROVE  VInv'
<1>1. tabs \in [Vault!Tabs -> Tab] /\ tabs[t] \in Tab
  <2>1. tabs \in [Vault!Tabs -> Tab]  BY Zenon DEF VInv, VaultTypeOK
  <2> QED  BY <2>1
<1>2. UNCHANGED <<rows, funded>>  BY Zenon DEF Vault!createVault, Vault!app_run
<1>3. ASSUME NEW v \in Vaults \ used, NEW made \in SUBSET Types, made # {},
             used' = used \union {v}, held' = held \union {Vault!SecretOf(m, v, 0) : m \in made},
             NEW env, env = [vault |-> v, key |-> v, notes |-> {},
                             wrappers |-> {Vault!wrap(m, v, v, 0) : m \in made}],
             tabs' = [tabs EXCEPT ![t].pc = "upload", ![t].env = env]
      PROVE  VInv'
  <2>1. Grows /\ FilesInv' /\ env \in Env /\ Opens(env)'  BY <1>3, VaultDrawn
  <2>2. PICK x : x = [tabs[t] EXCEPT !.pc = "upload", !.env = env]  OBVIOUS
  <2>3. x \in Tab /\ x.env = env  BY <1>1, <2>1, <2>2, Zenon DEF Tab
  <2>4. tabs' = [tabs EXCEPT ![t] = x]  BY <1>1, <1>3, <2>2, Zenon
  <2>5. Opens(x.env)'  BY <2>1, <2>3
  <2>6. RowsInv' /\ rows' \in [Vaults -> Row \union {NoVault}]  BY <1>2, <2>1, RowsStay
  <2> QED  BY <1>2, <2>1, <2>3, <2>4, <2>5, <2>6, PageHas, Zenon
<1>4. CASE Vault!createVault(t)
  <2>1. PICK v \in Vaults \ used, passkey \in Vault!createPasskeyWrapperInput,
             wallet \in Vault!stellarRecoverySignature, asked \in SUBSET (Methods \cap Vault!Asked) :
           LET made == (Methods \cap (passkey \cup wallet)) \cup asked IN
           /\ used' = used \cup {v}
           /\ held' = held \cup {Vault!SecretOf(m, v, 0) : m \in made}
           /\ IF made = {}
              THEN Vault!Goes(t, "failed")
              ELSE tabs' = [tabs EXCEPT ![t].pc = "upload",
                              ![t].env = Vault!createVaultEnvelope(v, Vault!createEmptyNoteVault,
                                                             {Vault!wrap(m, v, v, 0) : m \in made})]
    BY <1>4, Zenon DEF Vault!createVault
  <2>2. PICK made : made = (Methods \cap (passkey \cup wallet)) \cup asked  BY Zenon
  <2>3. made \in SUBSET Types  BY <2>2 DEF Types
  <2>4. /\ used' = used \cup {v}
        /\ held' = held \cup {Vault!SecretOf(m, v, 0) : m \in made}
    BY <2>1, <2>2
  <2>5. CASE made = {}
    <3>1. Vault!Goes(t, "failed")  BY <2>1, <2>2, <2>5
    <3>2. Grows /\ FilesInv'  BY <2>3, <2>4, VaultDrawn, Zenon
    <3>3. RowsInv' /\ rows' \in [Vaults -> Row \union {NoVault}]  BY <1>2, <3>2, RowsStay
    <3>4. /\ "failed" \in {"upload", "fetch", "verify", "ready", "failed"}
          /\ "failed" \in {"ready", "failed"}
      OBVIOUS
    <3> QED  BY <1>2, <3>1, <3>2, <3>3, <3>4, PageGoes
  <2>6. CASE made # {}
    <3>1. PICK env : env = Vault!createVaultEnvelope(v, Vault!createEmptyNoteVault,
                                               {Vault!wrap(m, v, v, 0) : m \in made})
      BY Zenon
    <3>2. tabs' = [tabs EXCEPT ![t].pc = "upload", ![t].env = env]
      BY <2>1, <2>2, <2>6, <3>1
    <3>3. env = [vault |-> v, key |-> v, notes |-> {},
                 wrappers |-> {Vault!wrap(m, v, v, 0) : m \in made}]
      BY <3>1 DEF Vault!createVaultEnvelope, Vault!createEmptyNoteVault
    <3> QED  BY <1>3, <2>3, <2>4, <2>6, <3>2, <3>3, Zenon
  <2> QED  BY <2>5, <2>6
<1>5. CASE Vault!app_run(t)
  <2>1. PICK v \in Vaults \ used :
           /\ used' = used \cup {v}
           /\ held' = held \cup {Vault!SecretOf("recovery_kit_password", v, 0)}
           /\ tabs' = [tabs EXCEPT ![t].pc = "upload",
                 ![t].env = Vault!app_createVaultEnvelope(v, {Vault!app_wrapVaultKeyWithRecoveryKitPassword(v)})]
    BY <1>5, Zenon DEF Vault!app_run
  <2>2. PICK made : made = {"recovery_kit_password"}  BY Zenon
  <2>3. made \in SUBSET Types /\ made # {}  BY <2>2 DEF Types
  <2>4. held' = held \union {Vault!SecretOf(m, v, 0) : m \in made}  BY <2>1, <2>2
  <2>5. PICK env : env = Vault!app_createVaultEnvelope(v, {Vault!app_wrapVaultKeyWithRecoveryKitPassword(v)})
    OBVIOUS
  <2>6. Vault!app_wrapVaultKeyWithRecoveryKitPassword(v) = Vault!wrap("recovery_kit_password", v, v, 0)
    BY DEF Vault!app_wrapVaultKeyWithRecoveryKitPassword, Vault!wrap
  <2>7. {Vault!app_wrapVaultKeyWithRecoveryKitPassword(v)} = {Vault!wrap(m, v, v, 0) : m \in made}
    BY <2>2, <2>6
  <2>8. env = [vault |-> v, key |-> v, notes |-> {},
               wrappers |-> {Vault!wrap(m, v, v, 0) : m \in made}]
    BY <2>5, <2>7 DEF Vault!app_createVaultEnvelope
  <2>9. used' = used \union {v} /\ tabs' = [tabs EXCEPT ![t].pc = "upload", ![t].env = env]
    BY <2>1, <2>5
  <2> QED  BY <1>3, <2>3, <2>4, <2>8, <2>9, Zenon
<1> QED  BY <1>4, <1>5

\* The steps of the pages after the creation: they draw no secrets.
LEMMA UploadInv ==
    ASSUME VInv, NEW t \in Vault!Tabs,
           \/ Vault!upload(t) \/ Vault!app_upload(t) \/ Vault!fetch(t) \/ Vault!verify_backup(t) \/ Vault!app_verify_backup(t)
    PROVE  VInv'
<1> DEFINE RowsGood == RowsInv' /\ rows' \in [Vaults -> Row \union {NoVault}]
<1>1. tabs \in [Vault!Tabs -> Tab] /\ tabs[t] \in Tab /\ TabOpens(tabs[t])
  <2>1. tabs \in [Vault!Tabs -> Tab] /\ TabOpens(tabs[t])  BY Zenon DEF VInv, VaultTypeOK
  <2> QED  BY <2>1
<1>2. UNCHANGED <<used, held, funded>>
  BY Zenon DEF Vault!upload, Vault!app_upload, Vault!fetch, Vault!verify_backup, Vault!app_verify_backup
<1>3. Grows /\ FilesInv' /\ \A env : Opens(env) => Opens(env)'  BY <1>2, SameSecrets, Zenon
<1>4. Opens(tabs[t].env)
  <2>1. tabs[t].pc \in {"upload", "fetch", "verify"}
    BY DEF Vault!upload, Vault!app_upload, Vault!fetch, Vault!verify_backup, Vault!app_verify_backup
  <2> QED  BY <1>1, <2>1, Zenon DEF TabOpens
<1>5. PICK env : env = tabs[t].env  OBVIOUS
<1>6. Opens(env) /\ Opens(env)'  BY <1>3, <1>4, <1>5
<1>7. env \in Env /\ env.vault \in Vaults /\ env.notes \in SUBSET Notes
  BY <1>6 DEF Opens, Env
<1>8. rows' = rows => RowsGood  BY <1>2, <1>3, RowsStay
<1>9. Vault!post_note_vaults(env) => RowsGood  BY <1>2, <1>6, PostRows
<1>10. Vault!post_verify_backup(env.vault) => RowsGood
  <2>1. SUFFICES ASSUME Vault!post_verify_backup(env.vault) PROVE RowsGood  OBVIOUS
  <2>2. PICK v \in Vaults : v = env.vault  BY <1>7, Zenon
  <2>3. Vault!Stored(v) /\ rows' = [rows EXCEPT ![v].backup = "verified"]
    BY <2>1, <2>2 DEF Vault!post_verify_backup, Vault!setVaultBackupVerified
  <2>4. "verified" \in {"verified", "restored"}  OBVIOUS
  <2> QED  BY <1>2, <2>3, <2>4, BackupRows, Zenon
<1>11. RowsGood
  <2>1. rows' = rows \/ Vault!post_note_vaults(env) \/ Vault!post_verify_backup(env.vault)
    BY <1>5 DEF Vault!upload, Vault!app_upload, Vault!fetch, Vault!verify_backup, Vault!app_verify_backup
  <2> QED  BY <1>8, <1>9, <1>10, <2>1, Zenon
<1>12. ASSUME NEW pc \in {"upload", "fetch", "verify", "ready", "failed"}, Vault!Goes(t, pc)
       PROVE  VInv'
  BY <1>2, <1>3, <1>4, <1>11, <1>12, PageGoes
<1>13. ASSUME NEW pc \in {"fetch", "ready"},
              tabs' = [tabs EXCEPT ![t].pc = pc, ![t].mem = tabs[t].env.notes]
       PROVE  VInv'
  <2>1. PICK notes \in SUBSET Notes : notes = tabs[t].env.notes  BY <1>5, <1>7
  <2>2. PICK x : x = [tabs[t] EXCEPT !.pc = pc, !.mem = notes]  OBVIOUS
  <2>3. x \in Tab /\ x.env = env  BY <1>1, <1>5, <2>2, Zenon DEF Tab
  <2>4. tabs' = [tabs EXCEPT ![t] = x]  BY <1>1, <1>13, <2>1, <2>2, Zenon
  <2>5. Opens(x.env)'  BY <1>6, <2>3
  <2> QED  BY <1>2, <1>3, <1>11, <2>3, <2>4, <2>5, PageHas, Zenon
<1>14. \/ \E pc \in {"upload", "fetch", "verify", "ready", "failed"} : Vault!Goes(t, pc)
       \/ \E pc \in {"fetch", "ready"} :
             tabs' = [tabs EXCEPT ![t].pc = pc, ![t].mem = tabs[t].env.notes]
  <2>1. CASE Vault!upload(t)
    <3>1. Vault!Goes(t, "failed") \/ tabs' = [tabs EXCEPT ![t].pc = "fetch", ![t].mem = tabs[t].env.notes]
      BY <2>1, Zenon DEF Vault!upload
    <3> QED  BY <3>1
  <2>2. CASE Vault!app_upload(t)
    <3>1. PICK pc \in {"verify", "failed"} : Vault!Goes(t, pc)  BY <2>2, Zenon DEF Vault!app_upload
    <3> QED  BY <3>1
  <2>3. CASE Vault!fetch(t)
    <3>1. PICK pc \in {"verify", "failed"} : Vault!Goes(t, pc)  BY <2>3 DEF Vault!fetch
    <3> QED  BY <3>1
  <2>4. CASE Vault!verify_backup(t)
    <3>1. PICK pc \in {"ready", "failed"} : Vault!Goes(t, pc)  BY <2>4 DEF Vault!verify_backup
    <3> QED  BY <3>1
  <2>5. CASE Vault!app_verify_backup(t)
    <3>1. Vault!Goes(t, "failed") \/ tabs' = [tabs EXCEPT ![t].pc = "ready", ![t].mem = tabs[t].env.notes]
      BY <2>5, Zenon DEF Vault!app_verify_backup, Vault!setUnlocked
    <3> QED  BY <3>1
  <2> QED  BY <2>1, <2>2, <2>3, <2>4, <2>5
<1> QED  BY <1>12, <1>13, <1>14, Zenon

LEMMA RestoreInv ==
    ASSUME VInv, NEW t \in Vault!Tabs, Vault!restoreFromFile(t) \/ Vault!restoreWith(t) \/ Vault!close_tab(t)
    PROVE  VInv'
<1>1. tabs \in [Vault!Tabs -> Tab] /\ tabs[t] \in Tab /\ RowsInv
  <2>1. tabs \in [Vault!Tabs -> Tab] /\ RowsInv  BY Zenon DEF VInv, VaultTypeOK
  <2> QED  BY <2>1
<1>2. UNCHANGED <<rows, held, used, funded>>  BY Zenon DEF Vault!restoreFromFile, Vault!restoreWith, Vault!close_tab
<1>3. Grows /\ FilesInv' /\ \A env : Opens(env) => Opens(env)'
  BY <1>2, SameSecrets, Zenon
<1>4. RowsInv' /\ rows' \in [Vaults -> Row \union {NoVault}]  BY <1>2, <1>3, RowsStay
<1>5. ASSUME NEW v \in Vaults, Vault!Stored(v), NEW w, Vault!finish(t, w, Vault!getNoteVault(v))
      PROVE  VInv'
  <2>1. PICK env : env = Vault!getNoteVault(v)  OBVIOUS
  <2>2. Opens(env)
    <3>1. Opens(rows[v].env)  BY <1>1, <1>5, Zenon DEF Vault!Stored, RowsInv, RowOpens
    <3> QED  BY <2>1, <3>1 DEF Vault!getNoteVault
  <2>3. env \in Env /\ env.notes \in SUBSET Notes  BY <2>2 DEF Opens, Env
  <2>4. PICK x : x = [pc |-> "failed", env |-> env, mem |-> env.notes]  BY Zenon
  <2>5. x \in Tab /\ x.env = env  BY <2>3, <2>4 DEF Tab
  <2>6. tabs' = [tabs EXCEPT ![t] = x]  BY <1>5, <2>1, <2>4 DEF Vault!finish
  <2>7. Opens(x.env)'  BY <1>3, <2>2, <2>5
  <2> QED  BY <1>2, <1>3, <1>4, <2>5, <2>6, <2>7, PageHas, Zenon
<1>6. ASSUME NEW x \in Tab, tabs' = [tabs EXCEPT ![t] = x], x.mem = NoVault,
             x.pc \in {"idle", "failed"}
      PROVE  VInv'
  <2>1. TabOpens(x)'  BY <1>6 DEF TabOpens
  <2> QED  BY <1>2, <1>3, <1>4, <1>6, <2>1, TabMoves, Zenon
<1>7. CASE Vault!clearLocalCache(t)
  <2>1. PICK x : x = [tabs[t] EXCEPT !.pc = "failed", !.mem = NoVault]  OBVIOUS
  <2>2. x \in Tab /\ x.mem = NoVault /\ x.pc = "failed"  BY <1>1, <2>1, Zenon DEF Tab
  <2>3. tabs' = [tabs EXCEPT ![t] = x]  BY <1>1, <1>7, <2>1, Zenon DEF Vault!clearLocalCache
  <2> QED  BY <1>6, <2>2, <2>3, Zenon
<1>8. CASE Vault!close_tab(t)
  <2>1. Vault!Blank \in Tab /\ Vault!Blank.mem = NoVault /\ Vault!Blank.pc = "idle"  BY DEF Vault!Blank, Tab
  <2>2. tabs' = [tabs EXCEPT ![t] = Vault!Blank]  BY <1>8, Zenon DEF Vault!close_tab
  <2> QED  BY <1>6, <2>1, <2>2, Zenon
<1>9. CASE Vault!restoreFromFile(t)  BY <1>5, <1>7, <1>9, Zenon DEF Vault!restoreFromFile
<1>10. CASE Vault!restoreWith(t)  BY <1>5, <1>7, <1>10, Zenon DEF Vault!restoreWith
<1> QED  BY <1>8, <1>9, <1>10

\* A client writes an envelope it changed: the notes, or one more wrapper.
LEMMA ClientInv ==
    ASSUME VInv, NEW t \in Vault!Tabs, Vault!put_note_vault(t) \/ Vault!post_wrappers(t)
    PROVE  VInv'
<1>1. tabs \in [Vault!Tabs -> Tab] /\ tabs[t] \in Tab /\ TabOpens(tabs[t]) /\ used \subseteq Vaults
      /\ FilesInv
  <2>1. tabs \in [Vault!Tabs -> Tab] /\ TabOpens(tabs[t]) /\ used \subseteq Vaults /\ FilesInv
    BY Zenon DEF VInv, VaultTypeOK
  <2> QED  BY <2>1
<1>2. Vault!HasOpen(t) /\ UNCHANGED <<used, funded>>  BY Zenon DEF Vault!put_note_vault, Vault!post_wrappers
<1>3. PICK old : old = tabs[t].env  OBVIOUS
<1>4. Opens(old) /\ Vault!Stored(old.vault) /\ tabs[t].mem \in SUBSET Notes
  <2>1. Opens(tabs[t].env) /\ Vault!Stored(tabs[t].env.vault) /\ tabs[t].mem # NoVault
    BY <1>1, <1>2, Zenon DEF Vault!HasOpen, TabOpens
  <2>2. tabs[t].mem \in (SUBSET Notes) \union {NoVault}  BY <1>1 DEF Tab
  <2> QED  BY <1>3, <2>1, <2>2
<1>5. PICK v : v = old.vault  OBVIOUS
<1>6. /\ old \in Env /\ v \in Vaults /\ v \in used /\ old.key = v /\ old.wrappers # {}
      /\ old.notes \in SUBSET Notes /\ old.wrappers \in SUBSET Wrapper
      /\ \A w \in old.wrappers : w.secret \in held /\ w.wrapped = v
      /\ File(v) \in held => \E w \in old.wrappers : w.secret = File(v)
  BY <1>4, <1>5 DEF Opens, Env
<1>7. \A u : File(u)' = File(u)  BY DEF File, Vault!SecretOf
<1>8. ASSUME Grows, FilesInv', NEW env \in Env, env.vault = v, Opens(env)',
             Vault!updateNoteVault(env), Vault!Sees(t, env)
      PROVE  VInv'
  <2>1. Vault!Stored(env.vault)  BY <1>4, <1>5, <1>8
  <2>2. RowsInv' /\ rows' \in [Vaults -> Row \union {NoVault}]
    BY <1>2, <1>8, <2>1, UpdateRows
  <2>3. PICK notes \in SUBSET Notes : notes = env.notes  BY <1>8 DEF Env
  <2>4. PICK x : x = [tabs[t] EXCEPT !.env = env, !.mem = notes]  OBVIOUS
  <2>5. x \in Tab /\ x.env = env  BY <1>1, <2>4, Zenon DEF Tab
  <2>6. tabs' = [tabs EXCEPT ![t] = x]  BY <1>1, <1>8, <2>3, <2>4, Zenon DEF Vault!Sees
  <2>7. Opens(x.env)'  BY <1>8, <2>5
  <2> QED  BY <1>2, <1>8, <2>2, <2>5, <2>6, <2>7, PageHas, Zenon
<1>9. CASE Vault!put_note_vault(t)
  <2>1. PICK n \in Notes : LET env == [tabs[t].env EXCEPT !.notes = Vault!addNote(tabs[t].mem, n)]
                           IN  Vault!updateNoteVault(env) /\ Vault!Sees(t, env)
    BY <1>9, Zenon DEF Vault!put_note_vault
  <2>2. PICK notes \in SUBSET Notes : notes = Vault!addNote(tabs[t].mem, n)
    BY <1>4, Zenon DEF Vault!addNote, Vault!addNoteToVault
  <2>3. PICK env : env = [old EXCEPT !.notes = notes]  BY Zenon
  <2>4. Vault!updateNoteVault(env) /\ Vault!Sees(t, env)  BY <1>3, <2>1, <2>2, <2>3
  <2>5. env \in Env /\ env.vault = v /\ env.key = v /\ env.wrappers = old.wrappers
    BY <1>5, <1>6, <2>3 DEF Env
  <2>6. Opens(env)  BY <1>6, <2>5 DEF Opens
  <2>7. UNCHANGED <<held, used>>  BY <1>9, Zenon DEF Vault!put_note_vault
  <2>8. Grows /\ FilesInv' /\ \A e : Opens(e) => Opens(e)'  BY <2>7, SameSecrets, Zenon
  <2>9. Opens(env)'  BY <2>6, <2>8
  <2> QED  BY <1>8, <2>4, <2>5, <2>8, <2>9
<1>10. CASE Vault!post_wrappers(t)
  <2>1. PICK type \in Added :
           LET u == tabs[t].env.vault
               env == [tabs[t].env EXCEPT !.wrappers = @ \cup {Vault!wrap(type, u, u, 1)}]
           IN  /\ Vault!updateNoteVault(env) /\ Vault!Sees(t, env)
               /\ held' = held \cup {Vault!SecretOf(type, u, 1)}
    BY <1>10, Zenon DEF Vault!post_wrappers
  <2>2. PICK new : new = Vault!wrap(type, v, v, 1)  OBVIOUS
  <2>3. new \in Wrapper /\ new.secret = Vault!SecretOf(type, v, 1) /\ new.wrapped = v
    <3>1. type \in Types /\ 1 \in {0, 1}  BY DEF Types
    <3> QED  BY <1>6, <2>2, <3>1, WrapType
  <2>4. PICK env : env = [old EXCEPT !.wrappers = old.wrappers \union {new}]  BY Zenon
  <2>5. held' = held \union {Vault!SecretOf(type, v, 1)}  BY <1>3, <1>5, <2>1
  <2>6. Vault!updateNoteVault(env) /\ Vault!Sees(t, env)
    <3>1. env = [tabs[t].env EXCEPT !.wrappers = @ \cup {Vault!wrap(type, v, v, 1)}]
      BY <1>3, <2>2, <2>4
    <3>2. tabs[t].env.vault = v  BY <1>3, <1>5
    <3> QED  BY <2>1, <3>1, <3>2
  <2>7. env \in Env /\ env.vault = v /\ env.key = v /\ env.wrappers = old.wrappers \union {new}
    <3>1. old.wrappers \union {new} \in SUBSET Wrapper  BY <1>6, <2>3, Zenon
    <3> QED  BY <1>5, <1>6, <2>4, <3>1 DEF Env
  <2>8. \A u : Vault!SecretOf(type, v, 1) # File(u)
    <3>1. 1 \in {0, 1} /\ 1 # 0  OBVIOUS
    <3> QED  BY <3>1, FileIsOwn
  <2>9. \A u : File(u) \in held' => File(u) \in held  BY <2>5, <2>8
  <2>10. Grows  BY <1>1, <1>2, <2>5, <2>9 DEF Grows
  <2>11. FilesInv'  BY <1>1, <1>2, <1>7, <2>9 DEF FilesInv
  <2>12. Opens(env)'
    <3>1. \A w \in env.wrappers : w.secret \in held' /\ w.wrapped = v
      BY <1>6, <2>3, <2>5, <2>7
    <3>2. File(v) \in held' => \E w \in env.wrappers : w.secret = File(v)
      BY <1>6, <2>7, <2>9
    <3>3. env.wrappers # {} /\ v \in used'  BY <1>2, <1>6, <2>7
    <3> QED  BY <1>7, <2>7, <3>1, <3>2, <3>3 DEF Opens
  <2> QED  BY <1>8, <2>6, <2>7, <2>10, <2>11, <2>12
<1> QED  BY <1>9, <1>10

\* The routes without a page: a funded vault has a row, and keeps it.
LEMMA RoutesInv ==
    ASSUME VInv, Vault!mark_restored \/ \E t \in WebTabs : Vault!deposit(t)
    PROVE  VInv'
<1>1. VaultTypeOK /\ RowsInv /\ \A t \in Vault!Tabs : TabOpens(tabs[t])  BY Zenon DEF VInv
<1>2. UNCHANGED <<tabs, held, used>>  BY Zenon DEF Vault!mark_restored, Vault!deposit
<1>3. Grows /\ FilesInv' /\ \A env : Opens(env) => Opens(env)'  BY <1>2, SameSecrets, Zenon
<1>4. \A t \in Vault!Tabs : TabOpens(tabs[t])'
  <2>1. ASSUME NEW t \in Vault!Tabs PROVE TabOpens(tabs[t])'
    <3>1. PICK x : x = tabs[t]  OBVIOUS
    <3>2. TabOpens(x) /\ x = tabs'[t]  BY <1>1, <1>2, <3>1
    <3>3. TabOpens(x)'  BY <1>3, <3>2, Zenon DEF TabOpens
    <3> QED  BY <3>2, <3>3, Zenon
  <2> QED  BY <2>1, Zenon
<1>5. CASE Vault!mark_restored
  <2>1. PICK v \in Vaults : Vault!Stored(v) /\ rows' = [rows EXCEPT ![v].backup = "restored"]
    BY <1>5, Zenon DEF Vault!mark_restored, Vault!setVaultBackupStatus
  <2>2. UNCHANGED <<used, held, funded>>  BY <1>5, Zenon DEF Vault!mark_restored
  <2>3. "restored" \in {"verified", "restored"}  OBVIOUS
  <2>4. RowsInv' /\ rows' \in [Vaults -> Row \union {NoVault}]
    BY <2>1, <2>2, <2>3, BackupRows, Zenon
  <2>5. VaultTypeOK'  BY <1>1, <1>2, <2>2, <2>4 DEF VaultTypeOK
  <2> QED  BY <1>3, <1>4, <2>4, <2>5, Zenon DEF VInv
<1>6. CASE \E t \in WebTabs : Vault!deposit(t)
  <2>1. PICK v \in Vaults, n \in Notes : /\ Vault!vaultDepositReady(v)
                                         /\ funded' = funded \union {<<v, n>>}
    BY <1>6, Zenon DEF Vault!deposit
  <2>2. rows' = rows  BY <1>6, Zenon DEF Vault!deposit
  <2>3. RowOpens(v)  BY <1>1, <2>1, Zenon DEF Vault!vaultDepositReady, Vault!Stored, RowsInv
  <2>4. ASSUME NEW u, RowOpens(u) PROVE RowOpens(u)'
    <3>1. PICK e : e = rows[u].env  OBVIOUS
    <3>2. Opens(e)'  BY <1>3, <2>4, <3>1 DEF RowOpens
    <3> QED  BY <2>2, <2>4, <3>1, <3>2, Zenon DEF RowOpens
  <2>5. \A f \in funded' : RowOpens(f[1])
    <3>1. \A f \in funded : RowOpens(f[1])  BY <1>1, Zenon DEF RowsInv
    <3>2. <<v, n>>[1] = v  OBVIOUS
    <3> QED  BY <2>1, <2>3, <3>1, <3>2
  <2>6. RowsInv'  BY <1>1, <2>2, <2>4, <2>5, Zenon DEF RowsInv
  <2>7. VaultTypeOK'  BY <1>1, <1>2, <2>1, <2>2 DEF VaultTypeOK
  <2> QED  BY <1>3, <1>4, <2>6, <2>7, Zenon DEF VInv
<1> QED  BY <1>5, <1>6

-----------------------------------------------------------------------------

LEMMA InitVInv == Vault!Init => VInv
<1> SUFFICES ASSUME Vault!Init PROVE VInv  OBVIOUS
<1>1. Vault!Blank \in Tab /\ Vault!Blank.mem = NoVault /\ Vault!Blank.pc = "idle"  BY DEF Vault!Blank, Tab
<1>2. \A t \in Vault!Tabs : tabs[t] = Vault!Blank  BY DEF Vault!Init
<1>3. TabOpens(Vault!Blank)  BY <1>1 DEF TabOpens
<1>4. VaultTypeOK  BY <1>1 DEF Vault!Init, VaultTypeOK
<1>5. RowsInv  BY DEF Vault!Init, RowsInv
<1>6. FilesInv  BY DEF Vault!Init, FilesInv
<1> QED  BY <1>2, <1>3, <1>4, <1>5, <1>6 DEF VInv

LEMMA NextVInv == VInv /\ [Vault!Next]_Vault!vars => VInv'
<1> SUFFICES ASSUME VInv, [Vault!Next]_Vault!vars PROVE VInv'  OBVIOUS
<1>1. CASE UNCHANGED Vault!vars
  <2>1. rows' = rows /\ tabs' = tabs /\ held' = held /\ used' = used /\ funded' = funded  BY <1>1 DEF Vault!vars
  <2>2. \A env : Opens(env)' <=> Opens(env)  BY <2>1, Zenon DEF Opens
  <2>3. VaultTypeOK' /\ FilesInv'  BY <2>1, Zenon DEF VInv, VaultTypeOK, FilesInv
  <2>4. RowsInv'  BY <2>1, <2>2, Zenon DEF VInv, RowsInv, RowOpens
  <2>5. \A t \in Vault!Tabs : TabOpens(tabs[t])'  BY <2>1, <2>2, Zenon DEF VInv, TabOpens
  <2> QED  BY <2>1, <2>3, <2>4, <2>5, Zenon DEF VInv
<1>2. ASSUME NEW t \in WebTabs,
             \/ Vault!createVault(t) \/ Vault!upload(t) \/ Vault!fetch(t) \/ Vault!verify_backup(t)
             \/ Vault!restoreFromFile(t) \/ Vault!restoreWith(t) \/ Vault!deposit(t)
      PROVE  VInv'
  <2>1. t \in Vault!Tabs  BY DEF Vault!Tabs
  <2> QED  BY <1>2, <2>1, CreateInv, UploadInv, RestoreInv, RoutesInv
<1>3. ASSUME NEW t \in AppTabs, Vault!app_run(t) \/ Vault!app_upload(t) \/ Vault!app_verify_backup(t)
      PROVE  VInv'
  <2>1. t \in Vault!Tabs  BY DEF Vault!Tabs
  <2> QED  BY <1>3, <2>1, CreateInv, UploadInv
<1>4. ASSUME NEW t \in Vault!Tabs, Vault!put_note_vault(t) \/ Vault!post_wrappers(t) \/ Vault!close_tab(t)
      PROVE  VInv'
  BY <1>4, ClientInv, RestoreInv
<1>5. CASE Vault!mark_restored  BY <1>5, RoutesInv
<1> QED  BY <1>1, <1>2, <1>3, <1>4, <1>5, Zenon DEF Vault!Next

(* The inductive invariant: every stored envelope, and every envelope that a   *)
(* page may still upload over it, opens with secrets the user holds, and with  *)
(* the recovery file if that was downloaded.                                   *)
THEOREM VaultInvariant == Vault!Spec => []VInv
BY InitVInv, NextVInv, PTL DEF Vault!Spec

(* The vault of a deposit opens with what the user keeps, however often it was *)
(* uploaded, restored and written again by clients with older envelopes.       *)
THEOREM VaultFundedVaultOpens == Vault!Spec => []Vault!FundedVaultOpens
<1>1. VInv => Vault!FundedVaultOpens
  <2> SUFFICES ASSUME VInv, NEW f \in funded
               PROVE  /\ \E w \in rows[f[1]].env.wrappers : Vault!UnwrapsWith(w, held, rows[f[1]].env)
                      /\ File(f[1]) \in held =>
                            \E w \in rows[f[1]].env.wrappers :
                               w.secret = File(f[1]) /\ Vault!UnwrapsWith(w, {File(f[1])}, rows[f[1]].env)
    BY DEF Vault!FundedVaultOpens, File
  <2>1. PICK v : v = f[1]  OBVIOUS
  <2>2. PICK env : env = rows[v].env  OBVIOUS
  <2>3. RowOpens(v)  BY <2>1 DEF VInv, RowsInv
  <2>4. /\ env.vault = v /\ env.key = v /\ env.wrappers # {}
        /\ \A w \in env.wrappers : w.secret \in held /\ w.wrapped = v
        /\ File(v) \in held => \E w \in env.wrappers : w.secret = File(v)
    BY <2>2, <2>3 DEF RowOpens, Opens
  <2>5. \E w \in env.wrappers : Vault!UnwrapsWith(w, held, env)
    BY <2>4 DEF Vault!UnwrapsWith, Vault!decryptEnvelope
  <2>6. File(v) \in held =>
           \E w \in env.wrappers : w.secret = File(v) /\ Vault!UnwrapsWith(w, {File(v)}, env)
    BY <2>4 DEF Vault!UnwrapsWith, Vault!decryptEnvelope
  <2> QED  BY <2>1, <2>2, <2>5, <2>6, Zenon
<1> QED  BY <1>1, VaultInvariant, PTL
=============================================================================

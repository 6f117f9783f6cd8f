-------------------------- MODULE CommitteeShares --------------------------
(***************************************************************************)
(* How an amount reaches the committee without anybody seeing it:          *)
(* packages/mpc-crypto (shamir.ts, committee.ts), the same scheme again in *)
(* packages/sdk/src/mpc.ts, and the node keys of                           *)
(* apps/mpc-committee/src/keys.ts.  The coordinator reads the nodes' keys  *)
(* when it starts and serves them; a client splits its amount and closes   *)
(* one share for each node; the nodes sign batches.  Node processes crash  *)
(* and start again between any two steps, with the keys the database has.  *)
(* One process runs for a node at a time.                                  *)
(***************************************************************************)
EXTENDS Integers, FiniteSets, Sequences

CONSTANTS Prime,      \* the field: the code's BN254 prime, here a small one
          Total,      \* number of committee nodes
          Thresholds, \* thresholds a client may ask for
          Amounts,    \* amounts a client may send
          MaxKeys     \* bound on the key pairs ever generated

VARIABLES rows,    \* mpc_committee_keys: node -> key pair, 0 when there is no row
          proc,    \* node -> what its process is doing, with the key it holds
          keys,    \* number of key pairs generated
          pinned,  \* committeeInfo of the coordinator, << >> before it started
          client,  \* the client: its committee info, amount and threshold
          sealed,  \* node -> the encrypted share on its way, or NoShare
          opened,  \* the shares the nodes have decrypted
          refused, \* nodes whose decryptShare threw
          batch    \* signatures of the last batch: <<node, key>>

vars == <<rows, proc, keys, pinned, client, sealed, opened, refused, batch>>

Nodes == 1 .. Total
Field == 0 .. Prime - 1
NoShare == [to |-> 0, x |-> 0, y |-> 0]
NoClient == [state |-> "idle", info |-> << >>, amount |-> 0, t |-> 0]

modp(n) == n % Prime

\* The extended Euclid loop, one call for each turn.
RECURSIVE euclid(_, _, _, _)
euclid(old_r, r, old_s, s) ==
    IF r = 0 THEN old_s
    ELSE LET q == old_r \div r
         IN  euclid(r, old_r - q * r, s, old_s - q * s)

modinv(a) == modp(euclid(modp(a), Prime, 1, 0))

\* y * x + c, from the highest coefficient down.
RECURSIVE horner(_, _, _)
horner(coeffs, x, y) ==
    IF coeffs = << >> THEN y
    ELSE horner(SubSeq(coeffs, 1, Len(coeffs) - 1), x,
                modp(y * x + coeffs[Len(coeffs)]))

\* The shares of a secret, with the random coefficients the call draws.
shamirSplit(secret, random, total) ==
    [n \in 1 .. total |-> [x |-> n, y |-> horner(<<modp(secret)>> \o random, n, 0)]]

\* The SDK's copy of the same function.
sdk_shamirSplit(secret, random, total) ==
    LET coeffs == <<modp(secret)>> \o random
    IN  [n \in 1 .. total |-> [x |-> n, y |-> horner(coeffs, n, 0)]]

RECURSIVE basis(_, _, _, _)
basis(shares, i, num, den) ==
    IF shares = {} THEN modp(num * modinv(den))
    ELSE LET o == CHOOSE o \in shares : TRUE
         IN  basis(shares \ {o}, i, modp(num * modp(-o.x)), modp(den * (i.x - o.x)))

\* Lagrange interpolation at zero.
shamirReconstruct(shares) ==
    LET RECURSIVE sum(_)
        sum(rest) ==
            IF rest = {} THEN 0
            ELSE LET i == CHOOSE i \in rest : TRUE
                 IN  modp(sum(rest \ {i}) + modp(i.y * basis(shares \ {i}, i, 1, 1)))
    IN  sum(shares)

\* nacl.box to a public key; a key pair is named by one number.
encryptShareForNode(share, key) == [to |-> key, x |-> share.x, y |-> share.y]
sdk_encryptShareForNode(share, key) == [to |-> key, x |-> share.x, y |-> share.y]

Init ==
    /\ rows = [n \in Nodes |-> 0]
    /\ proc = [n \in Nodes |-> [state |-> "down", key |-> 0]]
    /\ keys = 0
    /\ pinned = << >>
    /\ client = NoClient
    /\ sealed = [n \in Nodes |-> NoShare]
    /\ opened = {}
    /\ refused = {}
    /\ batch = {}

\* loadOrGenerateKeys up to its SELECT: a row is decrypted and used as it is,
\* and without one a fresh pair is drawn, which only the INSERT will keep.
loadOrGenerateKeys(n) ==
    /\ proc[n].state = "down"
    /\ \/ /\ rows[n] # 0
          /\ proc' = [proc EXCEPT ![n] = [state |-> "up", key |-> rows[n]]]
          /\ keys' = keys
       \/ /\ rows[n] = 0
          /\ keys < MaxKeys
          /\ keys' = keys + 1
          /\ proc' = [proc EXCEPT ![n] = [state |-> "loading", key |-> keys + 1]]
    /\ UNCHANGED <<rows, pinned, client, sealed, opened, refused, batch>>

\* A plausible slip: the fresh pair is used and never stored.
insert_key_forgotten(n) ==
    /\ proc[n].state = "loading"
    /\ proc' = [proc EXCEPT ![n].state = "up"]
    /\ UNCHANGED <<rows, keys, pinned, client, sealed, opened, refused, batch>>

\* INSERT ... ON CONFLICT DO NOTHING; the process keeps the pair it drew.
insert_key(n) ==
    /\ proc[n].state = "loading"
    /\ rows' = IF rows[n] = 0 THEN [rows EXCEPT ![n] = proc[n].key] ELSE rows
    /\ proc' = [proc EXCEPT ![n].state = "up"]
    /\ UNCHANGED <<keys, pinned, client, sealed, opened, refused, batch>>

\* The process dies; a share it had opened was in its memory only.
node_stops(n) ==
    /\ proc[n].state # "down"
    /\ proc' = [proc EXCEPT ![n] = [state |-> "down", key |-> 0]]
    /\ opened' = {s \in opened : s.x # n}
    /\ UNCHANGED <<rows, keys, pinned, client, sealed, refused, batch>>

\* The coordinator asks every node for its identity at boot, and serves what it
\* was told for as long as it runs.
fetchCommitteeInfo ==
    /\ \A n \in Nodes : proc[n].state = "up"
    /\ pinned' = [n \in Nodes |-> proc[n].key]
    /\ UNCHANGED <<rows, proc, keys, client, sealed, opened, refused, batch>>

get_committee ==
    /\ client.state = "idle"
    /\ pinned # << >>
    /\ client' = [client EXCEPT !.state = "informed", !.info = pinned]
    /\ UNCHANGED <<rows, proc, keys, pinned, sealed, opened, refused, batch>>

\* submit: what the client posts has a commitment of the amount and the shares,
\* which the API passes on to the committee.
submit(amount, t, shares) ==
    /\ client.state = "informed"
    /\ client' = [client EXCEPT !.state = "sent", !.amount = amount, !.t = t]
    /\ sealed' = shares
    /\ UNCHANGED <<rows, proc, keys, pinned, opened, refused, batch>>

\* The committee package's splitter, used by the command-line drivers: its
\* shamirSplit refuses a threshold under two or over the number of nodes.
splitAmountForCommittee(amount, t, random) ==
    /\ t \in 2 .. Total
    /\ Len(random) = t - 1
    /\ LET raw == shamirSplit(amount, random, Total)
       IN  submit(amount, t, [n \in Nodes |-> encryptShareForNode(raw[n], client.info[n])])

\* The browser's splitter.
splitAndEncryptAmount(amount, random, nodes) ==
    LET shares == sdk_shamirSplit(amount, random, Total)
    IN  [n \in Nodes |-> sdk_encryptShareForNode(shares[n], nodes[n])]

\* buildPrivateIntent of the SDK, from the committee it fetched and with the
\* splitter's default threshold, and submit.
buildPrivateIntent(amount, t, random) ==
    /\ t = 2 /\ Len(random) = t - 1
    /\ submit(amount, t, splitAndEncryptAmount(amount, random, client.info))

\* A node opens the share it was sent, or nacl.box.open answers null.
decryptShare(n) ==
    /\ proc[n].state = "up"
    /\ sealed[n] # NoShare
    /\ IF sealed[n].to = proc[n].key
       THEN opened' = opened \cup {[x |-> sealed[n].x, y |-> sealed[n].y]} /\ UNCHANGED refused
       ELSE refused' = refused \cup {n} /\ UNCHANGED opened
    /\ UNCHANGED <<rows, proc, keys, pinned, client, sealed, batch>>

reconstructAmount(shares) == shamirReconstruct(shares)

Threshold == (2 * Total + 2) \div 3

\* The nodes that answer sign with the key they hold; the coordinator counts
\* the signatures and does not look at them.
signBatch(R) ==
    /\ pinned # << >>
    /\ Cardinality(R) >= Threshold
    /\ \A n \in R : proc[n].state = "up"
    /\ batch' = {<<n, proc[n].key>> : n \in R}
    /\ UNCHANGED <<rows, proc, keys, pinned, client, sealed, opened, refused>>

\* A signature by a key the committee does not list rejects the whole batch.
verifySignedBatch(signatures, committee) ==
    /\ \A sig \in signatures : \E n \in DOMAIN committee : committee[n] = sig[2]
    /\ \A sig, other \in signatures : sig[2] = other[2] => sig = other
    /\ 3 * Cardinality({sig[2] : sig \in signatures}) >= 2 * Len(committee)

Next ==
    \/ \E n \in Nodes : loadOrGenerateKeys(n) \/ insert_key(n) \/ node_stops(n) \/ decryptShare(n)
    \/ fetchCommitteeInfo \/ get_committee
    \/ \E R \in SUBSET Nodes : signBatch(R)
    \/ \E t \in Thresholds, amount \in Amounts : \E random \in [1 .. t - 1 -> Field] :
            splitAmountForCommittee(amount, t, random) \/ buildPrivateIntent(amount, t, random)

Spec == Init /\ [][Next]_vars

\* The amounts that some polynomial takes through the given shares.
Candidates(shares, t) ==
    {secret \in Field : \E random \in [1 .. t - 1 -> Field] :
        \A s \in shares : shamirSplit(secret, random, Total)[s.x] = s}

\* "Any t shares can reconstruct; fewer reveal nothing about the secret"
\* (shamir.ts), and "keypairs survive process restarts so signed batches remain
\* verifiable" (keys.ts).  However nodes and coordinator restart: every set of at
\* least t opened shares gives the amount back and every smaller set fits every
\* amount of the field; a node opens the share that was sealed to the key a
\* client once read; and a batch verifies against the committee the coordinator
\* serves, now and later.
RestartsAreHarmless ==
    /\ refused = {}
    /\ \A shares \in SUBSET opened :
          IF Cardinality(shares) >= client.t
          THEN reconstructAmount(shares) = client.amount \/ client.state # "sent"
          ELSE Candidates(shares, client.t) = Field
    /\ batch # {} => verifySignedBatch(batch, pinned)
=============================================================================

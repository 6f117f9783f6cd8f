---------------------------- MODULE IntentEscrow ----------------------------
(***************************************************************************)
(* The Soroban contract that keeps the records of an RFQ: intents, quotes, *)
(* acceptances, inventory locks and failures, each under its hash.  A call *)
(* is one transaction, so a panic is a disabled action.  The contract has  *)
(* no settlement; that is the shielded pool's rfq_settle.                  *)
(***************************************************************************)
EXTENDS Integers, FiniteSets

CONSTANTS Intents,    \* intent hashes
          Quotes,     \* quote hashes
          Hashes,     \* lock and reason hashes
          MaxLedger   \* bound on the ledger sequence

ASSUME EscrowAssumption ==
    /\ MaxLedger \in Nat
    /\ -1 \notin Quotes
    /\ -1 \notin Hashes

VARIABLES ledger,      \* env.ledger().sequence()
          initialized, \* DataKey::Admin is set
          intent,      \* DataKey::Intent: expiry_ledger
          quote,       \* DataKey::Quote: valid_until_ledger
          accepted,    \* DataKey::Accepted: the quote hash
          lock,        \* DataKey::Lock
          failed,      \* DataKey::Failed
          acceptedAt   \* history: ledger of the acceptance

vars == <<ledger, initialized, intent, quote, accepted, lock, failed, acceptedAt>>

\* No entry under a key.
None == -1

Ledgers == 0 .. MaxLedger

\* Every record holds a value of its type or nothing (DataKey and the two
\* structs of intent_escrow).
TypeOK ==
    /\ ledger \in Ledgers
    /\ initialized \in BOOLEAN
    /\ intent \in [Intents -> Ledgers \cup {None}]
    /\ quote \in [Quotes -> Ledgers \cup {None}]
    /\ accepted \in [Intents -> Quotes \cup {None}]
    /\ lock \in [Quotes -> Hashes \cup {None}]
    /\ failed \in [Intents -> Hashes \cup {None}]
    /\ acceptedAt \in [Intents -> Ledgers \cup {None}]

Init ==
    /\ ledger = 0
    /\ initialized = FALSE
    /\ intent = [i \in Intents |-> None]
    /\ quote = [q \in Quotes |-> None]
    /\ accepted = [i \in Intents |-> None]
    /\ lock = [q \in Quotes |-> None]
    /\ failed = [i \in Intents |-> None]
    /\ acceptedAt = [i \in Intents |-> None]

initialize ==
    /\ ~initialized
    /\ initialized' = TRUE
    /\ UNCHANGED <<ledger, intent, quote, accepted, lock, failed, acceptedAt>>

\* The other calls do not ask whether the contract is initialized.
register_intent_again(i, expiry) ==
    /\ intent' = [intent EXCEPT ![i] = expiry]
    /\ UNCHANGED <<ledger, initialized, quote, accepted, lock, failed, acceptedAt>>

register_intent(i, expiry) ==
    /\ intent[i] = None
    /\ intent' = [intent EXCEPT ![i] = expiry]
    /\ UNCHANGED <<ledger, initialized, quote, accepted, lock, failed, acceptedAt>>

register_quote(q, until) ==
    /\ ledger <= until
    /\ quote[q] = None
    /\ quote' = [quote EXCEPT ![q] = until]
    /\ UNCHANGED <<ledger, initialized, intent, accepted, lock, failed, acceptedAt>>

accept_quote_again(i, q) ==
    /\ intent[i] # None
    /\ quote[q] # None
    /\ ledger <= intent[i]
    /\ ledger <= quote[q]
    /\ accepted' = [accepted EXCEPT ![i] = q]
    /\ acceptedAt' = [acceptedAt EXCEPT ![i] = ledger]
    /\ UNCHANGED <<ledger, initialized, intent, quote, lock, failed>>

\* Any registered quote: the contract keeps no link from a quote to an intent.
accept_quote(i, q) ==
    /\ intent[i] # None
    /\ quote[q] # None
    /\ ledger <= intent[i]
    /\ ledger <= quote[q]
    /\ accepted[i] = None
    /\ accepted' = [accepted EXCEPT ![i] = q]
    /\ acceptedAt' = [acceptedAt EXCEPT ![i] = ledger]
    /\ UNCHANGED <<ledger, initialized, intent, quote, lock, failed>>

\* A later lock of the same quote overwrites the earlier one.
lock_solver_inventory(q, h) ==
    /\ quote[q] # None
    /\ lock' = [lock EXCEPT ![q] = h]
    /\ UNCHANGED <<ledger, initialized, intent, quote, accepted, failed, acceptedAt>>

mark_failed_recoverable(i, h) ==
    /\ failed' = [failed EXCEPT ![i] = h]
    /\ UNCHANGED <<ledger, initialized, intent, quote, accepted, lock, acceptedAt>>

\* The network closes a ledger.
CloseLedger ==
    /\ ledger < MaxLedger
    /\ ledger' = ledger + 1
    /\ UNCHANGED <<initialized, intent, quote, accepted, lock, failed, acceptedAt>>

Next ==
    \/ initialize
    \/ \E i \in Intents, e \in Ledgers : register_intent(i, e)
    \/ \E q \in Quotes, u \in Ledgers : register_quote(q, u)
    \/ \E i \in Intents, q \in Quotes : accept_quote(i, q)
    \/ \E q \in Quotes, h \in Hashes : lock_solver_inventory(q, h)
    \/ \E i \in Intents, h \in Hashes : mark_failed_recoverable(i, h)
    \/ CloseLedger

Spec == Init /\ [][Next]_vars

-----------------------------------------------------------------------------
\* An accepted quote was inside its own validity and inside the intent's when
\* it was accepted, and the records that say so still do: accept_quote's check
\* cannot be undone by registering the intent or the quote again.
AcceptedBeforeExpiry ==
    \A i \in Intents :
        accepted[i] # None =>
            /\ acceptedAt[i] <= intent[i]
            /\ quote[accepted[i]] # None
            /\ acceptedAt[i] <= quote[accepted[i]]

\* accept_quote: the acceptance of an intent is final, whatever is registered,
\* accepted, locked or marked failed afterwards.
AcceptanceIsFinal ==
    [][\A i \in Intents : accepted[i] # None => accepted'[i] = accepted[i]]_vars
=============================================================================

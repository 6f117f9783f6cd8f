----------------------------- MODULE NoteVault -----------------------------
(* The encrypted note vault of one user: the wrappers and envelopes of         *)
(* packages/note-vault, the pages that create and restore a vault, the rows    *)
(* and routes of the API that store it, and the deposits it is checked for.    *)
(* A random key, secret or vault id is fresh; AES-GCM opens exactly what the   *)
(* same key closed over the same associated data.                              *)
EXTENDS FiniteSets, Naturals

CONSTANTS WebTabs,      \* tabs of apps/web
          AppTabs,      \* tabs of frontend, whose vault-setup knows a passphrase only
          Vaults,       \* vault ids, each stands for its master key too
          Notes,        \* commitments of notes
          Methods,      \* recovery methods that the user may tick on the vault page
          Added,        \* types of wrappers a client may add later
          Mainnet, MinWrappers, AllowEvmOnly,  \* the API's environment
          NoVault       \* no row, no envelope, nothing in memory

VARIABLES rows,      \* note_vaults: vault id -> row
          tabs,      \* what each open page holds
          held,      \* secrets the user keeps: files, passphrases, wallets, devices
          used,      \* vault ids drawn so far
          funded     \* <<vault, commitment>> of every deposit prepared by the deposit page

vars == <<rows, tabs, held, used, funded>>

Tabs == WebTabs \cup AppTabs
Strong == {"passkey_prf", "stellar_ed25519_signature"}

(* The input of a wrapper's key derivation: a wallet's signature over a fixed  *)
(* challenge is always the same, the other inputs are the wrapper's own.       *)
SecretOf(type, v, id) ==
  IF type \in {"stellar_ed25519_signature", "evm_signature"} THEN <<type>> ELSE <<type, v, id>>

wrap_regenerated(type, v, key, id) ==
  [id |-> id, type |-> type, secret |-> SecretOf(type, v, id), wrapped |-> <<key>>]
(* wrapWithKey: the master key under a key derived from the secret, and the    *)
(* envelope, which is the vault under its master key.                          *)
wrap(type, v, key, id) ==
  [id |-> id, type |-> type, secret |-> SecretOf(type, v, id), wrapped |-> key]
createEmptyNoteVault == {}
addNoteToVault(notes, n) == notes \cup {n}
createVaultEnvelope(v, notes, wrappers) ==
  [vault |-> v, key |-> v, notes |-> notes, wrappers |-> wrappers]
decryptEnvelope(env, key) == env.key = key
UnwrapsWith(w, secrets, env) == w.secret \in secrets /\ decryptEnvelope(env, w.wrapped)

(* frontend carries a copy of the package; its page wraps with a passphrase.   *)
app_wrapVaultKeyWithRecoveryKitPassword(v) ==
  [id |-> 0, type |-> "recovery_kit_password",
   secret |-> SecretOf("recovery_kit_password", v, 0), wrapped |-> v]
app_createVaultEnvelope(v, wrappers) ==
  [vault |-> v, key |-> v, notes |-> {}, wrappers |-> wrappers]
app_decryptEnvelope(env, key) == env.key = key
app_unwrapVaultKeyWithRecoveryKitPassword(w, passphrase) == w.secret = passphrase

evaluateRecoveryPolicy(wrappers) ==
  LET nonEvm == {w \in wrappers : w.type # "evm_signature"}
      strong == /\ \E w \in wrappers : w.type \in Strong
                /\ Cardinality(nonEvm) >= 2
  IN  IF (~AllowEvmOnly /\ nonEvm = {}) \/ Cardinality(nonEvm) < MinWrappers THEN "insufficient"
      ELSE IF strong THEN "strong"
      ELSE IF Mainnet THEN "insufficient" ELSE "sufficient"

Stored(v) == rows[v] # NoVault
vaultDepositReady(v) ==
  Stored(v) /\ rows[v].backup = "verified" /\ rows[v].policy \in {"sufficient", "strong"}

Blank == [pc |-> "idle", env |-> NoVault, mem |-> NoVault]

Init ==
  /\ rows = [v \in Vaults |-> NoVault]
  /\ tabs = [t \in Tabs |-> Blank]
  /\ held = {}
  /\ used = {}
  /\ funded = {}

Goes(t, pc) == tabs' = [tabs EXCEPT ![t].pc = pc]

-----------------------------------------------------------------------------
(* createVault of apps/web up to the upload. A passkey or a wallet that fails  *)
(* is skipped, the recovery file is downloaded as soon as its wrapper exists,  *)
(* and without any wrapper the page gives up.                                  *)
createPasskeyWrapperInput == {{}, {"passkey_prf"}}
stellarRecoverySignature == {{}, {"stellar_ed25519_signature"}}
Asked == {"recovery_file_secret", "recovery_kit_password"}
createVault(t) ==
  /\ tabs[t].pc \in {"idle", "failed"}
  /\ \E v \in Vaults \ used, passkey \in createPasskeyWrapperInput,
        wallet \in stellarRecoverySignature, asked \in SUBSET (Methods \cap Asked) :
       LET made == (Methods \cap (passkey \cup wallet)) \cup asked IN
       /\ used' = used \cup {v}
       /\ held' = held \cup {SecretOf(m, v, 0) : m \in made}
       /\ IF made = {}
          THEN Goes(t, "failed")
          ELSE tabs' = [tabs EXCEPT ![t].pc = "upload",
                          ![t].env = createVaultEnvelope(v, createEmptyNoteVault,
                                                         {wrap(m, v, v, 0) : m \in made})]
  /\ UNCHANGED <<rows, funded>>

(* run of vault-setup, with its one wrapper.                                   *)
app_run(t) ==
  /\ tabs[t].pc \in {"idle", "failed"}
  /\ \E v \in Vaults \ used :
       /\ used' = used \cup {v}
       /\ held' = held \cup {SecretOf("recovery_kit_password", v, 0)}
       /\ tabs' = [tabs EXCEPT ![t].pc = "upload",
            ![t].env = app_createVaultEnvelope(v, {app_wrapVaultKeyWithRecoveryKitPassword(v)})]
  /\ UNCHANGED <<rows, funded>>

(* Rows written by POST /v1/note-vaults: an upsert that keeps the backup       *)
(* status of a row it meets.                                                   *)
createNoteVault(env) ==
  [rows EXCEPT ![env.vault] =
     [env |-> env, policy |-> evaluateRecoveryPolicy(env.wrappers),
      backup |-> IF Stored(env.vault) THEN rows[env.vault].backup ELSE "created"]]
post_note_vaults(env) == rows' = createNoteVault(env)

(* The upload: answered, stored without an answer, or lost on the way. An      *)
(* answered web page caches the envelope and keeps the vault in memory.        *)
upload(t) ==
  /\ tabs[t].pc = "upload"
  /\ \/ /\ post_note_vaults(tabs[t].env)
        /\ \/ tabs' = [tabs EXCEPT ![t].pc = "fetch", ![t].mem = tabs[t].env.notes]
           \/ Goes(t, "failed")
     \/ rows' = rows /\ Goes(t, "failed")
  /\ UNCHANGED <<held, used, funded>>

(* vault-setup then opens the envelope it still has with the passphrase.       *)
app_upload(t) ==
  LET env == tabs[t].env
      opens == \A w \in env.wrappers :
                  /\ app_unwrapVaultKeyWithRecoveryKitPassword(w, SecretOf(w.type, env.vault, 0))
                  /\ app_decryptEnvelope(env, w.wrapped)
  IN  /\ tabs[t].pc = "upload"
      /\ \/ post_note_vaults(env) /\ Goes(t, IF opens THEN "verify" ELSE "failed")
         \/ post_note_vaults(env) /\ Goes(t, "failed")
         \/ rows' = rows /\ Goes(t, "failed")
      /\ UNCHANGED <<held, used, funded>>

(* The web page's proof of restore: the fetched envelope is opened with the    *)
(* recovery file's secret, or without a file with the key still in memory.     *)
getNoteVault(v) == rows[v].env
ProvesRestore(env, v) ==
  LET files == {w \in env.wrappers : w.type = "recovery_file_secret"}
  IN  IF files # {} THEN \A w \in files : UnwrapsWith(w, held, env) ELSE decryptEnvelope(env, v)
fetch(t) ==
  LET v == tabs[t].env.vault IN
  /\ tabs[t].pc = "fetch"
  /\ Goes(t, "failed") \/ Goes(t, IF ProvesRestore(getNoteVault(v), v) THEN "verify" ELSE "failed")
  /\ UNCHANGED <<rows, held, used, funded>>

(* POST verify-backup: 404 without a row, 409 with an insufficient policy.     *)
setVaultBackupVerified(v) == rows' = [rows EXCEPT ![v].backup = "verified"]
post_verify_backup(v) ==
  /\ Stored(v)
  /\ rows[v].policy \in {"sufficient", "strong"}
  /\ setVaultBackupVerified(v)

(* The end of both pages; vault-setup keeps the vault in memory only now.      *)
verify_backup(t) ==
  /\ tabs[t].pc = "verify"
  /\ \/ post_verify_backup(tabs[t].env.vault) /\ (Goes(t, "ready") \/ Goes(t, "failed"))
     \/ rows' = rows /\ Goes(t, "failed")
  /\ UNCHANGED <<held, used, funded>>
setUnlocked(t) == tabs' = [tabs EXCEPT ![t].pc = "ready", ![t].mem = tabs[t].env.notes]
app_verify_backup(t) ==
  /\ tabs[t].pc = "verify"
  /\ \/ post_verify_backup(tabs[t].env.vault) /\ (setUnlocked(t) \/ Goes(t, "failed"))
     \/ rows' = rows /\ Goes(t, "failed")
  /\ UNCHANGED <<held, used, funded>>

-----------------------------------------------------------------------------
(* Restoring, and the clients of the other routes.                             *)

(* The restore page has a path for a file, a wallet and a passphrase. It       *)
(* clears memory and cache first; the call of mark-restored that ends it has   *)
(* a JSON content type and no body, which Fastify answers with 400 before the  *)
(* handler runs, so the row keeps its status and the page ends in an error.    *)
clearLocalCache(t) == tabs' = [tabs EXCEPT ![t].pc = "failed", ![t].mem = NoVault]
finish(t, w, env) ==
  /\ UnwrapsWith(w, held, env)
  /\ tabs' = [tabs EXCEPT ![t] = [pc |-> "failed", env |-> env, mem |-> env.notes]]
restoreFromFile(t) ==
  /\ tabs[t].pc \in {"idle", "ready", "failed"}
  /\ \/ \E v \in Vaults : Stored(v) /\ \E w \in getNoteVault(v).wrappers :
          w.type = "recovery_file_secret" /\ finish(t, w, getNoteVault(v))
     \/ clearLocalCache(t)
  /\ UNCHANGED <<rows, held, used, funded>>
restoreWith(t) ==
  /\ tabs[t].pc \in {"idle", "ready", "failed"}
  /\ \/ \E v \in Vaults : Stored(v) /\ \E w \in getNoteVault(v).wrappers :
          /\ w.type \in {"stellar_ed25519_signature", "recovery_kit_password"}
          /\ finish(t, w, getNoteVault(v))
     \/ clearLocalCache(t)
  /\ UNCHANGED <<rows, held, used, funded>>

(* The mark-restored route, for clients whose call has a body.                 *)
setVaultBackupStatus(v, status) == rows' = [rows EXCEPT ![v].backup = status]
mark_restored ==
  /\ \E v \in Vaults : Stored(v) /\ setVaultBackupStatus(v, "restored")
  /\ UNCHANGED <<tabs, held, used, funded>>

(* PUT, and the wrappers route, by a client of the SDK that has the vault      *)
(* open: the envelope is built from what the client last saw.                  *)
updateNoteVault(env) ==
  rows' = [rows EXCEPT ![env.vault].env = env, ![env.vault].policy = evaluateRecoveryPolicy(env.wrappers)]
Sees(t, env) == tabs' = [tabs EXCEPT ![t].env = env, ![t].mem = env.notes]
HasOpen(t) == tabs[t].mem # NoVault /\ tabs[t].pc \in {"ready", "failed"} /\ Stored(tabs[t].env.vault)
addNote(notes, n) == addNoteToVault(notes, n)
put_note_vault(t) ==
  /\ HasOpen(t)
  /\ \E n \in Notes : LET env == [tabs[t].env EXCEPT !.notes = addNote(tabs[t].mem, n)]
                     IN  updateNoteVault(env) /\ Sees(t, env)
  /\ UNCHANGED <<held, used, funded>>
post_wrappers(t) ==
  /\ HasOpen(t)
  /\ \E type \in Added :
       LET v == tabs[t].env.vault
           env == [tabs[t].env EXCEPT !.wrappers = @ \cup {wrap(type, v, v, 1)}]
       IN  /\ updateNoteVault(env) /\ Sees(t, env)
           /\ held' = held \cup {SecretOf(type, v, 1)}
  /\ UNCHANGED <<used, funded>>

(* deposit of apps/web up to the answer of POST /v1/deposits/prepare, whose    *)
(* gate asks for a ready vault. The vault that addNoteToVault returns is       *)
(* dropped by the page, so the tab's vault stays what it was.                  *)
deposit(t) ==
  /\ \E v \in Vaults, n \in Notes :
       /\ vaultDepositReady(v)
       /\ n \notin {f[2] : f \in funded}
       /\ funded' = funded \cup {<<v, n>>}
  /\ UNCHANGED <<rows, tabs, held, used>>

(* Closing a tab, or clear(): what was only in memory is gone.                 *)
close_tab(t) == tabs' = [tabs EXCEPT ![t] = Blank] /\ UNCHANGED <<rows, held, used, funded>>

Next ==
  \/ \E t \in WebTabs : createVault(t) \/ upload(t) \/ fetch(t) \/ verify_backup(t)
                        \/ restoreFromFile(t) \/ restoreWith(t) \/ deposit(t)
  \/ \E t \in AppTabs : app_run(t) \/ app_upload(t) \/ app_verify_backup(t)
  \/ \E t \in Tabs : put_note_vault(t) \/ post_wrappers(t) \/ close_tab(t)
  \/ mark_restored

Spec == Init /\ [][Next]_vars

-----------------------------------------------------------------------------
(* A vault that was funded stays recoverable from what the user keeps: some    *)
(* wrapper of the stored envelope opens it with a secret the user holds, and   *)
(* the recovery file that was downloaded at its creation does. It is what the policy and  *)
(* backup checks of deposits/prepare are for, across lost replies, retried     *)
(* creations, closed tabs, restores and uploads by several clients.            *)
FundedVaultOpens ==
  \A f \in funded :
    LET env == rows[f[1]].env
        file == SecretOf("recovery_file_secret", f[1], 0)
    IN  /\ \E w \in env.wrappers : UnwrapsWith(w, held, env)
        /\ file \in held => \E w \in env.wrappers : w.secret = file /\ UnwrapsWith(w, {file}, env)

(* docs/note-vault-recovery.md:3, "How private notes survive a browser-cache   *)
(* wipe": the note of a deposit made on the deposit page is in the stored      *)
(* vault, or at least still in the memory of some tab.                         *)
FundedNoteIsKept ==
  \A f \in funded :
    \/ f[2] \in rows[f[1]].env.notes
    \/ \E t \in Tabs : tabs[t].mem # NoVault /\ tabs[t].env.vault = f[1] /\ f[2] \in tabs[t].mem
=============================================================================

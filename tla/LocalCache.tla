------------------------------ MODULE LocalCache -------------------------------
(***************************************************************************)
(* The encryption of the desktop's SQLite cache: switching it on and off   *)
(* while background tasks write, the key in memory and in the credential   *)
(* store, and restarts in between.                                         *)
(*                                                                         *)
(* A row is a profile, conversation, message, draft, outbox entry or the   *)
(* bootstrap snapshot; its content is the key it was encrypted with, Plain *)
(* for none.  A transaction that reads and then writes either sees nothing *)
(* of other writers or fails (SQLITE_BUSY), so it is one step; a task takes*)
(* the key before its transaction.                                         *)
(* Names with Cache are this module's own, as DesktopProofs extends it next*)
(* to DesktopView.                                                         *)
(***************************************************************************)
EXTENDS Naturals

CONSTANTS
    Rows,
    TextRows,     \* rows that are text messages
    Writers,      \* background tasks
    MaxKeys       \* bound on the keys made

ASSUME LocalCacheAssumption == TextRows \subseteq Rows /\ MaxKeys \in Nat

VARIABLES
    row,          \* row[r]: Absent, Plain or a key
    index,        \* rows of message_search, which holds text in the clear
    mode,         \* key of the committed cache_encryption = v1, or Plain
    key,          \* encryption_key in memory
    credential,   \* key in the credential store, Plain for none
    made,         \* keys made so far
    switch,       \* step of set_encryption_enabled, and its key
    writing,      \* writing[t]: rows to write and key, if at work
    app,          \* "Open", "Closed", or "Locked" when open fails
    stray         \* rows last written with a key that was out of date (history)

cacheVars == <<row, index, mode, key, credential, made, switch, writing, app, stray>>

Plain == 0
Absent == MaxKeys + 1
Keys == 1 .. MaxKeys

Resting == [at |-> "Idle", key |-> Plain]
NoTask == [rows |-> {}, key |-> Plain]

CacheTypeOK ==
    /\ row \in [Rows -> 0 .. Absent]
    /\ index \subseteq TextRows
    /\ mode \in 0 .. MaxKeys /\ key \in 0 .. MaxKeys /\ credential \in 0 .. MaxKeys
    /\ made \in 0 .. MaxKeys
    /\ switch \in [at : {"Idle", "Encrypt", "RollBack", "Publish", "Decrypt", "Drop", "Forget"},
                   key : 0 .. MaxKeys]
    /\ writing \in [Writers -> [rows : SUBSET Rows, key : 0 .. MaxKeys]]
    /\ app \in {"Open", "Closed", "Locked"}
    /\ stray \subseteq Rows

CacheInit ==
    /\ row = [r \in Rows |-> Absent]
    /\ index = {}
    /\ mode = Plain /\ key = Plain /\ credential = Plain
    /\ made = 0
    /\ switch = Resting
    /\ writing = [t \in Writers |-> NoTask]
    /\ app = "Open"
    /\ stray = {}

\* protect leaves alone what carries the prefix already.
Protect(value, k) == IF value = Plain THEN k ELSE value

\* unprotect passes what has no prefix, and needs the right key otherwise.
Unprotects(value, k) == value \in {Absent, Plain, k}

To(step) == switch' = [switch EXCEPT !.at = step]
Rest == switch' = Resting

(***************************************************************************)
(* set_encryption_enabled(true).                                           *)
(***************************************************************************)
\* A new key goes to the credential store first.
SaveKey ==
    /\ app = "Open" /\ switch.at = "Idle" /\ key = Plain
    /\ made < MaxKeys /\ made' = made + 1
    /\ credential' = made'
    /\ switch' = [at |-> "Encrypt", key |-> made']
    /\ UNCHANGED <<row, index, mode, key, writing, app, stray>>

\* Mutant of EncryptExisting: the search index is kept.
EncryptKeepingIndex ==
    /\ switch.at = "Encrypt"
    /\ row' = [r \in Rows |-> Protect(row[r], switch.key)]
    /\ mode' = switch.key
    /\ stray' = {r \in stray : row[r] \notin {Plain, Absent}}
    /\ To("Publish")
    /\ UNCHANGED <<index, key, credential, made, writing, app>>

\* encrypt_existing_cache, one transaction over all tables.
EncryptExisting ==
    /\ switch.at = "Encrypt"
    /\ row' = [r \in Rows |-> Protect(row[r], switch.key)]
    /\ index' = {}
    /\ mode' = switch.key
    /\ stray' = {r \in stray : row[r] \notin {Plain, Absent}}
    /\ To("Publish")
    /\ UNCHANGED <<key, credential, made, writing, app>>

EncryptFails ==
    /\ switch.at = "Encrypt"
    /\ To("RollBack")
    /\ UNCHANGED <<row, index, mode, key, credential, made, writing, app, stray>>

\* Whether clear_cache_key succeeds is not looked at.
RollBackKey ==
    /\ switch.at = "RollBack"
    /\ credential' \in {Plain, credential}
    /\ Rest
    /\ UNCHANGED <<row, index, mode, key, made, writing, app, stray>>

\* Mutant of PublishKey: the key is not put in memory.
PublishNothing ==
    /\ switch.at = "Publish"
    /\ Rest
    /\ UNCHANGED <<row, index, mode, key, credential, made, writing, app, stray>>

PublishKey ==
    /\ switch.at = "Publish"
    /\ key' = switch.key
    /\ Rest
    /\ UNCHANGED <<row, index, mode, credential, made, writing, app, stray>>

(***************************************************************************)
(* set_encryption_enabled(false).                                          *)
(***************************************************************************)
\* Mutant of TurnOff: the key is forgotten before the rows are decrypted.
TurnOffForgetting ==
    /\ app = "Open" /\ switch.at = "Idle" /\ key # Plain
    /\ switch' = [at |-> "Decrypt", key |-> key]
    /\ credential' = Plain
    /\ UNCHANGED <<row, index, mode, key, made, writing, app, stray>>

TurnOff ==
    /\ app = "Open" /\ switch.at = "Idle" /\ key # Plain
    /\ switch' = [at |-> "Decrypt", key |-> key]
    /\ UNCHANGED <<row, index, mode, key, credential, made, writing, app, stray>>

\* decrypt_existing_cache, if every row can be read; else, or when the
\* transaction fails, all is as before.
DecryptExisting ==
    /\ switch.at = "Decrypt"
    /\ \A r \in Rows : Unprotects(row[r], switch.key)
    /\ row' = [r \in Rows |-> IF row[r] = Absent THEN Absent ELSE Plain]
    /\ index' = {r \in TextRows : row[r] # Absent}
    /\ mode' = Plain
    /\ stray' = {}
    /\ To("Drop")
    /\ UNCHANGED <<key, credential, made, writing, app>>

DecryptFails ==
    /\ switch.at = "Decrypt"
    /\ Rest
    /\ UNCHANGED <<row, index, mode, key, credential, made, writing, app, stray>>

DropKey ==
    /\ switch.at = "Drop"
    /\ key' = Plain
    /\ To("Forget")
    /\ UNCHANGED <<row, index, mode, credential, made, writing, app, stray>>

\* clear_cache_key, which may fail.
ForgetKey ==
    /\ switch.at = "Forget"
    /\ credential' \in {Plain, credential}
    /\ Rest
    /\ UNCHANGED <<row, index, mode, key, made, writing, app, stray>>

(***************************************************************************)
(* The other tasks.                                                        *)
(***************************************************************************)
\* cache_messages, cache_bootstrap, save_draft and enqueue_outbox take the key,
BeginWrite(t, rows) ==
    /\ app = "Open" /\ writing[t] = NoTask /\ rows # {}
    /\ writing' = [writing EXCEPT ![t] = [rows |-> rows, key |-> key]]
    /\ UNCHANGED <<row, index, mode, key, credential, made, switch, app, stray>>

\* and index text only without one.
Indexed(rows, k) == (index \ rows) \cup (IF k = Plain THEN rows \cap TextRows ELSE {})

CommitWrite(t) ==
    LET rows == writing[t].rows
    IN  /\ rows # {}
        /\ row' = [r \in Rows |-> IF r \in rows THEN writing[t].key ELSE row[r]]
        /\ index' = Indexed(rows, writing[t].key)
        /\ stray' = IF writing[t].key = mode THEN stray \ rows ELSE stray \cup rows
        /\ writing' = [writing EXCEPT ![t] = NoTask]
        /\ UNCHANGED <<mode, key, credential, made, switch, app>>

\* acknowledge_outbox, or a message that replaces its pending form.
DeleteRow(r) ==
    /\ app = "Open" /\ row[r] # Absent
    /\ row' = [row EXCEPT ![r] = Absent]
    /\ index' = index \ {r} /\ stray' = stray \ {r}
    /\ UNCHANGED <<mode, key, credential, made, switch, writing, app>>

\* clear_account_cache keeps cache_encryption.
ClearAccountCache ==
    /\ app = "Open"
    /\ \E r \in Rows : row[r] # Absent
    /\ row' = [r \in Rows |-> Absent]
    /\ index' = {} /\ stray' = {}
    /\ UNCHANGED <<mode, key, credential, made, switch, writing, app>>

\* The application ends, by a crash or not; nobody waits for the tasks.
Quit ==
    /\ app # "Closed"
    /\ app' = "Closed"
    /\ key' = Plain
    /\ Rest
    /\ writing' = [t \in Writers |-> NoTask]
    /\ UNCHANGED <<row, index, mode, credential, made, stray>>

\* LocalStore::open fails without the key of an encrypted cache.
OpenStore ==
    /\ app = "Closed"
    /\ IF mode # Plain /\ credential = Plain
       THEN app' = "Locked" /\ UNCHANGED key
       ELSE app' = "Open" /\ key' = IF mode # Plain THEN credential ELSE Plain
    /\ UNCHANGED <<row, index, mode, credential, made, switch, writing, stray>>

Switching ==
    \/ SaveKey \/ EncryptExisting \/ EncryptFails \/ RollBackKey \/ PublishKey
    \/ TurnOff \/ DecryptExisting \/ DecryptFails \/ DropKey \/ ForgetKey

CacheNext ==
    \/ Switching
    \/ \E t \in Writers, rows \in SUBSET Rows : BeginWrite(t, rows)
    \/ \E t \in Writers : CommitWrite(t)
    \/ \E r \in Rows : DeleteRow(r)
    \/ ClearAccountCache
    \/ Quit
    \/ OpenStore

CacheSpec == CacheInit /\ [][CacheNext]_cacheVars

(***************************************************************************)
(* Properties.                                                             *)
(***************************************************************************)
\* The key of an encrypted cache is in the credential store at every moment,
\* so that no crash between two steps of a switch, and no failed one, locks
\* the user out.
KeyIsKept ==
    /\ mode # Plain => credential = mode
    /\ app # "Locked"

\* The search index holds the text of exactly the messages stored in the
\* clear, whatever is switched while they are written.
IndexMatchesPlaintext == index = {r \in TextRows : row[r] = Plain}

\* Between switches every row is in the state of the cache, in the clear or
\* under the key in memory, but the rows of a task that took its key before
\* the switch and wrote after it.
RowsFollowTheSwitch ==
    app = "Open" /\ switch.at = "Idle" =>
        /\ key = mode
        /\ \A r \in Rows \ stray : row[r] \in {Absent, key}

\* A row is written under a key that is not the one of the cache.  Switched
\* off, it cannot be read and fails the read of all rows with it.
RowsReadable == \A r \in Rows : switch.at = "Idle" => Unprotects(row[r], mode)
================================================================================

------------------------------- MODULE Vault -------------------------------
(***************************************************************************)
(* The users' provider keys at rest: the blobs of byok.json and the keys   *)
(* that open them (vault.py, kms_client.py), the rotation of the secrets   *)
(* (rotate_secrets.py), and the backup and restore of the data directory   *)
(* (backup.py), which do not stop the server and which take the files one  *)
(* after the other.  Erasure has the requests that rewrite byok.json.      *)
(*                                                                         *)
(* A user id is AUTOINCREMENT: the database hands each out once, but a     *)
(* restored database starts again where it was when it was copied.         *)
(*                                                                         *)
(* The scripts look for byok.json in the data directory, also where        *)
(* FLUXSWARM_BYOK_STORE has put the vault's elsewhere.                     *)
(***************************************************************************)
EXTENDS Integers, Sequences, SequencesExt

CONSTANTS
    Persons,        \* people who open an account, each once
    Nobody,
    KeyProviders,   \* whose keys an account stores, one of each
    MaxIds,         \* bound: accounts in the database
    MaxFernet,      \* bound: Fernet keys ever generated
    MaxKek,         \* bound: file KEKs ever generated
    Keep,           \* FLUXSWARM_BACKUP_KEEP
    MaxScripts      \* bound: backups, restores and rotations, together

ASSUME VaultAssumption ==
    /\ Nobody \notin Persons
    /\ MaxIds \in Nat \ {0} /\ MaxFernet \in Nat \ {0} /\ MaxKek \in Nat /\ MaxScripts \in Nat /\ Keep \in Nat \ {0}

VARIABLES
    prod,       \* outside demo mode: the Fernet key and the KMS are the operator's
    moved,      \* FLUXSWARM_BYOK_STORE: byok.json is not in the data directory
    home,       \* ~/.fluxswarm: fernet.key and kms_file.key, and the legacy key file
    process,    \* the server: runs or not, and the keys it has loaded
    made,       \* Fernet keys and KEKs generated so far
    users,      \* users.db: the accounts by id, in the order they were opened
    store,      \* byok.json: whether it exists, and the blob of each id and provider
    archives,   \* the zips, oldest first
    script,     \* the operator's script: what it does and what it has in hand
    runs,       \* scripts started so far
    unopened,   \* history: the stored keys that the operator may have cost their key
    misfiled    \* history: the stored keys whose account the operator may have changed

doubts == <<unopened, misfiled>>
vaultHistory == <<runs, doubts>>
setting == <<prod, moved>>
vaultVars == <<setting, home, process, made, users, store, archives, script, vaultHistory>>

\* Key 0 is none; "env" keys, and remote KMS keys, are there as long as the operator's are.
NoKey == 0
Env == -1
Ids == 1..MaxIds
Entries == Ids \X KeyProviders
NoBlob == [kind |-> "none", key |-> NoKey, owner |-> Nobody]
Blobs == [kind : {"none", "fernet", "envelope"}, key : {Env} \cup (0..(MaxFernet + MaxKek)),
          owner : Persons \cup {Nobody}]
NoStore == [exists |-> FALSE, blob |-> [s \in Entries |-> NoBlob]]
NoArchive == [users |-> <<>>, store |-> NoStore, fernet |-> NoKey, kek |-> NoKey, unopened |-> {}, misfiled |-> {}]
NoScript == [does |-> "none", archive |-> NoArchive]

\* byok.json: a dict with an entry per id that has ever set a key and was not
\* erased, which is a dict by provider.
Stored(s) == {x \in Entries : s.blob[x] # NoBlob}
EntriesOf(i) == {x \in Entries : x[1] = i}

\* byok.json in the data directory.
Beside == IF moved THEN NoStore ELSE store

\* One account is there from the start.  Its key may be sealed under the Fernet
\* key of the releases before the KMS, which still may lie in the data directory.
VaultInit ==
    /\ prod \in BOOLEAN /\ moved \in BOOLEAN
    /\ \E p \in Persons : users = <<p>>
    /\ home \in [fernet : {NoKey, 1}, legacy : {NoKey, 1}, kek : {NoKey}]
    /\ \/ store = NoStore
       \/ \E x \in EntriesOf(1) : store = [exists |-> TRUE, blob |-> [NoStore.blob EXCEPT ![x] =
                    [kind |-> "fernet", key |-> IF prod THEN Env ELSE 1, owner |-> users[1]]]]
    /\ prod => home = [fernet |-> NoKey, legacy |-> NoKey, kek |-> NoKey]
    /\ ~prod /\ store.exists => 1 \in {home.fernet, home.legacy}
    /\ process = [up |-> FALSE, fernet |-> NoKey, kek |-> NoKey]
    /\ made = [fernet |-> 1, kek |-> 0]
    /\ archives = <<>> /\ script = NoScript /\ runs = 0 /\ unopened = {} /\ misfiled = {}

-----------------------------------------------------------------------------
(* The server. *)

\* _load_key and _load_kek: the operator's, the file's, the legacy file's (which
\* moves), or a new one that is written down, unless the home cannot be written.
FernetOf(h) ==
    CASE prod -> Env
      [] ~prod /\ h.fernet # NoKey -> h.fernet
      [] ~prod /\ h.fernet = NoKey /\ h.legacy # NoKey -> h.legacy
      [] ~prod /\ h.fernet = NoKey /\ h.legacy = NoKey -> made.fernet + 1

KekOf(h) == CASE prod -> Env [] ~prod /\ h.kek # NoKey -> h.kek [] ~prod /\ h.kek = NoKey -> made.kek + 1

LoadKeys ==
    /\ ~process.up
    /\ LET f == FernetOf(home)
           k == KekOf(home)
       IN /\ f <= MaxFernet /\ k <= MaxKek
          /\ process' = [up |-> TRUE, fernet |-> f, kek |-> k]
          /\ made' = [fernet |-> IF f > made.fernet THEN f ELSE made.fernet,
                      kek |-> IF k > made.kek THEN k ELSE made.kek]
          /\ home' = IF prod THEN home
                     ELSE [fernet |-> f, kek |-> k,
                           legacy |-> IF home.fernet = NoKey THEN NoKey ELSE home.legacy]
    /\ UNCHANGED <<setting, users, store, archives, script, vaultHistory>>

\* The home cannot be written: throwaway keys, which no later process has.
LoadEphemeral ==
    /\ ~process.up /\ ~prod
    /\ home = [fernet |-> NoKey, legacy |-> NoKey, kek |-> NoKey]
    /\ made.fernet < MaxFernet /\ made.kek < MaxKek
    /\ made' = [fernet |-> made.fernet + 1, kek |-> made.kek + 1]
    /\ process' = [up |-> TRUE, fernet |-> made'.fernet, kek |-> made'.kek]
    /\ UNCHANGED <<setting, home, users, store, archives, script, vaultHistory>>

\* The keys that the process seals with are written nowhere.
Throwaway == process.up /\ ~prod /\ home.kek = NoKey

Stops ==
    /\ process.up
    /\ process' = [up |-> FALSE, fernet |-> NoKey, kek |-> NoKey]
    /\ UNCHANGED <<setting, home, made, users, store, archives, script, vaultHistory>>

\* create_user: the next id.
OpenAccount(p) ==
    /\ process.up /\ p \notin ToSet(users)
    /\ Len(users) + 1 \in Ids
    /\ users' = Append(users, p)
    /\ UNCHANGED <<setting, home, process, made, store, archives, script, vaultHistory>>

\* set_user_key: a blob under the process's KEK, for one provider.
SetUserKey(x) ==
    /\ process.up /\ x[1] \in DOMAIN users /\ users[x[1]] # Nobody
    /\ store' = [exists |-> TRUE,
                 blob |-> [store.blob EXCEPT ![x] =
                             [kind |-> "envelope", key |-> process.kek, owner |-> users[x[1]]]]]
    /\ unopened' = IF Throwaway THEN unopened \cup {x} ELSE unopened \ {x}
    /\ misfiled' = misfiled \ {x}
    /\ UNCHANGED <<setting, home, process, made, users, archives, script, runs>>

\* Erasure: the entry goes with the account, and the id is not used again.
EraseUser(i) ==
    /\ process.up /\ i \in DOMAIN users /\ users[i] # Nobody
    /\ store' = [store EXCEPT !.blob = [x \in Entries |-> IF x[1] = i THEN NoBlob ELSE store.blob[x]]]
    /\ users' = [users EXCEPT ![i] = Nobody]
    /\ unopened' = unopened \ EntriesOf(i) /\ misfiled' = misfiled \ EntriesOf(i)
    /\ UNCHANGED <<setting, home, process, made, archives, script, runs>>

\* get_user_key: a blob opens under the key it was sealed with.
Opens(blob, fernet, kek) ==
    CASE blob.kind = "none" -> TRUE
      [] blob.kind = "fernet" -> blob.key = fernet
      [] blob.kind = "envelope" -> blob.key = kek

-----------------------------------------------------------------------------
(* The scripts.  They run beside the server, one of them at a time. *)

Starts(does, archive) ==
    /\ script = NoScript /\ runs < MaxScripts
    /\ runs' = runs + 1
    /\ script' = [does |-> does, archive |-> archive]

\* Mutant: rotates whatever the vault holds.
RotateCheckAnyway ==
    /\ Starts("rotate", NoArchive)
    /\ UNCHANGED <<setting, home, process, made, users, store, archives, doubts>>

\* rotate_secrets refuses while byok.json of the data directory has an entry.
RotateCheck ==
    /\ Stored(Beside) = {}
    /\ Starts("rotate", NoArchive)
    /\ UNCHANGED <<setting, home, process, made, users, store, archives, doubts>>

\* The recovery point has been copied; the key file is overwritten.  The server
\* keeps the key it has loaded.  A vault that is elsewhere was not looked at.
RotateWrite ==
    /\ script.does = "rotate" /\ made.fernet < MaxFernet
    /\ made' = [made EXCEPT !.fernet = @ + 1]
    /\ home' = [home EXCEPT !.fernet = made.fernet + 1]
    /\ unopened' = IF moved THEN unopened \cup {x \in Entries : store.blob[x].kind = "fernet"} ELSE unopened
    /\ script' = NoScript
    /\ UNCHANGED <<setting, process, users, store, archives, runs, misfiled>>

\* The SQLite copy of users.db, taken at once.
BackupDb ==
    /\ Starts("backup", [NoArchive EXCEPT !.users = users])
    /\ UNCHANGED <<setting, home, process, made, users, store, archives, doubts>>

\* byok.json is read later, and skipped when there is none.
BackupStore ==
    /\ script.does = "backup"
    /\ LET copied == script.archive.users
           new == [users |-> copied, store |-> Beside, fernet |-> FernetOf(home), kek |-> KekOf(home),
                   unopened |-> unopened,
                   misfiled |-> IF users = copied THEN misfiled ELSE misfiled \cup Stored(store)]
           all == Append(archives, new)
       IN archives' = SubSeq(all, IF Len(all) > Keep THEN Len(all) - Keep + 1 ELSE 1, Len(all))
    /\ script' = NoScript
    /\ UNCHANGED <<setting, home, process, made, users, store, runs, doubts>>

\* do_restore writes users.db first.
RestoreDb ==
    /\ \E i \in DOMAIN archives : Starts("restore", archives[i]) /\ users' = archives[i].users
    /\ UNCHANGED <<setting, home, process, made, store, archives, doubts>>

\* The keys of an archive that was taken under other keys.
Outdated(archive) ==
    {x \in Entries : \/ archive.store.blob[x].kind = "fernet" /\ archive.fernet # FernetOf(home)
                     \/ archive.store.blob[x].kind = "envelope" /\ archive.kek # KekOf(home)}

\* Then byok.json.
RestoreStore ==
    /\ script.does = "restore" /\ script.archive.store.exists
    /\ LET archive == script.archive
       IN /\ store' = archive.store
          /\ unopened' = archive.unopened \cup Outdated(archive)
          /\ misfiled' = archive.misfiled \cup IF users = archive.users THEN {} ELSE Stored(archive.store)
    /\ script' = NoScript
    /\ UNCHANGED <<setting, home, process, made, users, archives, runs>>

\* An archive without one: the byok.json that is there stays.
RestoreNoStore ==
    /\ script.does = "restore" /\ ~script.archive.store.exists
    /\ misfiled' = misfiled \cup Stored(store)
    /\ script' = NoScript
    /\ UNCHANGED <<setting, home, process, made, users, store, archives, runs, unopened>>

\* The operator gives up half-way.
ScriptDies ==
    /\ script # NoScript
    /\ misfiled' = IF script.does = "restore" THEN misfiled \cup Stored(store) ELSE misfiled
    /\ script' = NoScript
    /\ UNCHANGED <<setting, home, process, made, users, store, archives, runs, unopened>>

\* A new host, or a new container: the data directory is a volume, the home is not.
HomeLost ==
    /\ ~process.up /\ ~prod /\ (home.fernet # NoKey \/ home.kek # NoKey)
    /\ home' = [home EXCEPT !.fernet = NoKey, !.kek = NoKey]
    /\ unopened' = unopened \cup Stored(store)
    /\ UNCHANGED <<setting, process, made, users, store, archives, script, runs, misfiled>>

VaultNext ==
    \/ LoadKeys \/ LoadEphemeral \/ Stops \/ HomeLost
    \/ \E p \in Persons : OpenAccount(p)
    \/ \E x \in Entries : SetUserKey(x)
    \/ \E i \in Ids : EraseUser(i)
    \/ RotateCheck \/ RotateWrite \/ BackupDb \/ BackupStore
    \/ RestoreDb \/ RestoreStore \/ RestoreNoStore \/ ScriptDies

VaultSpec == VaultInit /\ [][VaultNext]_vaultVars

-----------------------------------------------------------------------------
(* Properties. *)

VaultTypeOK ==
    /\ home \in [fernet : 0..MaxFernet, legacy : {NoKey, 1}, kek : 0..MaxKek]
    /\ process.fernet \in {Env} \cup 0..MaxFernet /\ process.kek \in {Env} \cup 0..MaxKek
    /\ users \in Seq(Persons \cup {Nobody}) /\ store.exists \in BOOLEAN
    /\ \A x \in Entries : store.blob[x] \in Blobs
    /\ Len(archives) <= Keep

\* Every stored key opens for the next process to start, and for the one that
\* runs unless its keys are throwaway: migrating the key file, rotating, backing
\* up and restoring cost no key.  What does is a key sealed by a process whose home
\* cannot be written, one stored when the home was lost, one restored from an
\* archive taken under another key, and one sealed with the Fernet key that the
\* vault held elsewhere when the key was rotated.
KeysOpen ==
    \A x \in Entries \ unopened :
        /\ Opens(store.blob[x], FernetOf(home), KekOf(home))
        /\ process.up /\ ~Throwaway => Opens(store.blob[x], process.fernet, process.kek)

\* A key is stored under the account of the person who stored it, and under none
\* that is not there.  What an archive held whose two files were of different
\* moments, what was restored into a database that had moved on, and what was
\* there when a restore stopped between the files or brought no byok.json may
\* break this: the restored database hands ids out again.
KeysBelong ==
    script.does # "restore" =>
        \A x \in Entries \ misfiled :
            store.blob[x] = NoBlob \/ (x[1] \in DOMAIN users /\ store.blob[x].owner = users[x[1]])

\* A stored key opens, and for the person who stored it.
VaultKept == VaultTypeOK /\ KeysOpen /\ KeysBelong
=============================================================================

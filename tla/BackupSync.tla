---------------------------------- MODULE BackupSync ----------------------------------
(* operations/backup of the wallet: devices that share a root key keep one encrypted     *)
(* backup with a provider, merge what they find there, and replace it. A hash of a        *)
(* backup is the backup itself; every other state of a record than which records there     *)
(* are is left out, except what an import makes of a record. The provider is external.    *)
LOCAL INSTANCE Naturals

CONSTANTS
    Devices,        \* every device starts with a root key of its own, which is its name
    Cycles,         \* cycles that may run in parallel: [device, by], by "task" or "user"
    NewItems,       \* what the wallets come to have: [kind, id]
    NoBlob,
    MaxChanges      \* bound: changes of the wallets and of the providers, lost messages

ASSUME CyclesAssumption == Cycles \subseteq [device : Devices, by : {"task", "user"}]

VARIABLES
    db,         \* d |-> records: [kind, id, renamed, denoms]
    tombs,      \* d |-> tombstones: [kind, id, renamed]
    conf,       \* d |-> WalletBackupConfState: [root, nonce, plain]
    prov,       \* d |-> the record of the provider: {} or {[hash, state]}
    adding,     \* d |-> the state that a provider which is being added will have
    cycle,      \* c |-> a backup cycle: [pc, hash, entries, blob, found, again]
    account,    \* root |-> what the provider has: [blob, paid]
    changes

syncVars == <<db, tombs, conf, prov, adding, cycle, account, changes>>

(* importBackup takes these, and leaves recoup groups aside; deposit groups are not       *)
(* even exported.                                                                 *)
ImportedKinds == {"coin", "reserve", "withdrawalGroup", "proposal", "purchase", "refreshGroup", "tip"}
ExportedKinds == ImportedKinds \cup {"recoupGroup"}
KindsWithDenoms == {"reserve", "withdrawalGroup", "tip"}
UndeletableKinds == {"coin", "recoupGroup"}

Key(r) == [kind |-> r.kind, id |-> r.id, renamed |-> r.renamed]
Tombstone(r) == [Key(r) EXCEPT !.kind = IF r.kind = "proposal" THEN "purchase" ELSE r.kind]

(* A proposal is exported under its nonce instead of its id, unless it was accepted.    *)
Accepted(records, r) == r.kind = "proposal" /\ [Key(r) EXCEPT !.kind = "purchase"] \in {Key(s) : s \in records}
Exported(r) == IF r.kind = "proposal" THEN [r EXCEPT !.renamed = TRUE] ELSE r
ExportBackup(records) == {Exported(r) : r \in {s \in records : s.kind \in ExportedKinds /\ ~Accepted(records, s)}}

(* A selection of denominations is imported as an empty one, and an empty one that was       *)
(* exported again makes the import throw.                                            *)
Restored(e) == IF e.kind \in KindsWithDenoms THEN [e EXCEPT !.denoms = FALSE] ELSE e

Missing(records, stones, entries) ==
    {e \in entries : /\ e.kind \in ImportedKinds
                     /\ Key(e) \notin {Key(r) : r \in records}
                     /\ Tombstone(e) \notin stones}

ImportThrows(records, stones, entries) ==
    \E e \in Missing(records, stones, entries) : e.kind \in KindsWithDenoms /\ ~e.denoms

ImportBackup(records, stones, entries) ==
    {r \in records \cup {Restored(e) : e \in Missing(records, stones, entries)} : Tombstone(r) \notin stones}

Idle == [pc |-> "idle", hash |-> NoBlob, entries |-> {}, blob |-> NoBlob, found |-> NoBlob, again |-> FALSE]
NewConf(root) == [root |-> root, nonce |-> 0, plain |-> NoBlob]
NewItem(item) == [kind |-> item.kind, id |-> item.id, renamed |-> FALSE, denoms |-> TRUE]

Change == changes < MaxChanges /\ changes' = changes + 1

-----------------------------------------------------------------------------
(* What else the wallets do                                                       *)
Create(d, item) ==
    /\ \A e \in Devices : \A r \in db[e] : r.id # item.id
    /\ \A e \in Devices : \A t \in tombs[e] : t.id # item.id
    /\ db' = [db EXCEPT ![d] = @ \cup {NewItem(item)}]
    /\ Change
    /\ UNCHANGED <<tombs, conf, prov, adding, cycle, account>>

Accept(d, r) ==
    /\ r.kind = "proposal" /\ ~Accepted(db[d], r)
    /\ db' = [db EXCEPT ![d] = @ \cup {[r EXCEPT !.kind = "purchase"]}]
    /\ Change
    /\ UNCHANGED <<tombs, conf, prov, adding, cycle, account>>

(* deleteTransaction                                                              *)
Delete(d, r) ==
    /\ r.kind \notin UndeletableKinds
    /\ tombs' = [tombs EXCEPT ![d] = @ \cup {Tombstone(r)}]
    /\ db' = [db EXCEPT ![d] = {s \in @ : Tombstone(s) # Tombstone(r)}]
    /\ Change
    /\ UNCHANGED <<conf, prov, adding, cycle, account>>

-----------------------------------------------------------------------------
(* The provider's record                                                          *)
Has(d) == prov[d] # {}
Record(d) == CHOOSE p \in prov[d] : TRUE
Put(d, hash, state) == prov' = [prov EXCEPT ![d] = {[hash |-> hash, state |-> state]}]

(* Changes of the record in a transaction that does nothing if there is no record          *)
Update(d, hash, state) == IF Has(d) THEN Put(d, hash, state) ELSE UNCHANGED prov

(* addBackupProvider: a record that is there is activated; the return from that            *)
(* transaction does not end the function, which goes on to ask for the terms,            *)
AddBackupProvider(d, state) ==
    /\ adding[d] = "no"
    /\ adding' = [adding EXCEPT ![d] = state]
    /\ IF Has(d) /\ state = "ready" THEN Put(d, Record(d).hash, "ready") ELSE UNCHANGED prov
    /\ Change
    /\ UNCHANGED <<db, tombs, conf, cycle, account>>

(* and to write a new record.                                                      *)
AddedBackupProvider(d) ==
    /\ adding[d] # "no"
    /\ Put(d, NoBlob, adding[d])
    /\ adding' = [adding EXCEPT ![d] = "no"]
    /\ UNCHANGED <<db, tombs, conf, cycle, account, changes>>

RemoveBackupProvider(d) ==
    /\ Has(d)
    /\ prov' = [prov EXCEPT ![d] = {}]
    /\ Change
    /\ UNCHANGED <<db, tombs, conf, adding, cycle, account>>

(* loadBackupRecovery, with the strategy "theirs": the device takes the other's root key     *)
(* and its providers.                                                             *)
LoadBackupRecovery(d, e) ==
    /\ Has(e) /\ Record(e).state # "provisional"
    /\ conf' = [conf EXCEPT ![d] = NewConf(conf[e].root)]
    /\ Put(d, NoBlob, IF Has(d) THEN Record(d).state ELSE "ready")
    /\ Change
    /\ UNCHANGED <<db, tombs, adding, cycle, account>>

(* The device is lost. A new wallet takes its place, with the recovery data of the other.     *)
Replace(d, e) ==
    /\ Has(e) /\ Record(e).state # "provisional"
    /\ db' = [db EXCEPT ![d] = {}] /\ tombs' = [tombs EXCEPT ![d] = {}]
    /\ conf' = [conf EXCEPT ![d] = NewConf(conf[e].root)]
    /\ Put(d, NoBlob, "ready")
    /\ adding' = [adding EXCEPT ![d] = "no"]
    /\ cycle' = [c \in Cycles |-> IF c.device = d THEN Idle ELSE cycle[c]]
    /\ Change
    /\ UNCHANGED account

-----------------------------------------------------------------------------
(* A cycle: runBackupCycleForProvider                                               *)
Reached(c, pc) == cycle[c].pc = pc
Goes(c, to) == cycle' = [cycle EXCEPT ![c] = to]
Ends(c) == Goes(c, Idle)

(* incrementBackupRetryInTx                                                       *)
IncrementBackupRetry(d) ==
    IF Has(d) /\ Record(d).state = "ready" THEN Put(d, Record(d).hash, "retrying") ELSE UNCHANGED prov

(* An exception: a task counts it, the user is told.                                   *)
Throws(c) == Ends(c) /\ IF c.by = "task" THEN IncrementBackupRetry(c.device) ELSE UNCHANGED prov

(* runBackupCycleForProvider reads the provider's record, which may be gone.             *)
Begins(c, again) == IF Has(c.device) THEN Goes(c, [Idle EXCEPT !.pc = "export", !.hash = Record(c.device).hash, !.again = again])
                    ELSE Ends(c)

(* processBackupForProvider, when it is pending, or runBackupCycle                       *)
StartCycle(c) ==
    /\ Reached(c, "idle") /\ Has(c.device)
    /\ c.by = "task" => Record(c.device).state # "provisional"
    /\ Begins(c, TRUE)
    /\ IF c.by = "user" THEN Change ELSE UNCHANGED changes
    /\ UNCHANGED <<db, tombs, conf, prov, adding, account>>

StartAgain(c) ==
    /\ Reached(c, "begin")
    /\ Begins(c, FALSE)
    /\ UNCHANGED <<db, tombs, conf, prov, adding, account, changes>>

(* exportBackup: another nonce when the backup has changed                              *)
Export(c) ==
    LET d == c.device
        entries == ExportBackup(db[d])
        plain == [root |-> conf[d].root, entries |-> entries]
    IN /\ Reached(c, "export")
       /\ IF conf[d].plain = plain THEN UNCHANGED conf
          ELSE conf' = [conf EXCEPT ![d].plain = plain, ![d].nonce = @ + 1]
       /\ Goes(c, [cycle[c] EXCEPT !.pc = "upload", !.entries = entries])
       /\ UNCHANGED <<db, tombs, prov, adding, account, changes>>

(* Mutant: the hash that is in the record by now, not the one from before the export.     *)
OldHashNow(c) == IF Has(c.device) THEN Record(c.device).hash ELSE NoBlob

(* if-match, and the signature                                                     *)
OldHash(c) == cycle[c].hash

(* encryptBackup, with the root key and nonce that are configured now; it throws when       *)
(* there is no nonce (0).                                                          *)
EncryptFails(c) ==
    /\ Reached(c, "upload") /\ conf[c.device].nonce = 0
    /\ Throws(c)
    /\ UNCHANGED <<db, tombs, conf, adding, account, changes>>

Encrypted(c) == [root |-> conf[c.device].root, by |-> c.device, nonce |-> conf[c.device].nonce, entries |-> cycle[c].entries]

(* POST /backups: the provider replaces exactly the backup that is named, by another.     *)
Upload(c) ==
    LET blob == Encrypted(c)
        mine == account[blob.root]
        answer(pc) == [Idle EXCEPT !.pc = pc, !.again = cycle[c].again]
    IN /\ Reached(c, "upload") /\ conf[c.device].nonce # 0
       /\ mine.paid /\ mine.blob = NoBlob => OldHash(c) = NoBlob
       /\ IF mine.paid /\ mine.blob # blob /\ mine.blob = OldHash(c)
          THEN /\ account' = [account EXCEPT ![blob.root].blob = blob]
               /\ Goes(c, [answer("stored") EXCEPT !.blob = blob])
          ELSE /\ Goes(c, CASE ~mine.paid -> [answer("pay") EXCEPT !.blob = blob]
                             [] mine.paid /\ mine.blob = blob -> answer("unchanged")
                             [] OTHER -> [answer("conflict") EXCEPT !.found = mine.blob])
               /\ UNCHANGED account
       /\ UNCHANGED <<db, tombs, conf, prov, adding, changes>>

(* The answer is lost, whatever became of the request.                                 *)
LoseAnswer(c) ==
    /\ cycle[c].pc \in {"pay", "unchanged", "stored", "conflict"}
    /\ Throws(c)
    /\ Change
    /\ UNCHANGED <<db, tombs, conf, adding, account>>

(* 304; 204; any other status (such as 404 for a backup that is not there)               *)
Unchanged(c) ==
    /\ Reached(c, "unchanged")
    /\ IF Has(c.device) THEN Put(c.device, Record(c.device).hash, "ready") ELSE UNCHANGED prov
    /\ Ends(c)
    /\ UNCHANGED <<db, tombs, conf, adding, account, changes>>

Stored(c) ==
    /\ Reached(c, "stored")
    /\ Update(c.device, cycle[c].blob, "ready") /\ Ends(c)
    /\ UNCHANGED <<db, tombs, conf, adding, account, changes>>

Refused(c) ==
    /\ Reached(c, "upload") /\ conf[c.device].nonce # 0
    /\ IncrementBackupRetry(c.device) /\ Ends(c)
    /\ Change
    /\ UNCHANGED <<db, tombs, conf, adding, account>>

(* 402: the wallet pays, if it can, and tries once more.                                *)
PayForBackup(c, paid) ==
    /\ Reached(c, "pay")
    /\ IF Has(c.device)
       THEN /\ IncrementBackupRetry(c.device)
            /\ account' = IF paid THEN [account EXCEPT ![cycle[c].blob.root].paid = TRUE] ELSE account
            /\ IF cycle[c].again THEN Goes(c, [Idle EXCEPT !.pc = "begin"]) ELSE Ends(c)
       ELSE Throws(c) /\ UNCHANGED account
    /\ UNCHANGED <<db, tombs, conf, adding, changes>>

(* 409: the backup that is there is decrypted and imported,                             *)
Merge(c) ==
    LET d == c.device
    IN /\ Reached(c, "conflict")
       /\ IF cycle[c].found.root # conf[d].root \/ ImportThrows(db[d], tombs[d], cycle[c].found.entries)
          THEN Throws(c) /\ UNCHANGED db
          ELSE /\ db' = [db EXCEPT ![d] = ImportBackup(@, tombs[d], cycle[c].found.entries)]
               /\ Goes(c, [cycle[c] EXCEPT !.pc = "merged"])
               /\ UNCHANGED prov
       /\ UNCHANGED <<tombs, conf, adding, account, changes>>

(* remembered, and a new cycle replaces it.                                          *)
Merged(c) ==
    /\ Reached(c, "merged")
    /\ Update(c.device, cycle[c].found, "retrying")
    /\ Goes(c, [Idle EXCEPT !.pc = "begin"])
    /\ UNCHANGED <<db, tombs, conf, adding, account, changes>>

-----------------------------------------------------------------------------

SyncIdle ==
    /\ db = [d \in Devices |-> {}] /\ tombs = [d \in Devices |-> {}]
    /\ conf = [d \in Devices |-> NewConf(d)]
    /\ prov = [d \in Devices |-> {}] /\ adding = [d \in Devices |-> "no"]
    /\ cycle = [c \in Cycles |-> Idle]
    /\ account = [d \in Devices |-> [blob |-> NoBlob, paid |-> FALSE]]
    /\ changes = 0

(* Wallets that share a root key and a provider, each with a record of its own; or share     *)
(* nothing: with no provider yet, or with one that was added again after a backup.           *)
Ready == [d \in Devices |-> {[hash |-> NoBlob, state |-> "ready"]}]
Unpaid == [d \in Devices |-> [blob |-> NoBlob, paid |-> FALSE]]
FirstBackup(d) == [root |-> d, by |-> d, nonce |-> 1, entries |-> {}]

SyncInit ==
    /\ tombs = [d \in Devices |-> {}] /\ adding = [d \in Devices |-> "no"]
    /\ cycle = [c \in Cycles |-> Idle]
    /\ \/ LET root == CHOOSE d \in Devices : TRUE
          IN /\ db \in {f \in [Devices -> {{NewItem(i)} : i \in NewItems}] : \A d, e \in Devices : d # e => f[d] # f[e]}
             /\ conf = [d \in Devices |-> NewConf(root)]
             /\ prov = Ready
             /\ account = [Unpaid EXCEPT ![root].paid = TRUE]
             /\ changes = MaxChanges - 1
       \/ /\ db = [d \in Devices |-> {}]
          /\ conf = [d \in Devices |-> NewConf(d)]
          /\ prov = [d \in Devices |-> {}] /\ account = Unpaid
          /\ changes = 0
       \/ /\ \E i \in NewItems, f \in Devices : db = [d \in Devices |-> IF d = f THEN {NewItem(i)} ELSE {}]
          /\ conf = [d \in Devices |-> [root |-> d, nonce |-> 1, plain |-> [root |-> d, entries |-> {}]]]
          /\ prov = Ready
          /\ account = [d \in Devices |-> [blob |-> FirstBackup(d), paid |-> TRUE]]
          /\ changes = MaxChanges - 1

SyncNext ==
    \/ \E d \in Devices :
          \/ \E item \in NewItems : Create(d, item)
          \/ \E r \in db[d] : Accept(d, r) \/ Delete(d, r)
          \/ \E state \in {"ready", "provisional"} : AddBackupProvider(d, state)
          \/ AddedBackupProvider(d) \/ RemoveBackupProvider(d)
          \/ \E e \in Devices \ {d} : LoadBackupRecovery(d, e) \/ Replace(d, e)
    \/ \E c \in Cycles :
          \/ StartCycle(c) \/ StartAgain(c) \/ Export(c) \/ EncryptFails(c) \/ Upload(c) \/ LoseAnswer(c)
          \/ Unchanged(c) \/ Stored(c) \/ Refused(c) \/ Merge(c) \/ Merged(c)
          \/ \E paid \in BOOLEAN : PayForBackup(c, paid)

-----------------------------------------------------------------------------
(* A record is still there, or has become a purchase, or was deleted by the user, who      *)
(* may know it by its other name.                                                   *)
StillThere(e, records, stones) ==
    \/ \E r \in records : r.id = e.id /\ (r.kind = e.kind \/ (e.kind = "proposal" /\ r.kind = "purchase"))
    \/ \E t \in stones : t.id = e.id

Holds(entries, records, stones) == \A e \in entries : e.kind \in ImportedKinds => StillThere(e, records, stones)

(* A backup is only replaced by one that has all of its records that an import takes,       *)
(* except those that the device which replaces it has deleted.                        *)
NothingLost ==
    [][\A root \in Devices :
          LET old == account[root].blob
              new == account'[root].blob
          IN old # NoBlob /\ new # old =>
                Holds(old.entries, new.entries, tombs[new.by])]_syncVars
=============================================================================

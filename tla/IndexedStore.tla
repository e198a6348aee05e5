------------------------------- MODULE IndexedStore -------------------------------
(* idb-bridge/src/bridge-idb.ts on top of MemoryBackend.ts: connections that open,   *)
(* upgrade and close one database, and transactions that take requests from their     *)
(* client, run them one by one, and commit by themselves when none is left.          *)
(* After a race that corrupts or blocks the database (raced) a behaviour is not        *)
(* followed any further.                                                          *)
EXTENDS IndexedBackend, SequencesExt

CONSTANTS
    Connections,    \* connections to the database
    Transactions,   \* transactions, 1 .. n
    StoreNames, IndexNames,
    Versions,       \* the versions that clients ask for
    Requests,       \* what transactions ask for: [kind, store, key, tag, index]
    MaxWork         \* bound: requests, schema changes and crashes

ASSUME WorkAssumption == MaxWork \in Nat /\ Transactions \subseteq Nat
ASSUME RequestAssumption ==
    \A op \in Requests : /\ op.kind \in {"get", "find", "put", "add", "delete", "clear"}
                         /\ op.store \in StoreNames /\ op.key \in RecordKeys \cup {Nil}
                         /\ op.tag \in Tags \cup {Nil} /\ op.index \in IndexNames \cup {Nil}

VARIABLES
    backend,    \* the database in MemoryBackend
    conn,       \* the connections
    tx,         \* the transactions: BridgeIDBTransaction and its chain of _start
    storeWork,  \* work done, which bounds the model
    raced,      \* history: what went wrong between two connections, or in an abort
    stained     \* history: records whose index entries are known to be off

storeVars == <<backend, conn, tx, storeWork, raced, stained>>

NoConnection == [state |-> "none", pending |-> FALSE, listed |-> FALSE, wants |-> 0,
                 at |-> [schema |-> [version |-> 0, stores |-> <<>>], map |-> <<>>]]

NewTx(c, mode, btx) ==
    [conn |-> c, mode |-> mode, queue |-> <<>>, current |-> Nil, pc |-> "queued",
     active |-> TRUE, resting |-> FALSE, btx |-> btx, aborted |-> FALSE, committed |-> FALSE]

(* A transaction that has ended: nothing but its connection and outcome is looked at.   *)
Ended(r) == [NewTx(r.conn, "ended", FALSE) EXCEPT !.pc = "ended", !.active = FALSE,
                !.aborted = r.aborted /\ r.mode = "versionchange", !.committed = TRUE]

Transaction ==
    [conn : Connections, mode : {"readonly", "readwrite", "versionchange", "ended"},
     queue : Seq(Requests), current : Requests \cup {Nil},
     pc : {"queued", "begin", "wait", "committing", "ended"},
     active : BOOLEAN, resting : BOOLEAN, btx : BOOLEAN, aborted : BOOLEAN, committed : BOOLEAN]

ASSUME NilAssumption == Nil \notin Transaction

At(t) == conn[tx[t].conn].at
Finished(t) == tx[t].aborted \/ tx[t].committed
Exists(t) == tx[t] # Nil
TxsOf(c) == {t \in Transactions : Exists(t) /\ tx[t].conn = c}
IsNextTx(t) == ~Exists(t) /\ \A u \in Transactions : u < t => Exists(u)
SchemaNames(t) == DOMAIN At(t).schema.stores

(* The connection was set up before another one changed the schema.                 *)
Stale(c) == conn[c].at.schema # backend.schema

(* Where a behaviour starts: a new database, an open one with full records that another *)
(* connection may upgrade, and an empty one with indexes, in which there is more work to  *)
(* do. FirstBackend is what an upgrade to version 1 leaves.                          *)
FirstBackend(names, records) ==
    LET s == SetToSeq(names)
        m == FoldLeft(LAMBDA a, x : WithIndex(a, "a", s[x], x), WithStore(Connected(NewBackend), "a", 1), [x \in DOMAIN s |-> x])
    IN Commit([NewBackend EXCEPT !.stores = <<[NewStoreObject EXCEPT !.modified = records]>>,
                                 !.indexes = [x \in DOMAIN s |-> [NewIndexObject EXCEPT !.modified = FilledFrom(records, RecordKeys)]]],
              [m EXCEPT !.schema.version = 1])

FullBackend == FirstBackend(IndexNames \ UniqueIndexes, [k \in RecordKeys |-> CHOOSE g \in Tags : TRUE])
EmptyBackend == FirstBackend(IndexNames, NoRecords)

OpenedBy(be) == [NoConnection EXCEPT !.state = "open", !.listed = TRUE, !.wants = 1, !.at = Connected(be)]
FirstConnection == CHOOSE c \in Connections : TRUE

StoreIdle ==
    /\ backend = NewBackend
    /\ conn = [c \in Connections |-> NoConnection]
    /\ tx = [t \in Transactions |-> Nil]
    /\ storeWork = 0 /\ raced = {} /\ stained = {}

StoreInit ==
    /\ \/ backend = NewBackend /\ conn = [c \in Connections |-> NoConnection] /\ storeWork = 1
       \/ /\ backend = FullBackend /\ storeWork = 1
          /\ conn = [c \in Connections |-> IF c = FirstConnection THEN OpenedBy(backend) ELSE NoConnection]
       \/ /\ backend = EmptyBackend /\ storeWork = 0
          /\ conn = [c \in Connections |-> IF c = FirstConnection THEN OpenedBy(backend)
                                           ELSE [NoConnection EXCEPT !.state = "unused"]]
    /\ tx = [t \in Transactions |-> Nil]
    /\ raced = {} /\ stained = {}

Work == storeWork < MaxWork /\ storeWork' = storeWork + 1

-----------------------------------------------------------------------------
(* Opening and closing.                                                           *)

(* open: to the comparison of versions. Every other open connection gets a          *)
(* versionchange event; those in deaf do not close themselves.                     *)
Open(c, v) ==
    /\ conn[c].state = "none"
    /\ LET version == backend.schema.version
           opened(state) == [NoConnection EXCEPT !.state = state, !.listed = state # "entering",
                                                 !.wants = v, !.at = Connected(backend)]
           others == {d \in Connections \ {c} : conn[d].listed /\ ~conn[d].pending}
       IN \/ version > v /\ conn' = [conn EXCEPT ![c] = [opened("refused") EXCEPT !.listed = FALSE]]
          \/ version = v /\ conn' = [conn EXCEPT ![c] = opened("open")]
          \/ /\ version < v
             /\ \E deaf \in SUBSET others :
                   conn' = [d \in Connections |->
                               IF d = c THEN opened("entering")
                               ELSE [conn[d] EXCEPT !.pending = @ \/ d \in others \ deaf]]
    /\ UNCHANGED <<backend, tx, storeWork, raced, stained>>

(* enterVersionChange, and the versionchange transaction: the connections that are   *)
(* still open are not waited for.                                                  *)
EnterVersionChange(c) ==
    /\ conn[c].state = "entering" /\ backend.level = "None"
    /\ backend' = Began(backend, "VersionChange")
    /\ conn' = [conn EXCEPT ![c].state = "upgrading", ![c].at.schema.version = conn[c].wants]
    /\ \E t \in Transactions : IsNextTx(t) /\ tx' = [tx EXCEPT ![t] = NewTx(c, "versionchange", TRUE)]
    /\ raced' = IF Stale(c) THEN raced \cup {"upgrade of a stale connection"} ELSE raced
    /\ UNCHANGED <<storeWork, stained>>

(* The upgradeneeded handler throws: nothing catches it, open never answers, and the  *)
(* transaction commits what was done so far.                                       *)
HandlerThrows(c) ==
    /\ conn[c].state = "upgrading"
    /\ \E t \in TxsOf(c) : tx[t].pc = "queued" /\ tx[t].queue = <<>> /\ ~tx[t].resting /\ ~Finished(t)
    /\ conn' = [conn EXCEPT ![c].state = "hung"]
    /\ UNCHANGED <<backend, tx, storeWork, raced, stained>>

(* open, after the upgrade                                                        *)
OpenDone(c) ==
    /\ conn[c].state = "upgrading"
    /\ \E t \in TxsOf(c) :
          /\ tx[t].pc = "ended"
          /\ conn' = [conn EXCEPT ![c].listed = TRUE,
                                  ![c].state = IF conn[c].pending THEN "open"
                                               ELSE IF tx[t].aborted THEN "closed" ELSE "open"]
    /\ UNCHANGED <<backend, tx, storeWork, raced, stained>>

Close(c) ==
    /\ conn[c].state = "open" /\ ~conn[c].pending
    /\ conn' = [conn EXCEPT ![c].pending = TRUE]
    /\ UNCHANGED <<backend, tx, storeWork, raced, stained>>

(* _closeConnection, which comes back until the transactions are finished            *)
CloseConnection(c) ==
    /\ conn[c].state = "open" /\ conn[c].pending
    /\ \A t \in TxsOf(c) : Finished(t)
    /\ conn' = [conn EXCEPT ![c].state = "closed"]
    /\ UNCHANGED <<backend, tx, storeWork, raced, stained>>

-----------------------------------------------------------------------------
(* Changes of the schema. changed is what is left of the connection, be of the heap.   *)
ChangeSchema(t, changed, be) ==
    /\ tx[t].mode = "versionchange" /\ tx[t].active /\ tx[t].btx /\ tx[t].pc # "committing"
    /\ conn' = [conn EXCEPT ![tx[t].conn].at = changed]
    /\ backend' = be
    /\ Work
    /\ UNCHANGED <<tx, raced>>

CreateObjectStore(t, n) ==
    /\ n \notin SchemaNames(t)
    /\ ChangeSchema(t, WithStore(At(t), n, Len(backend.stores) + 1),
                    [backend EXCEPT !.stores = Append(@, NewStoreObject)])
    /\ UNCHANGED stained

DeleteObjectStore(t, n) ==
    /\ n \in SchemaNames(t)
    /\ ChangeSchema(t, WithoutStore(At(t), n), backend)
    /\ UNCHANGED stained

RenameObjectStore(t, n, new) ==
    /\ n \in SchemaNames(t) /\ new \notin SchemaNames(t)
    /\ ChangeSchema(t, RenamedStore(At(t), n, new), backend)
    /\ stained' = stained \cup {<<new, s[2]>> : s \in {s \in stained : s[1] = n}}

(* With duplicates for a unique index the call throws; the index is there, filled      *)
(* from some records only.                                                        *)
CreateIndex(t, n, i) ==
    /\ n \in SchemaNames(t) /\ i \notin IndexNamesOf(At(t), n)
    /\ LET data == StoreData(backend, At(t), n)
           refuses == i \in UniqueIndexes /\ Duplicates(data)
       IN \E from \in IF refuses THEN SUBSET RecordKeys ELSE {RecordKeys} :
             /\ refuses => ~ \E k, l \in from : k # l /\ data[k] \in Tags /\ data[k] = data[l]
             /\ ChangeSchema(t, WithIndex(At(t), n, i, Len(backend.indexes) + 1),
                   [backend EXCEPT !.indexes = Append(@, [NewIndexObject EXCEPT !.modified = FilledFrom(data, from)])])
             /\ stained' = stained \cup {<<n, k>> : k \in RecordKeys \ from}

DeleteIndex(t, n, i) ==
    /\ n \in SchemaNames(t) /\ i \in IndexNamesOf(At(t), n)
    /\ At(t).schema.stores[n][i] # "undefined"
    /\ ChangeSchema(t, WithoutIndex(At(t), n, i), backend)
    /\ UNCHANGED stained

RenameIndex(t, n, i, new) ==
    /\ n \in SchemaNames(t) /\ i \in IndexNamesOf(At(t), n) /\ new \notin IndexNamesOf(At(t), n)
    /\ ChangeSchema(t, RenamedIndex(At(t), n, i, new), backend)
    /\ UNCHANGED stained

-----------------------------------------------------------------------------
(* Requests.                                                                      *)

(* transaction: _start is queued as a task at once.                                 *)
CreateTransaction(t, c, mode) ==
    /\ IsNextTx(t) /\ conn[c].state = "open" /\ ~conn[c].pending
    /\ DOMAIN conn[c].at.schema.stores # {}
    /\ tx' = [tx EXCEPT ![t] = NewTx(c, mode, FALSE)]
    /\ UNCHANGED <<backend, conn, storeWork, raced, stained>>

(* _execRequestAsync. The checks look at active only, so that the handlers of an       *)
(* aborted transaction can still place requests, which fail.                         *)
PlaceRequest(t, op) ==
    /\ Exists(t) /\ tx[t].active
    /\ op.store \in SchemaNames(t)
    /\ tx[t].mode = "readonly" => op.kind \in {"get", "find", "clear"}
    /\ op.kind = "find" => op.index \in IndexNamesOf(At(t), op.store)
    /\ tx' = [tx EXCEPT ![t].queue = Append(@, op)]
    /\ Work
    /\ UNCHANGED <<backend, conn, raced, stained>>

(* _start: the next request, or the end. The task that takes the active flag away       *)
(* after the handlers have run was queued before. commit leaves before the             *)
(* transaction says that it is committed.                                           *)
Start(t) ==
    /\ Exists(t) /\ tx[t].pc = "queued"
    /\ \/ /\ tx[t].queue # <<>>
          /\ tx' = [tx EXCEPT ![t].queue = Tail(@), ![t].current = Head(tx[t].queue),
                              ![t].active = @ /\ ~tx[t].resting, ![t].resting = FALSE,
                              ![t].pc = IF tx[t].btx \/ tx[t].aborted THEN "wait" ELSE "begin"]
          /\ UNCHANGED backend
       \/ /\ tx[t].queue = <<>> /\ ~Finished(t)
          /\ tx' = [tx EXCEPT ![t].active = FALSE, ![t].pc = "committing"]
          /\ backend' = IF tx[t].btx THEN Commit(backend, At(t)) ELSE backend
       \/ /\ tx[t].queue = <<>> /\ Finished(t)
          /\ tx' = [tx EXCEPT ![t] = Ended(@)]
          /\ UNCHANGED backend
    /\ UNCHANGED <<conn, storeWork, raced, stained>>

FinishCommit(t) ==
    /\ Exists(t) /\ tx[t].pc = "committing"
    /\ tx' = [tx EXCEPT ![t] = Ended(@)]
    /\ UNCHANGED <<backend, conn, storeWork, raced, stained>>

(* Mutant: the condition is not looked at again after the wait.                     *)
LevelAllowsAll(t) == TRUE

LevelAllows(t) == backend.level = "None"

(* beginTransaction. A transaction that was aborted while it waited takes the lock     *)
(* all the same, and nothing will ever release it.                                  *)
BeginTransaction(t) ==
    /\ Exists(t) /\ tx[t].pc = "begin" /\ LevelAllows(t)
    /\ backend' = Began(backend, IF tx[t].mode = "readonly" THEN "Read" ELSE "Write")
    /\ tx' = [tx EXCEPT ![t].btx = TRUE, ![t].pc = "wait"]
    /\ raced' = raced \cup (IF tx[t].aborted THEN {"aborted in beginTransaction"} ELSE {})
                      \cup (IF Stale(tx[t].conn) THEN {"transaction of a stale connection"} ELSE {})
    /\ UNCHANGED <<conn, storeWork, stained>>

(* What an operation of the backend does: the state that it leaves, and whether it       *)
(* fails.                                                                         *)
Outcomes(t, op) ==
    LET m == At(t)
        n == op.store
        data == StoreData(backend, m, n)
        fails(be) == [be |-> be, error |-> TRUE]
        works(be) == [be |-> be, error |-> FALSE]
    IN IF ~tx[t].btx \/ n \notin DOMAIN m.map THEN {fails(backend)}
       ELSE IF op.kind = "get" THEN {works(backend)}
       ELSE IF op.kind = "find"
       THEN IF op.index \notin IndexNamesOf(m, n) THEN {fails(backend)}
            ELSE LET found == IndexData(backend, m, n, op.index)[op.tag]
                 IN IF found = {} \/ data[Min(found)] # Absent THEN {works(backend)} ELSE {fails(backend)}
       ELSE IF backend.level = "Read" THEN {fails(backend)}
       ELSE IF op.kind = "clear" THEN {works(ClearObjectStore(backend, m, n))}
       ELSE IF op.kind = "delete"
       THEN LET left == IndexesWithout(backend, m, n, data[op.key])
            IN IF data[op.key] = Absent \/ left = {} THEN {works(DeleteRecord(backend, m, n, op.key))}
               ELSE {fails(WithoutEntries(backend, m, n, op.key, data[op.key], names)) :
                        names \in SUBSET (IndexNamesOf(m, n) \ left)}
       ELSE IF StoreRefuses(backend, m, n, op.key, op.kind = "put") THEN {fails(backend)}
       ELSE {[be |-> StoreRecord(backend, m, n, op.key, op.tag, names),
              error |-> RefusingIndexes(backend, m, n, op.tag) # {}] :
                names \in IndexesReached(backend, m, n, op.tag)}

(* An overwritten record leaves its old entry behind, a refused one is in the store      *)
(* without an entry, and one that could not be deleted may have lost some.             *)
Stains(t, op) ==
    IF op.kind \notin {"put", "add", "delete"} \/ ~tx[t].btx \/ op.store \notin DOMAIN At(t).map THEN {}
    ELSE LET old == StoreData(backend, At(t), op.store)[op.key]
             off == \/ op.kind = "put" /\ old \in Tags /\ old # op.tag
                    \/ op.kind # "delete" /\ RefusingIndexes(backend, At(t), op.store, op.tag) # {}
                    \/ op.kind = "delete" /\ old # Absent /\ IndexesWithout(backend, At(t), op.store, old) # {}
         IN IF off THEN {<<op.store, op.key>>} ELSE {}

(* _abort: the queued requests fail, the backend is rolled back if it has begun; while  *)
(* it commits, the abort is too late but the transaction is marked.                  *)
AbortFrom(t, r, be) ==
    /\ tx' = [tx EXCEPT ![t] = [r EXCEPT !.aborted = TRUE, !.active = FALSE, !.queue = <<>>,
                                         !.btx = r.btx /\ r.pc = "committing"]]
    /\ IF r.btx /\ r.pc # "committing"
       THEN /\ backend' = Rollback(be)
            /\ conn' = [conn EXCEPT ![tx[t].conn].at = Connected(Rollback(be))]
       ELSE UNCHANGED <<backend, conn>>

(* The operation runs, its event is dispatched, and _start is called or queued again.   *)
(* An error event that no handler cancels, or a handler that throws, aborts.         *)
RunOperation(t) ==
    /\ Exists(t) /\ tx[t].pc = "wait"
    /\ \E o \in Outcomes(t, tx[t].current) :
          LET after == [tx[t] EXCEPT !.pc = "queued", !.current = Nil, !.active = TRUE, !.resting = TRUE]
          IN \/ /\ backend' = o.be
                /\ tx' = [tx EXCEPT ![t] = after]
                /\ UNCHANGED conn
             \/ ~Finished(t) /\ AbortFrom(t, after, o.be)
    /\ stained' = stained \cup Stains(t, tx[t].current)
    /\ UNCHANGED <<storeWork, raced>>

(* abort, by the client, whenever its function fails                                 *)
AbortTransaction(t) ==
    /\ Exists(t) /\ ~Finished(t)
    /\ AbortFrom(t, tx[t], backend)
    /\ UNCHANGED <<storeWork, raced, stained>>

-----------------------------------------------------------------------------
(* The process ends. A node wallet keeps a dump of what was committed, written by the   *)
(* afterCommitCallback before the transaction completes.                            *)
RestoredObject(o) == [o EXCEPT !.modified = Nil]

ImportDump ==
    /\ \E t \in Transactions : Exists(t)
    /\ backend' = [backend EXCEPT !.level = "None",
                                  !.stores = [s \in DOMAIN @ |-> RestoredObject(@[s])],
                                  !.indexes = [x \in DOMAIN @ |-> RestoredObject(@[x])]]
    /\ conn' = [c \in Connections |-> NoConnection]
    /\ tx' = [t \in Transactions |-> Nil]
    /\ Work
    /\ UNCHANGED <<raced, stained>>

SchemaNext(t) ==
    \E n, m \in StoreNames, i, j \in IndexNames :
        \/ CreateObjectStore(t, n) \/ DeleteObjectStore(t, n) \/ RenameObjectStore(t, n, m)
        \/ CreateIndex(t, n, i) \/ DeleteIndex(t, n, i) \/ RenameIndex(t, n, i, j)

ConnectionSteps(c) == EnterVersionChange(c) \/ OpenDone(c) \/ CloseConnection(c)
TransactionSteps(t) ==
    Start(t) \/ FinishCommit(t) \/ BeginTransaction(t) \/ RunOperation(t)

StoreClient ==
    \/ \E c \in Connections : (\E v \in Versions : Open(c, v)) \/ HandlerThrows(c) \/ Close(c)
    \/ \E t \in Transactions, c \in Connections, mode \in {"readonly", "readwrite"} : CreateTransaction(t, c, mode)
    \/ \E t \in Transactions : AbortTransaction(t) \/ (Exists(t) /\ SchemaNext(t)) \/ \E op \in Requests : PlaceRequest(t, op)
    \/ ImportDump

StoreNext ==
    raced = {} /\ (StoreClient \/ (\E c \in Connections : ConnectionSteps(c)) \/ (\E t \in Transactions : TransactionSteps(t)))

StoreFairness ==
    /\ \A c \in Connections : WF_storeVars(raced = {} /\ ConnectionSteps(c))
    /\ \A t \in Transactions : WF_storeVars(raced = {} /\ TransactionSteps(t))

-----------------------------------------------------------------------------
(* Isolation and atomicity: the database implements the serial store.                *)
ContentOf(be, m) ==
    [n \in DOMAIN m.schema.stores |->
        [data |-> StoreData(be, m, n),
         indexes |-> [i \in IndexNamesOf(m, n) |-> IndexData(be, m, n, i)]]]

Committed == [backend EXCEPT !.stores = [s \in DOMAIN @ |-> RestoredObject(@[s])],
                             !.indexes = [x \in DOMAIN @ |-> RestoredObject(@[x])]]

Serial == INSTANCE SerialStore WITH
    NoView <- Nil,
    content <- ContentOf(Committed, Connected(Committed)),
    view <- [t \in Transactions |->
                IF Exists(t) /\ tx[t].btx /\ tx[t].pc # "committing" THEN ContentOf(backend, At(t)) ELSE Nil]

SerialSteps == [][Serial!SerialNext \/ raced' # {}]_storeVars
StoreSerial == Serial!SerialInit /\ SerialSteps

(* An index finds exactly the records that have its tag, except for records that were    *)
(* overwritten with another tag, or stored although a unique index refused them.       *)
IndexExact ==
    raced = {} =>
    LET m == Connected(backend) IN
    \A n \in DOMAIN m.schema.stores : \A i \in IndexNamesOf(m, n) : \A k \in RecordKeys :
        <<n, k>> \notin stained /\ m.schema.stores[n][i] # "undefined" =>
        \A g \in Tags : (k \in IndexData(Committed, m, n, i)[g]) <=> (StoreData(Committed, m, n)[k] = g)

(* The lock of the database has an owner that is still going to release it.            *)
LockOwned ==
    raced = {} /\ backend.level # "None" =>
        \E t \in Transactions : /\ Exists(t) /\ tx[t].btx /\ ~Finished(t) /\ tx[t].pc # "ended"
                                /\ \A u \in Transactions \ {t} :
                                       Exists(u) /\ tx[u].btx => tx[u].pc = "committing"

(* Every transaction ends, and so does every opening whose handler did not throw (while    *)
(* the model has a transaction left for it): again and again none is under way. There are   *)
(* only so many of them, and what has ended does not start again.                       *)
StoreLive ==
    []<>(raced # {} \/ (/\ \A t \in Transactions : Exists(t) => tx[t].pc = "ended"
                        /\ \A c \in Connections : conn[c].state \in {"entering", "upgrading"} =>
                              \A t \in Transactions : Exists(t)))
=============================================================================

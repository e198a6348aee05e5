------------------------------ MODULE IndexedBackend ------------------------------
(* idb-bridge/src/MemoryBackend.ts: one database, as operators on its state.       *)
(* Store and index objects are shared by reference between the database and its    *)
(* connections; here they sit in the sequences stores and indexes, and a reference  *)
(* is a position. Each has original data, and modified data while a transaction     *)
(* has touched it.                                                                *)
EXTENDS Naturals, Sequences, FiniteSets, TLC, FiniteSetsExt

CONSTANTS
    Nil,            \* JavaScript's undefined
    RecordKeys,     \* primary keys
    Tags,           \* what records are indexed by; a record without it holds Nil
    UniqueIndexes   \* the names of indexes that are created as unique

Absent == "absent"
NoRecords == [k \in RecordKeys |-> Absent]
NoEntries == [t \in Tags |-> {}]

(* connectDatabase: a new database has version 0 and no stores.                    *)
NewBackend ==
    [level |-> "None",
     schema |-> [version |-> 0, stores |-> <<>>],
     objects |-> <<>>,
     stores |-> <<>>, indexes |-> <<>>]

NewStoreObject == [original |-> NoRecords, modified |-> Nil, indexes |-> <<>>]
NewIndexObject == [original |-> NoEntries, modified |-> Nil]

Latest(o) == IF o.modified = Nil THEN o.original ELSE o.modified

(* makeObjectStoreMap                                                             *)
MakeObjectStoreMap(be) ==
    [n \in DOMAIN be.objects |->
        [store |-> be.objects[n], indexMap |-> be.stores[be.objects[n]].indexes]]

Connected(be) == [schema |-> be.schema, map |-> MakeObjectStoreMap(be)]

-----------------------------------------------------------------------------
(* What a connection m reads and writes in its transaction.                       *)
StoreData(be, m, n) == Latest(be.stores[m.map[n].store])
IndexData(be, m, n, i) == Latest(be.indexes[m.map[n].indexMap[i]])
IndexNamesOf(m, n) == DOMAIN m.schema.stores[n]

Without(f, x) == [y \in DOMAIN f \ {x} |-> f[y]]

(* insertIntoIndex, for one record; getIndexKeys yields no key for a record        *)
(* without a tag.                                                                *)
IndexRefuses(be, m, n, i, tag) ==
    \/ m.schema.stores[n][i] = "undefined"
    \/ m.schema.stores[n][i] = "unique" /\ tag # Nil /\ IndexData(be, m, n, i)[tag] # {}

InsertIntoIndex(o, k, tag) ==
    IF tag = Nil \/ k \in Latest(o)[tag] THEN o
    ELSE [o EXCEPT !.modified = [Latest(o) EXCEPT ![tag] = @ \cup {k}]]

(* deleteFromIndex                                                                *)
DeleteFromIndex(o, k, tag) ==
    IF tag = Nil THEN o ELSE [o EXCEPT !.modified = [Latest(o) EXCEPT ![tag] = @ \ {k}]]

(* One of them, in the indexes of a store that are called names.                     *)
InIndexes(be, m, n, names, Op(_)) ==
    [be EXCEPT !.indexes = [x \in DOMAIN @ |-> IF \E i \in names : x = m.map[n].indexMap[i] THEN Op(@[x]) ELSE @[x]]]

(* storeRecord. It replaces the record first; what an earlier version of the        *)
(* record left in an index stays there, and when an index refuses the new one, the   *)
(* record stays in the store and in the indexes that came before: names.            *)
StoreRefuses(be, m, n, k, overwrite) == ~overwrite /\ StoreData(be, m, n)[k] # Absent

RefusingIndexes(be, m, n, tag) == {i \in IndexNamesOf(m, n) : IndexRefuses(be, m, n, i, tag)}

IndexesReached(be, m, n, tag) ==
    LET accepting == IndexNamesOf(m, n) \ RefusingIndexes(be, m, n, tag)
    IN IF RefusingIndexes(be, m, n, tag) = {} THEN {accepting} ELSE SUBSET accepting

WithRecord(be, m, n, k, tag) ==
    [be EXCEPT !.stores[m.map[n].store].modified = [StoreData(be, m, n) EXCEPT ![k] = tag]]

StoreRecord(be, m, n, k, tag, names) ==
    InIndexes(WithRecord(be, m, n, k, tag), m, n, names, LAMBDA o : InsertIntoIndex(o, k, tag))

(* Mutant: the record goes, its index entries stay.                                *)
DeleteRecordOnly(be, m, n, k) == WithRecord(be, m, n, k, Absent)

(* deleteRecord for the range of one key. An index without entries for the record's tag   *)
(* makes it throw, and the record stays; the indexes that came before have lost theirs.    *)
WithoutEntries(be, m, n, k, tag, names) == InIndexes(be, m, n, names, LAMBDA o : DeleteFromIndex(o, k, tag))

IndexesWithout(be, m, n, tag) ==
    {i \in IndexNamesOf(m, n) : \/ m.schema.stores[n][i] = "undefined"
                                \/ tag \in Tags /\ IndexData(be, m, n, i)[tag] = {}}

DeleteRecord(be, m, n, k) ==
    LET tag == StoreData(be, m, n)[k]
    IN IF tag = Absent THEN be
       ELSE WithoutEntries(WithRecord(be, m, n, k, Absent), m, n, k, tag, IndexNamesOf(m, n))

(* clearObjectStore                                                               *)
ClearObjectStore(be, m, n) ==
    InIndexes([be EXCEPT !.stores[m.map[n].store].modified = NoRecords], m, n, IndexNamesOf(m, n),
        LAMBDA o : [o EXCEPT !.modified = NoEntries])

-----------------------------------------------------------------------------
(* Transactions. enterVersionChange and beginTransaction wait for level "None".     *)
Began(be, level) == [be EXCEPT !.level = level]

(* Mutant: the indexes keep the changes of the transaction that is rolled back.     *)
RollbackStoresOnly(be) ==
    [be EXCEPT !.level = "None",
               !.stores = [s \in DOMAIN @ |-> [@[s] EXCEPT !.modified = Nil]]]

(* Mutant: the lock of the transaction that is rolled back stays.                   *)
RollbackKeepsLevel(be) == [be EXCEPT !.stores = [s \in DOMAIN @ |-> [@[s] EXCEPT !.modified = Nil]]]

(* rollback; the connection is then given a new map (see Connected).               *)
Rollback(be) ==
    LET committed == {be.objects[n] : n \in DOMAIN be.objects}
        owned == UNION {{be.stores[s].indexes[i] : i \in DOMAIN be.stores[s].indexes} : s \in committed}
    IN [be EXCEPT
          !.level = "None",
          !.stores = [s \in DOMAIN @ |-> IF s \in committed THEN [@[s] EXCEPT !.modified = Nil] ELSE @[s]],
          !.indexes = [x \in DOMAIN @ |-> IF x \in owned THEN [@[x] EXCEPT !.modified = Nil] ELSE @[x]]]

(* commit: what the connection sees becomes the database. (The modified data stays  *)
(* where it is, equal to the original.)                                            *)
Commit(be, m) ==
    LET used == {m.map[n].store : n \in DOMAIN m.map}
        name(s) == CHOOSE n \in DOMAIN m.map : m.map[n].store = s
        owned == UNION {{m.map[n].indexMap[i] : i \in DOMAIN m.map[n].indexMap} : n \in DOMAIN m.map}
    IN [be EXCEPT
          !.level = "None",
          !.schema = m.schema,
          !.objects = [n \in DOMAIN m.map |-> m.map[n].store],
          !.stores = [s \in DOMAIN @ |->
              IF s \in used THEN [@[s] EXCEPT !.original = Latest(be.stores[s]),
                                              !.indexes = m.map[name(s)].indexMap @@ @]
              ELSE @[s]],
          !.indexes = [x \in DOMAIN @ |->
              IF x \in owned THEN [@[x] EXCEPT !.original = Latest(be.indexes[x])] ELSE @[x]]]

-----------------------------------------------------------------------------
(* Changes of the schema, in a versionchange transaction: they go to the           *)
(* connection, and new objects to the heap.                                       *)
WithStore(m, n, s) == [m EXCEPT !.schema.stores = n :> <<>> @@ @,
                                !.map = n :> [store |-> s, indexMap |-> <<>>] @@ @]

WithoutStore(m, n) == [m EXCEPT !.schema.stores = Without(@, n), !.map = Without(@, n)]

RenamedStore(m, n, new) ==
    [m EXCEPT !.schema.stores = new :> @[n] @@ Without(@, n), !.map = new :> @[n] @@ Without(@, n)]

WithIndex(m, n, i, x) ==
    [m EXCEPT !.schema.stores[n] = i :> (IF i \in UniqueIndexes THEN "unique" ELSE "plain") @@ @,
              !.map[n].indexMap = i :> x @@ @]

WithoutIndex(m, n, i) ==
    [m EXCEPT !.schema.stores[n] = Without(@, i), !.map[n].indexMap = Without(@, i)]

(* renameIndex assigns the properties of the new name to the new name.             *)
RenamedIndex(m, n, i, new) ==
    [m EXCEPT !.schema.stores[n] = new :> "undefined" @@ Without(@, i),
              !.map[n].indexMap = new :> @[i] @@ Without(@, i)]

(* createIndex fills the new index from the store; a unique one that finds a tag     *)
(* twice throws in the middle, so that some records are in it and some are not.      *)
Duplicates(data) == \E k, l \in RecordKeys : k # l /\ data[k] \in Tags /\ data[k] = data[l]

FilledFrom(data, from) == [t \in Tags |-> {k \in from : data[k] = t}]
=============================================================================

----------------------------------- MODULE Cursors -----------------------------------
(* Cursors of idb-bridge: BridgeIDBCursor (bridge-idb.ts), and getRecords of MemoryBackend,   *)
(* which looks for the next record from the cursor's position. A transaction runs its        *)
(* requests one after the other, and a cursor only takes a request when the one before has    *)
(* been answered; so an action here is a call with its operation. Cursors have values.     *)
LOCAL INSTANCE Naturals
LOCAL INSTANCE Sequences
LOCAL INSTANCE FiniteSets
LOCAL INSTANCE FiniteSetsExt

CONSTANTS
    CursorKeys,     \* primary keys
    IndexKeys,      \* what records are indexed by
    Ranges,         \* [lower, upper, lowerOpen, upperOpen]
    NoKey,          \* JavaScript's undefined
    MaxAlterations  \* bound: changes of the store after the cursor was opened

ASSUME RangeAssumption ==
    /\ CursorKeys \cup IndexKeys \subseteq Nat \ {0}
    /\ \A r \in Ranges : {r.lower, r.upper} \subseteq Nat \cup {NoKey}

VARIABLES
    shelf,      \* [records, index]: key |-> index key; <<index key, key>>
    cursor,     \* [state, source, direction, range, indexPos, storePos]
    trip,       \* history: [visited, lasting, skipped, sought]
    alterations

cursorVars == <<shelf, cursor, trip, alterations>>

Directions == {"next", "nextunique", "prev", "prevunique"}
Forward(c) == c.direction \in {"next", "nextunique"}
Unique(c) == c.direction \in {"nextunique", "prevunique"}

Least(S) == IF S = {} THEN NoKey ELSE Min(S)
Greatest(S) == IF S = {} THEN NoKey ELSE Max(S)
Extreme(c, S) == IF Forward(c) THEN Least(S) ELSE Greatest(S)
Higher(S, k) == Least({x \in S : x > k})
Beyond(c, S, k) == IF Forward(c) THEN Higher(S, k) ELSE Greatest({x \in S : x < k})
Bound(c) == IF Forward(c) THEN c.range.lower ELSE c.range.upper

(* BridgeIDBKeyRange.includes                                                     *)
Includes(r, k) ==
    /\ r.lower # NoKey => IF r.lowerOpen THEN r.lower < k ELSE r.lower <= k
    /\ r.upper # NoKey => IF r.upperOpen THEN k < r.upper ELSE k <= r.upper

Furthest(c, k, l) ==
    IF k = NoKey THEN l ELSE IF l = NoKey THEN k ELSE IF Forward(c) THEN Max({k, l}) ELSE Min({k, l})

-----------------------------------------------------------------------------
(* getRecords, for one record. What it finds is an entry, <<index key, key>>; for a store     *)
(* the key twice.                                                               *)
Nothing == <<"nothing">>
Broken == <<"throws">>

(* On a store. Beside the position it goes up in both directions.                       *)
FromStore(c, key) ==
    LET keys == DOMAIN shelf.records
        from == Furthest(c, key, IF c.storePos # NoKey THEN c.storePos ELSE Bound(c))
        pos == IF from = NoKey THEN Extreme(c, keys)
               ELSE IF from \notin keys \/ from = c.storePos THEN Higher(keys, from) ELSE from
    IN IF pos # NoKey /\ Includes(c.range, pos) THEN <<pos, pos>> ELSE Nothing

(* Mutant: the other records under the same index key are passed over.                    *)
LeftNone(c, pos, keys) == IF pos = c.indexPos THEN {} ELSE keys

(* Which of the keys under index key pos are still to come                              *)
Left(c, pos, keys) ==
    IF pos # c.indexPos THEN keys
    ELSE IF Unique(c) THEN {}
    ELSE {k \in keys : IF Forward(c) THEN k > c.storePos ELSE k < c.storePos}

(* On an index. The key that continue asks for only counts when it is higher.            *)
FromIndex(c, key) ==
    LET tags == {e[1] : e \in shelf.index}
        keysOf(pos) == {e[2] : e \in {x \in shelf.index : x[1] = pos}}
        last == IF c.indexPos # NoKey THEN c.indexPos ELSE Bound(c)
        asked == IF key # NoKey /\ key > last THEN key ELSE last
        from == IF asked = NoKey THEN Extreme(c, tags) ELSE asked
        pos == IF from \in tags THEN from ELSE Beyond(c, tags, from)
        here == Left(c, pos, keysOf(pos))
        after == Beyond(c, tags, pos)
        entry(p, keys) == IF Includes(c.range, p)
                          THEN <<p, IF Unique(c) THEN Min(keys) ELSE Extreme(c, keys)>> ELSE Nothing
        found == IF pos = NoKey \/ ~Includes(c.range, pos) THEN Nothing
                 ELSE IF here # {} THEN entry(pos, here)
                 ELSE IF after = NoKey THEN Nothing ELSE entry(after, keysOf(after))
    IN IF from = NoKey \/ (found # Nothing /\ found[2] \notin DOMAIN shelf.records) THEN Broken ELSE found

(* _iterate                                                                     *)
Found(c, key) == IF c.source = "store" THEN FromStore(c, key) ELSE FromIndex(c, key)

Iterated(c, key) ==
    LET found == Found(c, key)
    IN CASE found = Nothing -> [c EXCEPT !.state = "ended"]
         [] found = Broken -> [c EXCEPT !.state = "threw"]
         [] OTHER -> [c EXCEPT !.state = "value", !.storePos = found[2],
                               !.indexPos = IF c.source = "store" THEN NoKey ELSE found[1]]

(* The records in the store, as entries of the cursor's source                            *)
Entries(c, records) == {<<IF c.source = "store" THEN k ELSE records[k], k>> : k \in DOMAIN records}
CursorAt(c) == <<IF c.source = "store" THEN c.storePos ELSE c.indexPos, c.storePos>>

Arrives(c, skipped, sought) ==
    /\ cursor' = c
    /\ trip' = [trip EXCEPT !.visited = IF c.state = "value" THEN Append(@, CursorAt(c)) ELSE @,
                            !.skipped = @ \cup skipped, !.sought = @ \/ sought]
    /\ UNCHANGED <<shelf, alterations>>

(* e comes before f in the direction of the cursor                                    *)
Precedes(c, e, f) ==
    LET before(k, l) == IF Forward(c) THEN k < l ELSE l < k
    IN before(e[1], f[1]) \/ (e[1] = f[1] /\ ~Unique(c) /\ before(e[2], f[2]))

-----------------------------------------------------------------------------
(* openCursor of a store or of an index                                             *)
OpenCursor(source, direction, range) ==
    LET c == [state |-> "new", source |-> source, direction |-> direction, range |-> range,
              indexPos |-> NoKey, storePos |-> NoKey]
        first == Iterated(c, NoKey)
    IN /\ cursor.state = "none"
       /\ cursor' = first
       /\ trip' = [trip EXCEPT !.lasting = Entries(c, shelf.records), !.visited = IF first.state = "value" THEN <<CursorAt(first)>> ELSE <<>>]
       /\ UNCHANGED <<shelf, alterations>>

(* continue, without a key, or with one that lies ahead                                 *)
Continue ==
    /\ cursor.state = "value"
    /\ Arrives(Iterated(cursor, NoKey), {}, FALSE)

ContinueTo(key) ==
    /\ cursor.state = "value" /\ ~trip.sought
    /\ IF Forward(cursor) THEN key > CursorAt(cursor)[1] ELSE key < CursorAt(cursor)[1]
    /\ Arrives(Iterated(cursor, key),
               {e \in Entries(cursor, shelf.records) :
                    Precedes(cursor, CursorAt(cursor), e) /\ IF Forward(cursor) THEN e[1] < key ELSE e[1] > key}, TRUE)

(* advance, by two. (After null it looks again, and finds null again.)                     *)
Advance ==
    LET one == Iterated(cursor, NoKey)
    IN /\ cursor.state = "value" /\ ~trip.sought
       /\ IF one.state = "value" THEN Arrives(Iterated(one, NoKey), {CursorAt(one)}, TRUE)
          ELSE Arrives(one, {}, TRUE)

(* Changes of the store by other requests of the transaction: put leaves the index entry of   *)
(* the record that it replaces,                                                  *)
Alter(records, index) ==
    /\ alterations < MaxAlterations /\ alterations' = alterations + 1
    /\ shelf' = [records |-> records, index |-> index]
    /\ trip' = [trip EXCEPT !.lasting = @ \cap Entries(cursor, records)]
    /\ UNCHANGED cursor

PutRecord(k, tag) ==
    Alter([l \in DOMAIN shelf.records \cup {k} |-> IF l = k THEN tag ELSE shelf.records[l]],
          shelf.index \cup {<<tag, k>>})

(* delete removes the present one,                                                 *)
RemoveRecord(k) ==
    Alter([l \in DOMAIN shelf.records \ {k} |-> shelf.records[l]],
          shelf.index \ {<<shelf.records[k], k>>})

(* and update and delete of the cursor do the same where it stands.                      *)
CursorUpdate(tag) == cursor.state = "value" /\ cursor.storePos \in DOMAIN shelf.records /\ PutRecord(cursor.storePos, tag)
CursorDelete == cursor.state = "value" /\ cursor.storePos \in DOMAIN shelf.records /\ RemoveRecord(cursor.storePos)

NoCursor == [state |-> "none", source |-> "store"]
CursorIdle == cursor = NoCursor /\ shelf = [records |-> <<>>, index |-> {}] /\ alterations = 0
              /\ trip = [visited |-> <<>>, lasting |-> {}, skipped |-> {}, sought |-> FALSE]

CursorInit ==
    /\ cursor = NoCursor /\ alterations = 0
    /\ trip = [visited |-> <<>>, lasting |-> {}, skipped |-> {}, sought |-> FALSE]
    /\ \E keys \in SUBSET CursorKeys : \E records \in [keys -> IndexKeys] :
          shelf = [records |-> records, index |-> {<<records[k], k>> : k \in keys}]

CursorNext ==
    \/ \E source \in {"store", "index"}, direction \in Directions, range \in Ranges : OpenCursor(source, direction, range)
    \/ Continue \/ Advance \/ \E k \in CursorKeys \cup IndexKeys : ContinueTo(k)
    \/ /\ cursor.state = "value"
       /\ \/ \E k \in CursorKeys, tag \in IndexKeys : PutRecord(k, tag)
          \/ \E k \in DOMAIN shelf.records : RemoveRecord(k)
    \/ CursorDelete \/ \E tag \in IndexKeys : CursorUpdate(tag)

-----------------------------------------------------------------------------
(* What does not work: a store backwards; a bound that is open where the cursor starts; the    *)
(* key that continue asks for on an index backwards.                                  *)
Supported(c) ==
    /\ c.source = "store" => Forward(c)
    /\ ~(IF Forward(c) THEN c.range.lowerOpen /\ c.range.lower # NoKey ELSE c.range.upperOpen /\ c.range.upper # NoKey)
    /\ ~(trip.sought /\ c.source = "index" /\ ~Forward(c))

StaleEntries == {e \in shelf.index : e[2] \notin DOMAIN shelf.records \/ shelf.records[e[2]] # e[1]}

(* An iteration visits records of its range in the order of its direction and none twice, and  *)
(* in the end it has visited, or was asked to skip, every record of the range that was there   *)
(* all the time, or another one with its key if keys are to be unique; whatever is written,    *)
(* deleted or updated on the way. It throws only at entries of records that were overwritten   *)
(* before they were deleted, or if the index is empty from the beginning.               *)
CursorComplete ==
    cursor.state # "none" /\ Supported(cursor) =>
        LET visited == {trip.visited[i] : i \in DOMAIN trip.visited}
        IN /\ \A i \in DOMAIN trip.visited : Includes(cursor.range, trip.visited[i][1])
           /\ \A i, j \in DOMAIN trip.visited : i < j => Precedes(cursor, trip.visited[i], trip.visited[j])
           /\ cursor.state = "ended" => \A e \in trip.lasting \ trip.skipped :
                 Includes(cursor.range, e[1]) =>
                     \E v \in visited \cup trip.skipped : v = e \/ (Unique(cursor) /\ v[1] = e[1])
           /\ visited \cap trip.skipped = {}
           /\ cursor.state = "threw" => StaleEntries # {} \/ trip.lasting = {}
=============================================================================
